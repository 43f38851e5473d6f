--------------------------- MODULE CoverageProofs ---------------------------
(***************************************************************************)
(* What the ranking answers and who gets a turn, for every pool, every     *)
(* order the jitter leaves, every score and every request.                 *)
(***************************************************************************)
EXTENDS Turns, RegistryProofs

-----------------------------------------------------------------------------
(* Extremes of finite sets *)

\* A number for each member of a finite set has a highest value.
LEMMA HighestExists ==
  ASSUME NEW P, IsFiniteSet(P), P # {}, NEW f, \A p \in P : f[p] \in Int
  PROVE  \E p \in P : \A q \in P : f[q] <= f[p]
<1> DEFINE Above(p) == {q \in P : f[q] > f[p]}
           counts == {Cardinality(Above(p)) : p \in P}
<1>1. \A p \in P : IsFiniteSet(Above(p)) /\ Cardinality(Above(p)) \in Nat
  BY FS_Subset, FS_CardinalityType
<1>2. PICK p \in P : \A q \in P : Cardinality(Above(p)) <= Cardinality(Above(q))
  <2>1. counts \in SUBSET Nat /\ counts # {}
    BY <1>1
  <2>2. PICK x \in counts : \A y \in counts : x <= y
    BY <2>1, LeastNatural
  <2> QED BY <2>2
<1>3. ASSUME NEW q \in P, f[q] > f[p] PROVE FALSE
  <2>1. Above(q) \in SUBSET Above(p) /\ q \in Above(p) /\ q \notin Above(q)
    BY <1>3, SMT
  <2>2. Cardinality(Above(q)) <= Cardinality(Above(p)) /\ Cardinality(Above(q)) # Cardinality(Above(p))
    BY <1>1, <2>1, FS_Subset
  <2> HIDE DEF Above
  <2> QED BY <1>1, <1>2, <1>3, <2>2, SMT
<1> QED BY <1>2, <1>3, SMT

\* And a lowest one.
LEMMA LowestExists ==
  ASSUME NEW P, IsFiniteSet(P), P # {}, NEW f, \A p \in P : f[p] \in Int
  PROVE  \E p \in P : \A q \in P : f[p] <= f[q]
<1> DEFINE g == [p \in P |-> -f[p]]
<1>1. \A p \in P : g[p] = -f[p] /\ g[p] \in Int
  BY SMT
<1> HIDE DEF g
<1>2. PICK p \in P : \A q \in P : g[q] <= g[p]
  BY <1>1, HighestExists
<1> QED BY <1>1, <1>2, SMT

-----------------------------------------------------------------------------
(* The walk of pass 1 *)

\* An order of P: a position for each member, no two alike.
IsOrder(pos, P) ==
  /\ \A p \in P : pos[p] \in Nat
  /\ \A p, q \in P : pos[p] = pos[q] => p = q

FirstFew(pos, P, k) ==
  {p \in P : Cardinality({q \in P : pos[q] < pos[p]}) < k}

\* The first k members of an order are k, or everyone.
LEMMA FirstFewLemma ==
  ASSUME NEW P, IsFiniteSet(P), NEW pos, IsOrder(pos, P), NEW k \in Nat
  PROVE  /\ Cardinality(FirstFew(pos, P, k)) <= k
         /\ FirstFew(pos, P, k) = P \/ Cardinality(FirstFew(pos, P, k)) = k
<1> DEFINE first == FirstFew(pos, P, k)
           Ahead(p) == {q \in P : pos[q] < pos[p]}
<1>1. /\ IsFiniteSet(first) /\ first \in SUBSET P /\ Cardinality(first) \in Nat
      /\ \A p \in P : IsFiniteSet(Ahead(p)) /\ Cardinality(Ahead(p)) \in Nat
  BY FS_Subset, FS_CardinalityType DEF FirstFew
<1>2. \A p \in P : p \in first <=> Cardinality(Ahead(p)) < k
  BY DEF FirstFew
<1>3. \A p \in P : pos[p] \in Int
  BY SMT DEF IsOrder
<1> HIDE DEF first
<1>4. Cardinality(first) <= k
  <2>1. CASE first = {}
    BY <2>1, FS_EmptySet, SMT
  <2>2. CASE first # {}
    <3>1. PICK m \in first : \A q \in first : pos[q] <= pos[m]
      BY <1>1, <1>3, <2>2, HighestExists
    <3>2. first \in SUBSET (Ahead(m) \cup {m})
      BY <1>1, <3>1, SMT DEF IsOrder
    <3>3. /\ IsFiniteSet(Ahead(m) \cup {m})
          /\ Cardinality(Ahead(m) \cup {m}) = Cardinality(Ahead(m)) + 1
      <4>1. m \in P /\ m \notin Ahead(m)
        BY <1>1, <1>3, SMT
      <4> QED BY <1>1, <4>1, FS_AddElement
    <3>4. Cardinality(first) <= Cardinality(Ahead(m) \cup {m})
      BY <3>2, <3>3, FS_Subset
    <3>5. Cardinality(Ahead(m) \cup {m}) \in Nat
      BY <3>3, FS_CardinalityType
    <3>6. Cardinality(Ahead(m)) < k /\ Cardinality(Ahead(m)) \in Nat
      BY <1>1, <1>2
    <3> QED BY <1>1, <3>3, <3>4, <3>5, <3>6, SMT
  <2> QED BY <2>1, <2>2
<1>5. ASSUME first # P PROVE Cardinality(first) >= k
  <2> DEFINE rest == P \ first
  <2>1. rest # {} /\ IsFiniteSet(rest) /\ rest \subseteq P
    BY <1>1, <1>5, FS_Difference
  <2> HIDE DEF rest
  <2>2. PICK m \in rest : \A q \in rest : pos[m] <= pos[q]
    BY <1>3, <2>1, LowestExists
  <2>3. Ahead(m) \in SUBSET first
    BY <1>3, <2>1, <2>2, SMT DEF rest
  <2>4. Cardinality(Ahead(m)) <= Cardinality(first)
    BY <1>1, <2>3, FS_Subset
  <2>5. m \in P /\ m \notin first
    BY <2>1 DEF rest
  <2> QED BY <1>1, <1>2, <2>4, <2>5, SMT
<1> QED BY <1>1, <1>4, <1>5, SMT DEF first

Cold(scored, peers) == {p \in peers : scored[p].exploratory}

Admitted(scored, pos, peers, budget) ==
  (peers \ Cold(scored, peers)) \cup FirstFew(pos, Cold(scored, peers), budget)

\* The walk takes the first of those the budget admits.
LEMMA WalkIsFirstFew ==
  ASSUME NEW scored, NEW pos, NEW peers, NEW cap, NEW budget
  PROVE  Walk(scored, pos, peers, cap, budget) =
           FirstFew(pos, Admitted(scored, pos, peers, budget), cap)
<1> DEFINE Ahead(p) == {q \in peers : pos[q] < pos[p]}
           admitted == {p \in peers :
                          scored[p].exploratory =>
                            Cardinality({q \in Ahead(p) : scored[q].exploratory}) < budget}
<1>1. \A p : {q \in Ahead(p) : scored[q].exploratory} =
               {q \in Cold(scored, peers) : pos[q] < pos[p]}
  BY Zenon DEF Cold
<1>2. admitted = Admitted(scored, pos, peers, budget)
  BY <1>1, Zenon DEF Admitted, FirstFew, Cold
<1>3. \A p : Ahead(p) \cap admitted = {q \in admitted : pos[q] < pos[p]}
  OBVIOUS
<1>4. Walk(scored, pos, peers, cap, budget) =
        {p \in admitted : Cardinality(Ahead(p) \cap admitted) < cap}
  BY DEF Walk
<1> HIDE DEF admitted
<1> QED BY <1>2, <1>3, <1>4, Zenon DEF FirstFew

\* What pass 1 takes: never more than the cap, never more unmeasured peers
\* than the budget; and less than the cap only when it has everyone it may.
LEMMA WalkLemma ==
  ASSUME NEW scored, NEW peers, IsFiniteSet(peers), NEW pos, IsOrder(pos, peers),
         NEW cap \in Nat, NEW budget \in Nat
  PROVE  LET first == Walk(scored, pos, peers, cap, budget)
             cold == Cold(scored, peers)
         IN  /\ first \subseteq peers
             /\ Cardinality(first) <= cap
             /\ Cardinality(first \cap cold) <= budget
             /\ \/ Cardinality(first) = cap
                \/ /\ peers \ cold \subseteq first
                   /\ first = peers \/ Cardinality(first \cap cold) = budget
<1> DEFINE first == Walk(scored, pos, peers, cap, budget)
           cold == Cold(scored, peers)
           few == FirstFew(pos, cold, budget)
           admitted == Admitted(scored, pos, peers, budget)
<1>1. cold \in SUBSET peers /\ few \in SUBSET cold /\ admitted = (peers \ cold) \cup few
  BY DEF Cold, FirstFew, Admitted
<1>2. first = FirstFew(pos, admitted, cap)
  BY WalkIsFirstFew
<1> HIDE DEF first, cold, few, admitted
<1>3. /\ IsFiniteSet(cold) /\ IsFiniteSet(admitted) /\ IsFiniteSet(few)
      /\ admitted \in SUBSET peers
  BY <1>1, FS_Subset
<1>4. IsOrder(pos, cold) /\ IsOrder(pos, admitted)
  BY <1>1, <1>3 DEF IsOrder
<1>5. Cardinality(few) <= budget /\ (few = cold \/ Cardinality(few) = budget)
  BY <1>3, <1>4, FirstFewLemma DEF few
<1>6. Cardinality(first) <= cap /\ (first = admitted \/ Cardinality(first) = cap)
  BY <1>2, <1>3, <1>4, FirstFewLemma
<1>7. first \subseteq admitted
  BY <1>2 DEF FirstFew
<1>8. Cardinality(first \cap cold) <= budget
  <2>1. (first \cap cold) \in SUBSET few
    BY <1>1, <1>7
  <2>2. /\ Cardinality(first \cap cold) <= Cardinality(few)
        /\ Cardinality(first \cap cold) \in Nat /\ Cardinality(few) \in Nat
    BY <1>3, <2>1, FS_Subset, FS_CardinalityType
  <2> QED BY <1>5, <2>2, SMT
<1>9. ASSUME first = admitted
      PROVE  /\ peers \ cold \subseteq first
             /\ first = peers \/ Cardinality(first \cap cold) = budget
  <2>1. first \cap cold = few
    BY <1>1, <1>9
  <2> QED BY <1>1, <1>5, <1>9, <2>1
<1> QED BY <1>1, <1>3, <1>6, <1>7, <1>8, <1>9 DEF first, cold

-----------------------------------------------------------------------------
(* The order of the pool *)

\* A scored pool: peers with a flag and an integral score.
IsPool(scored) ==
  /\ DOMAIN scored \subseteq Peer
  /\ \A p \in DOMAIN scored : scored[p].effective_score \in Int

\* Whatever sort_by leaves is an enumeration of the pool; it is by falling
\* score when the comparator is an order.
LEMMA OrdersLemma ==
  ASSUME NEW scored, IsPool(scored), NEW age, \A p \in DOMAIN scored : age[p] \in Nat,
         NEW pos \in Orders(scored, age)
  PROVE  /\ IsFiniteSet(DOMAIN scored)
         /\ IsOrder(pos, DOMAIN scored)
         /\ pos \in [DOMAIN scored -> 1..Cardinality(DOMAIN scored)]
         /\ ~Cyclic(scored, age) =>
              \A p, q \in DOMAIN scored :
                scored[p].effective_score > scored[q].effective_score => pos[p] < pos[q]
<1> DEFINE peers == DOMAIN scored
           Tied(a, b) == /\ a # b
                         /\ ~Before(scored, age, a, b) /\ ~Before(scored, age, b, a)
           tied == {p \in peers : \E q \in peers : Tied(p, q)}
           Ahead(jitter, p) == {q \in peers :
                                  \/ Before(scored, age, q, p)
                                  \/ Tied(q, p) /\ jitter[q] < jitter[p]}
           Sorted(jitter) == [p \in peers |-> 1 + Cardinality(Ahead(jitter, p))]
<1>1. IsFiniteSet(peers) /\ Cardinality(peers) \in Nat
  BY PeerAssumption, FS_Subset, FS_CardinalityType DEF IsPool
<1>2. CASE Cyclic(scored, age)
  <2>1. pos \in Injections(peers)
    BY <1>2 DEF Orders
  <2>2. /\ pos \in [peers -> 1..Cardinality(peers)]
        /\ \A p, q \in peers : pos[p] = pos[q] => p = q
    BY <2>1 DEF Injections
  <2>3. \A p \in peers : pos[p] \in Nat
    BY <1>1, <2>2, SMT
  <2> QED BY <1>1, <1>2, <2>2, <2>3 DEF IsOrder
<1>3. CASE ~Cyclic(scored, age)
  <2>1. /\ \E jitter \in Injections(tied) : pos = Sorted(jitter)
        /\ \A a, b \in peers : pos[a] = pos[b] => a = b
    BY <1>3, Zenon DEF Orders
  <2>2. PICK jitter \in Injections(tied) : pos = Sorted(jitter)
    BY <2>1
  <2>3. \A p \in peers : pos[p] = 1 + Cardinality(Ahead(jitter, p))
    BY <2>2
  <2>4. ASSUME NEW p \in peers
        PROVE  /\ p \notin Ahead(jitter, p)
               /\ Ahead(jitter, p) \in SUBSET (peers \ {p})
               /\ IsFiniteSet(Ahead(jitter, p)) /\ Cardinality(Ahead(jitter, p)) \in Nat
               /\ Cardinality(Ahead(jitter, p)) < Cardinality(peers)
    <3>1. ~Before(scored, age, p, p)
      BY SaltAssumption, SMT DEF IsPool, Before
    <3>2. p \notin Ahead(jitter, p) /\ Ahead(jitter, p) \in SUBSET (peers \ {p})
      BY <3>1
    <3>3. IsFiniteSet(peers \ {p}) /\ Cardinality(peers \ {p}) = Cardinality(peers) - 1
      BY <1>1, FS_RemoveElement
    <3>4. /\ IsFiniteSet(Ahead(jitter, p)) /\ Cardinality(Ahead(jitter, p)) \in Nat
          /\ Cardinality(Ahead(jitter, p)) <= Cardinality(peers \ {p})
      BY <3>2, <3>3, FS_Subset, FS_CardinalityType
    <3> HIDE DEF Ahead
    <3> QED BY <1>1, <3>2, <3>3, <3>4, SMT
  <2>5. ASSUME NEW p \in peers, NEW q \in peers,
               scored[p].effective_score > scored[q].effective_score
        PROVE  pos[p] < pos[q]
    <3>1. p \in Ahead(jitter, q)
      BY <2>5 DEF Before
    <3>2. Ahead(jitter, p) \in SUBSET Ahead(jitter, q)
      <4>1. ASSUME NEW r \in Ahead(jitter, p)
            PROVE  scored[r].effective_score >= scored[p].effective_score
        BY SMT DEF Before, IsPool
      <4>2. ASSUME NEW r \in Ahead(jitter, p)
            PROVE  Before(scored, age, r, q)
        BY <2>5, <4>1, SMT DEF Before, IsPool
      <4> QED BY <4>2
    <3>3. Ahead(jitter, p) # Ahead(jitter, q)
      BY <2>4, <3>1
    <3>4. /\ Cardinality(Ahead(jitter, p)) <= Cardinality(Ahead(jitter, q))
          /\ Cardinality(Ahead(jitter, p)) # Cardinality(Ahead(jitter, q))
      <4>1. IsFiniteSet(Ahead(jitter, q))
        BY <2>4
      <4> HIDE DEF Ahead
      <4> QED BY <3>2, <3>3, <4>1, FS_Subset
    <3>5. /\ Cardinality(Ahead(jitter, p)) \in Nat /\ Cardinality(Ahead(jitter, q)) \in Nat
          /\ pos[p] = 1 + Cardinality(Ahead(jitter, p))
          /\ pos[q] = 1 + Cardinality(Ahead(jitter, q))
      BY <2>3, <2>4
    <3> HIDE DEF Ahead
    <3> QED BY <3>4, <3>5, SMT
  <2>6. pos = [p \in peers |-> pos[p]] /\ DOMAIN pos = peers
    BY <2>2
  <2>7. \A p \in peers : pos[p] \in 1..Cardinality(peers) /\ pos[p] \in Nat
    <3> HIDE DEF Ahead
    <3> QED BY <1>1, <2>3, <2>4, SMT
  <2>8. pos \in [peers -> 1..Cardinality(peers)]
    BY <2>6, <2>7, Zenon
  <2> QED BY <1>1, <2>1, <2>5, <2>7, <2>8 DEF IsOrder
<1> QED BY <1>2, <1>3

-----------------------------------------------------------------------------
(* The reserved slot *)

\* g comes before p, or is p, when the reserved slot is given.
NotBehind(age, g, p) ==
  \/ age[g] > age[p]
  \/ /\ age[g] = age[p]
     /\ Salt[g] <= Salt[p]

\* Who gets the reserved slot is in the pool, not floored, and the pool does
\* not fit; every peer that waits for it waits for someone at least as stale.
LEMMA ForcedLemma ==
  ASSUME NEW scored, IsPool(scored), NEW age, \A p \in DOMAIN scored : age[p] \in Nat,
         NEW want
  PROVE  /\ \A f \in ForcedPicks(scored, age, want) :
              f \in DOMAIN scored /\ ~Floored(scored[f]) /\ want < Cardinality(DOMAIN scored)
         /\ \A p \in DOMAIN scored :
              (/\ want < Cardinality(DOMAIN scored)
               /\ ~Floored(scored[p]) /\ age[p] >= Cardinality(DOMAIN scored))
              => \E f \in ForcedPicks(scored, age, want) :
                   \A g \in ForcedPicks(scored, age, want) :
                     NotBehind(age, g, p)
<1> DEFINE starved == {p \in DOMAIN scored :
                         ~Floored(scored[p]) /\ age[p] >= Cardinality(DOMAIN scored)}
           picks == ForcedPicks(scored, age, want)
<1>1. /\ IsFiniteSet(starved) /\ starved \in SUBSET DOMAIN scored
      /\ \A p \in starved : age[p] \in Int /\ Salt[p] \in Int
  BY PeerAssumption, SaltAssumption, FS_Subset, SMT DEF IsPool
<1>2. \A f \in picks :
        f \in DOMAIN scored /\ ~Floored(scored[f]) /\ want < Cardinality(DOMAIN scored)
  BY SMT DEF ForcedPicks
<1>3. ASSUME NEW p \in starved, want < Cardinality(DOMAIN scored)
      PROVE  \E f \in picks :
               \A g \in picks : NotBehind(age, g, p)
  <2>1. picks = {q \in starved :
                   \A r \in starved : \/ age[r] < age[q]
                                      \/ age[r] = age[q] /\ Salt[q] <= Salt[r]}
    BY <1>3 DEF ForcedPicks
  <2> HIDE DEF starved, picks
  <2>2. PICK top \in starved : \A q \in starved : age[q] <= age[top]
    BY <1>1, <1>3, HighestExists
  <2> DEFINE tops == {q \in starved : age[q] = age[top]}
  <2>3. IsFiniteSet(tops) /\ tops # {} /\ \A q \in tops : Salt[q] \in Int
    BY <1>1, <2>2, FS_Subset
  <2>4. PICK f \in tops : \A q \in tops : Salt[f] <= Salt[q]
    <3> HIDE DEF tops
    <3> QED BY <2>3, LowestExists
  <2>5. f \in picks
    BY <1>1, <2>1, <2>2, <2>4, SMT
  <2>6. \A g \in picks : NotBehind(age, g, p)
    BY <1>1, <1>3, <2>1, SMT DEF NotBehind
  <2> QED BY <2>5, <2>6
<1> QED BY <1>2, <1>3

LEMMA SlotsLemma ==
  ASSUME NEW want \in Nat \ {0}
  PROVE  ExploreSlots(want) \in Nat /\ ExploreSlots(want) >= 1
  BY SMT DEF ExploreSlots, MaxOf

\* At most one peer is forced.
IsForced(forced, scored, age, want) ==
  \/ forced = {} /\ ForcedPicks(scored, age, want) = {}
  \/ \E f \in ForcedPicks(scored, age, want) : forced = {f}

LEMMA SelectionPick ==
  ASSUME NEW scored, NEW age, NEW want, NEW selection \in Selections(scored, age, want)
  PROVE  \E pos \in Orders(scored, age) : \E forced :
           IsForced(forced, scored, age, want)
           /\ selection = Materialize(scored, pos, forced, want)
<1>1. PICK pos \in Orders(scored, age),
           forced \in (IF ForcedPicks(scored, age, want) = {} THEN {{}}
                       ELSE {{p} : p \in ForcedPicks(scored, age, want)}) :
        selection = Materialize(scored, pos, forced, want)
  BY SMT DEF Selections
<1>2. IsForced(forced, scored, age, want)
  BY Zenon DEF IsForced
<1> QED BY <1>1, <1>2

\* The two passes together.
LEMMA AnswerLemma ==
  ASSUME NEW scored, IsPool(scored), NEW age, \A p \in DOMAIN scored : age[p] \in Nat,
         NEW want \in Nat \ {0}, NEW pos \in Orders(scored, age), NEW forced,
         IsForced(forced, scored, age, want)
  PROVE  LET first == PassOne(scored, pos, forced, want)
             taken == first \cup forced
             cold == {p \in taken : scored[p].exploratory}
         IN  /\ taken \subseteq DOMAIN scored
             /\ first \cap forced = {}
             /\ Cardinality(cold) <= ExploreSlots(want)
             /\ Cardinality(taken) <= want
             /\ \/ Cardinality(taken) = want
                \/ /\ \A p \in DOMAIN scored \ taken : scored[p].exploratory
                   /\ taken = DOMAIN scored \/ Cardinality(cold) = ExploreSlots(want)
<1> DEFINE first == PassOne(scored, pos, forced, want)
           taken == first \cup forced
           cold == {p \in taken : scored[p].exploratory}
           peers == DOMAIN scored \ forced
           cap == Cap(forced, want)
           budget == Budget(scored, forced, want)
           early == first \cap Cold(scored, peers)
<1>1. IsFiniteSet(DOMAIN scored) /\ IsOrder(pos, DOMAIN scored)
  BY OrdersLemma
<1>2. IsFiniteSet(peers) /\ IsOrder(pos, peers)
  BY <1>1, FS_Difference DEF IsOrder
<1>3. cap \in Nat /\ budget \in Nat
  BY SlotsLemma, SMT DEF Cap, Budget
<1>4. /\ first \subseteq peers
      /\ Cardinality(first) <= cap
      /\ Cardinality(early) <= budget
      /\ \/ Cardinality(first) = cap
         \/ /\ peers \ Cold(scored, peers) \subseteq first
            /\ first = peers \/ Cardinality(early) = budget
  <2>1. first = Walk(scored, pos, peers, cap, budget)
    BY DEF PassOne
  <2> HIDE DEF first, peers, cap, budget
  <2> QED BY <1>2, <1>3, <2>1, WalkLemma
<1>5. forced \subseteq DOMAIN scored
  <2>1. \A f \in ForcedPicks(scored, age, want) : f \in DOMAIN scored
    BY ForcedLemma
  <2> QED BY <2>1, Zenon DEF IsForced
<1>6. IsFiniteSet(first) /\ IsFiniteSet(early) /\ Cardinality(first) \in Nat /\ Cardinality(early) \in Nat
  <2> HIDE DEF first, peers
  <2> QED BY <1>2, <1>4, FS_Subset, FS_CardinalityType
<1>7. \A p \in DOMAIN scored \ taken : p \in peers /\ p \notin first
  OBVIOUS
<1>8. (first = peers => taken = DOMAIN scored) /\ taken \subseteq DOMAIN scored
  BY <1>4, <1>5
<1>9. first \cap forced = {}
  BY <1>4
<1>10. early \subseteq Cold(scored, peers) /\ early = {p \in first : scored[p].exploratory}
  BY <1>4, Zenon DEF Cold
<1>11. \A p \in peers \ Cold(scored, peers) : ~scored[p].exploratory
  BY DEF Cold
<1>12. \A p \in peers : p \notin peers \ Cold(scored, peers) => scored[p].exploratory
  BY DEF Cold
<1>13. /\ Cardinality(taken) = Cardinality(first) + (want - cap)
       /\ Cardinality(cold) = Cardinality(early) + (ExploreSlots(want) - budget)
  <2> HIDE DEF first
  <2>1. CASE forced = {}
    <3>1. taken = first /\ cold = early /\ cap = want /\ budget = ExploreSlots(want)
      BY <1>10, <2>1 DEF Cap, Budget
    <3>2. ExploreSlots(want) \in Nat
      BY SlotsLemma
    <3> HIDE DEF taken, cold, cap, budget, early
    <3> QED BY <1>6, <3>1, <3>2, SMT
  <2>2. ASSUME NEW f, forced = {f} PROVE <1>13
    <3>1. /\ cap = want - 1 /\ f \notin first /\ taken = first \cup {f} /\ f \notin early
          /\ budget = IF scored[f].exploratory THEN ExploreSlots(want) - 1 ELSE ExploreSlots(want)
      BY <1>9, <1>10, <2>2 DEF Cap, Budget
    <3>2. Cardinality(taken) = Cardinality(first) + 1
      BY <1>6, <3>1, FS_AddElement
    <3>3. CASE scored[f].exploratory
      <4>1. cold = early \cup {f}
        BY <1>10, <3>1, <3>3
      <4>2. Cardinality(cold) = Cardinality(early) + 1
        BY <1>6, <3>1, <4>1, FS_AddElement
      <4> HIDE DEF taken, cold, cap, budget, early
      <4> QED BY <1>6, <3>1, <3>2, <3>3, <4>2, SlotsLemma, SMT
    <3>4. CASE ~scored[f].exploratory
      <4>1. cold = early
        BY <1>10, <3>1, <3>4
      <4> HIDE DEF taken, cold, cap, budget, early
      <4> QED BY <1>6, <3>1, <3>2, <3>4, <4>1, SlotsLemma, SMT
    <3> QED BY <3>3, <3>4
  <2> QED BY <2>1, <2>2 DEF IsForced
<1> HIDE DEF first, taken, cold, peers, cap, budget, early
<1>14. /\ Cardinality(cold) <= ExploreSlots(want)
       /\ Cardinality(taken) <= want
       /\ Cardinality(first) = cap => Cardinality(taken) = want
       /\ Cardinality(early) = budget => Cardinality(cold) = ExploreSlots(want)
  BY <1>3, <1>4, <1>6, <1>13, SlotsLemma, SMT
<1>15. \/ Cardinality(taken) = want
       \/ /\ \A p \in DOMAIN scored \ taken : scored[p].exploratory
          /\ taken = DOMAIN scored \/ Cardinality(cold) = ExploreSlots(want)
  BY <1>4, <1>7, <1>8, <1>12, <1>14
<1> QED BY <1>8, <1>9, <1>14, <1>15 DEF first, taken, cold

-----------------------------------------------------------------------------
(* Staleness *)

\* The values of f on a finite set are no more than its members.
LEMMA ImageLemma ==
  ASSUME NEW D, IsFiniteSet(D), NEW f
  PROVE  /\ IsFiniteSet({f[x] : x \in D})
         /\ Cardinality({f[x] : x \in D}) <= Cardinality(D)
<1> DEFINE T == {f[x] : x \in D}
           g == [x \in D |-> f[x]]
<1>1. g \in Surjection(D, T)
  BY DEF Surjection
<1> HIDE DEF g, T
<1>2. IsFiniteSet(T) /\ Cardinality(T) <= Cardinality(D)
  BY <1>1, FS_Surjection
<1> QED BY <1>2 DEF T

LEMMA SizeLemma == IsFiniteSet(Peer) /\ Size \in Nat
  BY PeerAssumption, FS_CardinalityType DEF Size

\* No gaps beyond the size of the pool.
NoGaps(f) == \A p \in Peer : f[p] > Size + 1 => \E q \in Peer : f[q] = f[p] - 1

\* Closing the gaps keeps everything up to the size of the pool, the order of
\* the rest, and stays within twice the pool.
LEMMA CompressedLemma ==
  ASSUME NEW f, \A p \in Peer : f[p] \in Nat
  PROVE  /\ Compressed(f) \in [Peer -> 0..(2 * Size)]
         /\ \A p \in Peer : f[p] <= Size => Compressed(f)[p] = f[p]
         /\ \A p \in Peer : f[p] > Size => Compressed(f)[p] > Size
         /\ \A p, q \in Peer : f[p] < f[q] <=> Compressed(f)[p] < Compressed(f)[q]
         /\ NoGaps(Compressed(f))
<1> DEFINE Over(p) == {x \in Peer : Size < f[x] /\ f[x] <= f[p]}
           Levels(p) == {f[q] : q \in Over(p)}
<1>1. /\ DOMAIN Compressed(f) = Peer
      /\ Compressed(f) = [p \in Peer |-> Compressed(f)[p]]
      /\ \A p \in Peer : Compressed(f)[p] =
           IF f[p] <= Size THEN f[p] ELSE Size + Cardinality(Levels(p))
  BY DEF Compressed
<1>2. ASSUME NEW p \in Peer
      PROVE  /\ IsFiniteSet(Levels(p)) /\ Cardinality(Levels(p)) \in Nat
             /\ Cardinality(Levels(p)) <= Size
  <2>1. /\ IsFiniteSet(Over(p)) /\ Cardinality(Over(p)) <= Size
        /\ Cardinality(Over(p)) \in Nat
    BY SizeLemma, FS_Subset, FS_CardinalityType DEF Size
  <2> HIDE DEF Over
  <2>2. IsFiniteSet(Levels(p)) /\ Cardinality(Levels(p)) <= Cardinality(Over(p))
    BY <2>1, ImageLemma
  <2>3. Cardinality(Levels(p)) \in Nat
    BY <2>2, FS_CardinalityType
  <2> HIDE DEF Levels
  <2> QED BY <2>1, <2>2, <2>3, SizeLemma, SMT
<1>3. ASSUME NEW p \in Peer, f[p] > Size
      PROVE  Cardinality(Levels(p)) >= 1
  <2>1. f[p] \in Levels(p)
    BY <1>3, SizeLemma, SMT
  <2>2. Cardinality(Levels(p)) # 0
    <3>1. Levels(p) # {}
      BY <2>1
    <3> HIDE DEF Levels
    <3> QED BY <1>2, <3>1, FS_EmptySet
  <2> HIDE DEF Levels
  <2> QED BY <1>2, <2>2, SMT
<1>4. ASSUME NEW p \in Peer, NEW q \in Peer, f[p] < f[q], f[p] > Size
      PROVE  Cardinality(Levels(p)) < Cardinality(Levels(q))
  <2>1. /\ Levels(p) \in SUBSET Levels(q) /\ f[q] \in Levels(q) /\ f[q] \notin Levels(p)
    BY <1>4, SizeLemma, SMT
  <2>2. Levels(p) # Levels(q)
    BY <2>1
  <2> HIDE DEF Levels
  <2>3. /\ Cardinality(Levels(p)) <= Cardinality(Levels(q))
        /\ Cardinality(Levels(p)) # Cardinality(Levels(q))
    BY <1>2, <2>1, <2>2, FS_Subset
  <2> QED BY <1>2, <2>3, SMT
<1>5. ASSUME NEW p \in Peer, NEW q \in Peer, f[p] = f[q]
      PROVE  Levels(p) = Levels(q)
  BY <1>5
<1>12. ASSUME NEW p \in Peer, f[p] > Size, Cardinality(Levels(p)) > 1
       PROVE  \E q \in Peer : f[q] > Size /\ Cardinality(Levels(q)) = Cardinality(Levels(p)) - 1
  <2> DEFINE lower == {x \in Peer : Size < f[x] /\ f[x] < f[p]}
  <2>1. IsFiniteSet(lower)
    BY SizeLemma, FS_Subset
  <2>2. Levels(p) = {f[x] : x \in lower} \cup {f[p]} /\ f[p] \notin {f[x] : x \in lower}
    BY <1>12, SizeLemma, SMT
  <2>3. lower # {}
    <3> SUFFICES ASSUME lower = {} PROVE FALSE
      OBVIOUS
    <3>1. Levels(p) = {f[p]}
      BY <2>2
    <3>2. Cardinality({f[p]}) = 1
      BY FS_Singleton
    <3> HIDE DEF Levels
    <3> QED BY <1>12, <3>1, <3>2
  <2>4. PICK q \in lower : \A x \in lower : f[x] <= f[q]
    <3>1. \A x \in lower : f[x] \in Int
      BY SMT
    <3> HIDE DEF lower
    <3> QED BY <2>1, <2>3, <3>1, HighestExists
  <2>5. Levels(q) = Levels(p) \ {f[p]} /\ f[p] \in Levels(p)
    <3>1. Over(q) = lower
      BY <2>4, SizeLemma, SMT
    <3>2. Levels(q) = {f[x] : x \in lower}
      BY <3>1
    <3> HIDE DEF lower, Levels
    <3> QED BY <2>2, <3>2
  <2> HIDE DEF Levels
  <2>6. Cardinality(Levels(q)) = Cardinality(Levels(p)) - 1
    BY <1>2, <2>5, FS_RemoveElement
  <2> QED BY <2>4, <2>6
<1> HIDE DEF Levels
<1>6. \A p \in Peer : Compressed(f)[p] \in 0..(2 * Size)
  BY <1>1, <1>2, SizeLemma, SMT
<1>7. Compressed(f) \in [Peer -> 0..(2 * Size)]
  BY <1>1, <1>6
<1>8. \A p \in Peer : f[p] > Size => Compressed(f)[p] > Size
  BY <1>1, <1>2, <1>3, SizeLemma, SMT
<1>9. ASSUME NEW p \in Peer, NEW q \in Peer, f[p] < f[q]
      PROVE  Compressed(f)[p] < Compressed(f)[q]
  <2>1. CASE f[p] <= Size
    <3>1. /\ Compressed(f)[p] = f[p] /\ f[p] \in Nat /\ f[q] \in Nat
          /\ f[q] <= Size => Compressed(f)[q] = f[q]
          /\ f[q] > Size => Compressed(f)[q] > Size /\ Compressed(f)[q] \in Nat
      BY <1>1, <1>6, <1>8, <2>1, SizeLemma
    <3> QED BY <1>9, <2>1, <3>1, SizeLemma, SMT
  <2>2. CASE f[p] > Size
    BY <1>1, <1>2, <1>4, <1>9, <2>2, SizeLemma, SMT
  <2> QED BY <2>1, <2>2, SizeLemma, SMT
<1>10. ASSUME NEW p \in Peer, NEW q \in Peer, f[p] = f[q]
       PROVE  Compressed(f)[p] = Compressed(f)[q]
  BY <1>1, <1>5, <1>10
<1>11. ASSUME NEW p \in Peer, NEW q \in Peer
       PROVE  f[p] < f[q] <=> Compressed(f)[p] < Compressed(f)[q]
  <2>1. f[p] \in Nat /\ f[q] \in Nat /\ Compressed(f)[p] \in Nat /\ Compressed(f)[q] \in Nat
    BY <1>6, SizeLemma, SMT
  <2>2. /\ f[p] < f[q] => Compressed(f)[p] < Compressed(f)[q]
        /\ f[q] < f[p] => Compressed(f)[q] < Compressed(f)[p]
        /\ f[p] = f[q] => Compressed(f)[p] = Compressed(f)[q]
    BY <1>9, <1>10
  <2> QED BY <2>1, <2>2, SMT
<1>13. NoGaps(Compressed(f))
  <2> SUFFICES ASSUME NEW p \in Peer, Compressed(f)[p] > Size + 1
               PROVE  \E q \in Peer : Compressed(f)[q] = Compressed(f)[p] - 1
    BY DEF NoGaps
  <2>1. f[p] > Size
    BY <1>1, SizeLemma, SMT
  <2>2. Compressed(f)[p] = Size + Cardinality(Levels(p)) /\ Cardinality(Levels(p)) \in Nat
    BY <1>1, <1>2, <2>1, SizeLemma, SMT
  <2>3. Cardinality(Levels(p)) > 1
    BY <2>2, SizeLemma, SMT
  <2>4. PICK q \in Peer : f[q] > Size /\ Cardinality(Levels(q)) = Cardinality(Levels(p)) - 1
    BY <1>12, <2>1, <2>3
  <2>5. Compressed(f)[q] = Size + Cardinality(Levels(q))
    BY <1>1, <2>4, SizeLemma, SMT
  <2>6. Compressed(f)[q] = Compressed(f)[p] - 1
    BY <2>2, <2>4, <2>5, SizeLemma, SMT
  <2> QED BY <2>6
<1> QED BY <1>1, <1>7, <1>8, <1>11, <1>13

\* One selection later: who had a turn is at 0, the others one further, in
\* the same order.
LEMMA AgedLemma ==
  ASSUME stale \in [Peer -> 0..(2 * Size)], NEW turn
  PROVE  /\ Aged(turn) \in [Peer -> 0..(2 * Size)]
         /\ \A p \in Peer \cap turn : Aged(turn)[p] = 0
         /\ \A p \in Peer \ turn :
              /\ Aged(turn)[p] >= 1
              /\ Aged(turn)[p] = stale[p] + 1 \/ Aged(turn)[p] > Size
              /\ stale[p] >= Size => Aged(turn)[p] > Size
         /\ \A p, q \in Peer \ turn : stale[p] < stale[q] <=> Aged(turn)[p] < Aged(turn)[q]
         /\ NoGaps(Aged(turn))
<1> DEFINE next == [p \in Peer |-> IF p \in turn THEN 0 ELSE stale[p] + 1]
<1>1. \A p \in Peer : next[p] \in Nat /\ next[p] = IF p \in turn THEN 0 ELSE stale[p] + 1
  BY SizeLemma, SMT
<1>2. Aged(turn) = Compressed(next)
  BY DEF Aged
<1> HIDE DEF next
<1>3. /\ Compressed(next) \in [Peer -> 0..(2 * Size)]
      /\ \A p \in Peer : next[p] <= Size => Compressed(next)[p] = next[p]
      /\ \A p \in Peer : next[p] > Size => Compressed(next)[p] > Size
      /\ \A p, q \in Peer : next[p] < next[q] <=> Compressed(next)[p] < Compressed(next)[q]
      /\ NoGaps(Compressed(next))
  BY <1>1, CompressedLemma
<1>4. \A p \in Peer : stale[p] \in Nat
  BY SizeLemma, SMT
<1>5. \A p \in Peer \cap turn : Compressed(next)[p] = 0
  BY <1>1, <1>3, SizeLemma, SMT
<1>6. \A p \in Peer \ turn :
        /\ Compressed(next)[p] >= 1
        /\ Compressed(next)[p] = stale[p] + 1 \/ Compressed(next)[p] > Size
        /\ stale[p] >= Size => Compressed(next)[p] > Size
  BY <1>1, <1>3, <1>4, SizeLemma, SMT
<1>7. \A p, q \in Peer \ turn : stale[p] < stale[q] <=> Compressed(next)[p] < Compressed(next)[q]
  <2>1. \A p, q \in Peer \ turn : stale[p] < stale[q] <=> next[p] < next[q]
    BY <1>1, <1>4, SMT
  <2> QED BY <1>3, <2>1
<1> QED BY <1>2, <1>3, <1>5, <1>6, <1>7

\* Types are kept.
LEMMA CoverageInit == Init => TypeOK
<1> SUFFICES ASSUME Init PROVE TypeOK
  OBVIOUS
<1>1. ColdEntry(0) \in PeerEntry
  BY ColdEntryLemma, SMT
<1>2. entries \in [Peer -> PeerEntry]
  BY <1>1 DEF Init
<1>3. stale \in [Peer -> {0, Size}] /\ {0, Size} \subseteq 0..(2 * Size)
  BY SizeLemma, SMT DEF Init
<1>4. \A p \in Peer : ~(stale[p] > Size + 1)
  BY <1>3, SizeLemma, SMT
<1>5. \A p \in Peer : entries[p].worth = 0
  BY DEF Init, ColdEntry
<1>6. \A p \in Peer : ~(entries[p].worth > 0)
  BY <1>5, SMT
<1> QED BY <1>2, <1>3, <1>4, <1>6 DEF TypeOK

LEMMA CoverageNext == TypeOK /\ [Next]_vars => TypeOK'
<1> SUFFICES ASSUME TypeOK, [Next]_vars PROVE TypeOK'
  OBVIOUS
<1>1. ASSUME NEW turn, stale' = Aged(turn), UNCHANGED entries PROVE TypeOK'
  <2>1. stale' \in [Peer -> 0..(2 * Size)] /\ NoGaps(stale')
    BY <1>1, AgedLemma DEF TypeOK
  <2> QED BY <1>1, <2>1 DEF TypeOK, NoGaps, Size
<1>2. ASSUME NEW want \in Wants, SelectPool(want) PROVE TypeOK'
  BY <1>1, <1>2, Zenon DEF SelectPool
<1>3. ASSUME NEW turn \in SUBSET Peer, SelectElsewhere(turn) PROVE TypeOK'
  BY <1>1, <1>3 DEF SelectElsewhere
<1>4. ASSUME NEW p \in Peer, NEW result \in Results, Outcome(p, result) PROVE TypeOK'
  <2>1. PICK e \in Learned(entries[p], result) : entries' = [entries EXCEPT ![p] = e]
    BY <1>4 DEF Outcome
  <2>2. e \in PeerEntry /\ e.standing # "cold"
    BY LearnedLemma DEF TypeOK
  <2>3. entries' \in [Peer -> PeerEntry] /\ stale' = stale
    BY <1>4, <2>1, <2>2 DEF Outcome, TypeOK
  <2>4. \A q \in Peer : entries'[q] = IF q = p THEN e ELSE entries[q]
    BY <2>1 DEF TypeOK
  <2>5. \A q \in Peer : entries'[q].worth > 0 => entries'[q].standing # "cold"
    BY <2>2, <2>4 DEF TypeOK
  <2> QED BY <2>3, <2>5 DEF TypeOK, Size
<1>5. CASE UNCHANGED vars
  BY <1>5 DEF vars, TypeOK, Size
<1> QED BY <1>2, <1>3, <1>4, <1>5 DEF Next

-----------------------------------------------------------------------------
(* The exploration bonus *)

\* The bonus is a score, below that of a best proven peer if it is above 0.
LEMMA BonusLemma ==
  ASSUME NEW raw, IsPool(raw)
  PROVE  /\ ExplorationBonus(raw) \in Nat
         /\ \A q \in Proven(raw) :
              (/\ raw[q].effective_score > 0
               /\ \A r \in Proven(raw) : raw[r].effective_score <= raw[q].effective_score)
              => ExplorationBonus(raw) < raw[q].effective_score
<1> DEFINE proven == Proven(raw)
           score == [p \in proven |-> raw[p].effective_score]
           scores == {raw[p].effective_score : p \in proven}
           least == CHOOSE s \in scores : \A p \in proven : s <= raw[p].effective_score
           most == CHOOSE s \in scores : \A p \in proven : s >= raw[p].effective_score
           worst == WorstProven(raw)
           best == BestProven(raw)
<1>1. /\ IsFiniteSet(proven) /\ proven \subseteq DOMAIN raw
      /\ \A p \in proven : score[p] = raw[p].effective_score /\ score[p] \in Int
  <2>1. IsFiniteSet(DOMAIN raw) /\ proven \in SUBSET DOMAIN raw
    BY PeerAssumption, FS_Subset DEF IsPool, Proven
  <2> QED BY <2>1, FS_Subset DEF IsPool
<1>2. /\ worst = IF proven = {} THEN 0 ELSE MaxOf(0, least)
      /\ best = IF proven = {} THEN 0 ELSE MaxOf(0, most)
  BY DEF WorstProven, BestProven
<1> HIDE DEF proven, score, worst, best
<1>3. ASSUME proven # {}
      PROVE  /\ least \in Int /\ most \in Int /\ most \in scores
             /\ \A p \in proven : least <= raw[p].effective_score /\ raw[p].effective_score <= most
  <2>1. PICK low \in proven : \A q \in proven : score[low] <= score[q]
    BY <1>1, <1>3, LowestExists
  <2>2. PICK high \in proven : \A q \in proven : score[q] <= score[high]
    BY <1>1, <1>3, HighestExists
  <2>3. least \in scores /\ \A p \in proven : least <= raw[p].effective_score
    <3>1. \E s \in scores : \A p \in proven : s <= raw[p].effective_score
      BY <1>1, <2>1
    <3> QED BY <3>1
  <2>4. most \in scores /\ \A p \in proven : most >= raw[p].effective_score
    <3>1. \E s \in scores : \A p \in proven : s >= raw[p].effective_score
      BY <1>1, <2>2, SMT
    <3> QED BY <3>1
  <2>5. \A s \in scores : s \in Int
    BY <1>1
  <2> HIDE DEF least, most, scores
  <2> QED BY <1>1, <2>3, <2>4, <2>5, SMT
<1>4. most \in scores => \E p \in proven : most = raw[p].effective_score
  OBVIOUS
<1> HIDE DEF least, most, scores
<1>5. worst \in Nat /\ best \in Nat
  BY <1>2, <1>3, SMT DEF MaxOf
<1>6. ExplorationBonus(raw) =
        IF best > worst THEN worst + (best - worst) \div 4
        ELSE IF best > 0 THEN best \div 2 ELSE 0
  BY DEF ExplorationBonus, best, worst
<1>7. ExplorationBonus(raw) \in Nat /\ (best > 0 => ExplorationBonus(raw) < best)
  BY <1>5, <1>6, SMT
<1>8. ASSUME NEW q \in proven, raw[q].effective_score > 0,
             \A r \in proven : raw[r].effective_score <= raw[q].effective_score
      PROVE  best = raw[q].effective_score
  <2>1. most = raw[q].effective_score
    BY <1>1, <1>3, <1>4, <1>8, SMT
  <2>2. proven # {} /\ raw[q].effective_score \in Int
    BY <1>1
  <2> QED BY <1>2, <1>8, <2>1, <2>2, SMT DEF MaxOf
<1>9. ASSUME NEW q \in proven, raw[q].effective_score > 0,
             \A r \in proven : raw[r].effective_score <= raw[q].effective_score
      PROVE  ExplorationBonus(raw) < raw[q].effective_score
  BY <1>7, <1>8, <1>9
<1> QED BY <1>7, <1>9 DEF proven

LEMMA ScorePeerLemma ==
  ASSUME NEW p \in Peer, NEW e, NEW measured \in Int, NEW point \in Int
  PROVE  LET s == ScorePeer(p, e, measured, point)
         IN  /\ s.exploratory <=> e.standing = "cold"
             /\ s.effective_score \in Int
             /\ s.exploratory => s.effective_score = 0
             /\ s = [exploratory |-> s.exploratory, effective_score |-> s.effective_score,
                     headroom |-> s.headroom]
<1> DEFINE score == CASE e.standing = "cold" -> 0
                      [] e.standing = "bad"  -> Salt[p] - FloorDepth
                      [] OTHER               -> measured
<1>1. score \in Int /\ (e.standing = "cold" => score = 0)
  <2>1. CASE e.standing = "cold"
    BY <2>1
  <2>2. CASE e.standing = "bad"
    BY <2>2, SaltAssumption, FloorAssumption, SMT
  <2>3. CASE e.standing # "cold" /\ e.standing # "bad"
    BY <2>3
  <2> QED BY <2>1, <2>2, <2>3
<1>2. /\ ScorePeer(p, e, measured, point).exploratory = (e.standing = "cold")
      /\ ScorePeer(p, e, measured, point).effective_score = score
  BY DEF ScorePeer
<1>3. \E x, s, h : ScorePeer(p, e, measured, point) =
                     [exploratory |-> x, effective_score |-> s, headroom |-> h]
  BY Zenon DEF ScorePeer
<1> HIDE DEF score
<1> QED BY <1>1, <1>2, <1>3

\* The pools a selection works on: an unmeasured peer scores below any best
\* measured one, if that is above 0.
LEMMA PoolsLemma ==
  ASSUME TypeOK, NEW scored \in Pools({})
  PROVE  /\ DOMAIN scored = Peer /\ IsPool(scored)
         /\ \A p, q \in Peer :
              (/\ scored[p].exploratory
               /\ ~scored[q].exploratory /\ scored[q].effective_score > 0
               /\ \A r \in Peer : scored[r].effective_score > scored[q].effective_score
                                  => scored[r].exploratory)
              => scored[p].effective_score < scored[q].effective_score
<1>1. PICK m \in [Peer -> Scores] :
        scored = Adjusted([p \in Peer |-> ScorePeer(p, entries[p], m[p], 1)], {})
  BY DEF Pools
<1> DEFINE raw == [p \in Peer |-> ScorePeer(p, entries[p], m[p], 1)]
           bonus == ExplorationBonus(raw)
<1>2. ASSUME NEW p \in Peer
      PROVE  /\ raw[p] = [exploratory |-> raw[p].exploratory,
                          effective_score |-> raw[p].effective_score,
                          headroom |-> raw[p].headroom]
             /\ raw[p].effective_score \in Int
             /\ raw[p].exploratory => raw[p].effective_score = 0
  <2>1. m[p] \in Int /\ 1 \in Int
    <3>1. m[p] \in Scores /\ Scores \subseteq Nat
      BY CoverageAssumption
    <3>2. m[p] \in Nat
      BY <3>1
    <3> HIDE DEF raw, bonus
    <3> QED BY <3>2, SMT
  <2>2. raw[p] = ScorePeer(p, entries[p], m[p], 1)
    OBVIOUS
  <2> HIDE DEF raw
  <2>3. LET s == ScorePeer(p, entries[p], m[p], 1)
        IN  /\ s.effective_score \in Int
            /\ s.exploratory => s.effective_score = 0
            /\ s = [exploratory |-> s.exploratory, effective_score |-> s.effective_score,
                    headroom |-> s.headroom]
    BY <2>1, ScorePeerLemma
  <2> QED BY <2>2, <2>3, Zenon
<1>3. DOMAIN raw = Peer /\ IsPool(raw)
  <2>1. DOMAIN raw = Peer
    OBVIOUS
  <2> HIDE DEF raw
  <2> QED BY <1>2, <2>1 DEF IsPool
<1>4. scored = [p \in Peer |->
                  [raw[p] EXCEPT !.effective_score =
                     IF raw[p].exploratory THEN bonus ELSE raw[p].effective_score]]
  <2>1. scored = Adjusted(raw, {})
    BY <1>1
  <2> HIDE DEF raw
  <2> QED BY <1>3, <2>1, Zenon DEF Adjusted
<1> HIDE DEF raw
<1>5. bonus \in Nat
  BY <1>3, BonusLemma
<1>6. ASSUME NEW p \in Peer
      PROVE  /\ scored[p].exploratory = raw[p].exploratory
             /\ scored[p].effective_score =
                  IF raw[p].exploratory THEN bonus ELSE raw[p].effective_score
  <2> DEFINE x == raw[p].exploratory
             e == raw[p].effective_score
             h == raw[p].headroom
             new == IF x THEN bonus ELSE e
  <2>1. raw[p] = [exploratory |-> x, effective_score |-> e, headroom |-> h]
    BY <1>2
  <2>2. scored[p] = [raw[p] EXCEPT !.effective_score = new]
    BY <1>4
  <2> HIDE DEF x, e, h, new
  <2>3. scored[p].exploratory = x /\ scored[p].effective_score = new
    BY <2>1, <2>2
  <2> QED BY <2>3 DEF x, e, new
<1> HIDE DEF bonus
<1>7. DOMAIN scored = Peer
  BY <1>4
<1>8. IsPool(scored)
  <2>1. \A p \in Peer : scored[p].effective_score \in Int
    <3>1. bonus \in Int
      BY <1>5, SMT
    <3> QED BY <1>2, <1>6, <3>1
  <2> QED BY <1>7, <2>1 DEF IsPool
<1>9. ASSUME NEW p \in Peer, NEW q \in Peer, scored[p].exploratory,
             ~scored[q].exploratory, scored[q].effective_score > 0,
             \A r \in Peer : scored[r].effective_score > scored[q].effective_score
                             => scored[r].exploratory
      PROVE  scored[p].effective_score < scored[q].effective_score
  <2>1. q \in Proven(raw)
    BY <1>2, <1>3, <1>6, <1>9, FloorAssumption, SMT DEF Proven, Floored
  <2>2. \A r \in Proven(raw) : raw[r].effective_score <= raw[q].effective_score
    BY <1>2, <1>3, <1>6, <1>9, SMT DEF Proven
  <2>3. bonus < raw[q].effective_score
    BY <1>3, <1>6, <1>9, <2>1, <2>2, BonusLemma DEF bonus
  <2> QED BY <1>6, <1>9, <2>3
<1> QED BY <1>7, <1>8, <1>9

-----------------------------------------------------------------------------
(* What an answer looks like *)

LEMMA SeenLemma ==
  ASSUME TypeOK
  PROVE  \A p \in Peer : Seen[p] \in Nat /\ Seen[p] = stale[p] + 1
  BY SizeLemma, SMT DEF TypeOK, Seen

\* The selection is what the two passes make of an order and a forced peer.
PassesGive(scored, want, selection, pos, forced) ==
  LET first == PassOne(scored, pos, forced, want)
  IN  /\ IsForced(forced, scored, Seen, want)
      /\ DOMAIN selection = first \cup forced
      /\ \A p \in first :
           selection[p].rank = Cardinality({q \in first : pos[q] < pos[p]})

LEMMA AnswerPick ==
  ASSUME TypeOK, NEW want \in Wants, NEW scored \in Pools({}),
         NEW selection \in Selections(scored, Seen, want)
  PROVE  LET cold == {p \in DOMAIN selection : scored[p].exploratory}
         IN  /\ \E pos \in Orders(scored, Seen) : \E forced :
                  PassesGive(scored, want, selection, pos, forced)
             /\ DOMAIN selection \subseteq Peer
             /\ Cardinality(cold) <= ExploreSlots(want)
             /\ Cardinality(DOMAIN selection) <= want
             /\ \/ Cardinality(DOMAIN selection) = want
                \/ /\ \A p \in Peer \ DOMAIN selection : scored[p].exploratory
                   /\ \/ DOMAIN selection = Peer
                      \/ Cardinality(cold) = ExploreSlots(want)
<1>1. PICK pos \in Orders(scored, Seen) : \E forced :
        IsForced(forced, scored, Seen, want)
        /\ selection = Materialize(scored, pos, forced, want)
  BY SelectionPick
<1>2. PICK forced : /\ IsForced(forced, scored, Seen, want)
                    /\ selection = Materialize(scored, pos, forced, want)
  BY <1>1
<1> DEFINE first == PassOne(scored, pos, forced, want)
           taken == first \cup forced
           cold == {p \in taken : scored[p].exploratory}
<1>3. DOMAIN scored = Peer /\ IsPool(scored) /\ \A p \in DOMAIN scored : Seen[p] \in Nat
  BY PoolsLemma, SeenLemma
<1>4. want \in Nat \ {0}
  BY CoverageAssumption
<1>5. /\ taken \subseteq Peer
      /\ first \cap forced = {}
      /\ Cardinality(cold) <= ExploreSlots(want)
      /\ Cardinality(taken) <= want
      /\ \/ Cardinality(taken) = want
         \/ /\ \A p \in Peer \ taken : scored[p].exploratory
            /\ taken = Peer \/ Cardinality(cold) = ExploreSlots(want)
  BY <1>2, <1>3, <1>4, AnswerLemma
<1>6. /\ DOMAIN selection = taken
      /\ \A p \in first : p \notin forced =>
           selection[p].rank = Cardinality({q \in first : pos[q] < pos[p]})
  <2>1. /\ DOMAIN Materialize(scored, pos, forced, want) = taken
        /\ \A p \in taken : Materialize(scored, pos, forced, want)[p].rank =
             IF p \in forced THEN Cardinality(first)
             ELSE Cardinality({q \in first : pos[q] < pos[p]})
    BY DEF Materialize
  <2> HIDE DEF first
  <2> QED BY <1>2, <2>1
<1>7. \A p \in first : selection[p].rank = Cardinality({q \in first : pos[q] < pos[p]})
  BY <1>5, <1>6
<1>8. PassesGive(scored, want, selection, pos, forced)
  BY <1>2, <1>6, <1>7 DEF PassesGive
<1> HIDE DEF first
<1> QED BY <1>5, <1>6, <1>8

LEMMA ColdBudgetLemma == TypeOK => ColdBudgetKept
<1> SUFFICES ASSUME TypeOK, NEW want \in Wants, NEW scored \in Pools({}),
                    NEW selection \in Selections(scored, Seen, want)
             PROVE  Cardinality(ColdIn(scored, selection)) <= ExploreSlots(want)
  BY Zenon DEF ColdBudgetKept, ForEveryAnswer
<1> QED BY AnswerPick DEF ColdIn

LEMMA NoSlotLostLemma == TypeOK => NoSlotLost
<1> SUFFICES ASSUME TypeOK, NEW want \in Wants, NEW scored \in Pools({}),
                    NEW selection \in Selections(scored, Seen, want)
             PROVE  \/ Cardinality(DOMAIN selection) = want
                    \/ /\ \A p \in Peer \ DOMAIN selection : scored[p].exploratory
                       /\ \/ DOMAIN selection = Peer
                          \/ Cardinality(ColdIn(scored, selection)) = ExploreSlots(want)
  BY Zenon DEF NoSlotLost, ForEveryAnswer
<1> QED BY AnswerPick DEF ColdIn

\* Of two peers pass 1 may take, the later in the order comes second.
LEMMA EarlierTaken ==
  ASSUME NEW scored, NEW peers, IsFiniteSet(peers), NEW pos, IsOrder(pos, peers),
         NEW cap \in Nat, NEW budget,
         NEW p \in Walk(scored, pos, peers, cap, budget),
         NEW q \in peers, ~scored[q].exploratory, pos[q] < pos[p]
  PROVE  q \in Walk(scored, pos, peers, cap, budget)
<1> DEFINE admitted == Admitted(scored, pos, peers, budget)
           Ahead(r) == {x \in admitted : pos[x] < pos[r]}
<1>1. Walk(scored, pos, peers, cap, budget) = FirstFew(pos, admitted, cap)
  BY WalkIsFirstFew
<1>2. admitted \in SUBSET peers /\ q \in admitted
  BY DEF Admitted, Cold, FirstFew
<1> HIDE DEF admitted
<1>3. p \in admitted /\ Cardinality(Ahead(p)) < cap
  BY <1>1 DEF FirstFew
<1>4. Ahead(q) \in SUBSET Ahead(p)
  <2>1. \A x \in admitted : pos[x] \in Nat
    BY <1>2 DEF IsOrder
  <2> QED BY <1>2, <1>3, <2>1, SMT
<1>5. IsFiniteSet(Ahead(p)) /\ IsFiniteSet(Ahead(q))
  BY <1>2, FS_Subset
<1> HIDE DEF Ahead
<1>6. /\ Cardinality(Ahead(q)) <= Cardinality(Ahead(p))
      /\ Cardinality(Ahead(q)) \in Nat /\ Cardinality(Ahead(p)) \in Nat
  BY <1>4, <1>5, FS_Subset, FS_CardinalityType
<1>7. Cardinality(Ahead(q)) < cap
  BY <1>3, <1>6, SMT
<1> QED BY <1>1, <1>2, <1>7 DEF FirstFew, Ahead

LEMMA ProvenLeadsLemma == TypeOK => ProvenLeads
<1> DEFINE Best(scored, q) ==
             /\ ~scored[q].exploratory /\ scored[q].effective_score > 0
             /\ \A r \in Peer : scored[r].effective_score > scored[q].effective_score
                                 => scored[r].exploratory
<1> SUFFICES ASSUME TypeOK, NEW want \in Wants, NEW scored \in Pools({}),
                    NEW selection \in Selections(scored, Seen, want),
                    NEW p \in DOMAIN selection, NEW q \in Peer,
                    selection[p].rank = 0, scored[p].exploratory,
                    Best(scored, q), ~Cyclic(scored, Seen),
                    p \notin ForcedPicks(scored, Seen, want),
                    q \notin ForcedPicks(scored, Seen, want)
             PROVE  FALSE
  BY Zenon DEF ProvenLeads, ForEveryAnswer
<1>a. PICK pos \in Orders(scored, Seen) :
        \E forced : PassesGive(scored, want, selection, pos, forced)
  BY AnswerPick
<1>0. PICK forced : PassesGive(scored, want, selection, pos, forced)
  BY <1>a
<1> DEFINE first == PassOne(scored, pos, forced, want)
           peers == DOMAIN scored \ forced
           before == {y \in first : pos[y] < pos[p]}
<1>1. /\ IsForced(forced, scored, Seen, want)
      /\ DOMAIN selection = first \cup forced
      /\ selection[p].rank = Cardinality(before) \/ p \notin first
      /\ DOMAIN selection \subseteq Peer
  BY <1>0, AnswerPick DEF PassesGive
<1>2. p \notin forced /\ q \notin forced
  BY <1>1 DEF IsForced
<1>3. p \in first /\ p \in Peer
  BY <1>1, <1>2
<1>4. DOMAIN scored = Peer /\ IsPool(scored)
  BY PoolsLemma
<1>5. scored[p].effective_score < scored[q].effective_score
  BY <1>3, PoolsLemma
<1>6. /\ IsFiniteSet(Peer) /\ IsOrder(pos, Peer)
      /\ pos[q] < pos[p]
  <2>1. \A x \in DOMAIN scored : Seen[x] \in Nat
    BY <1>4, SeenLemma
  <2>2. /\ IsFiniteSet(DOMAIN scored) /\ IsOrder(pos, DOMAIN scored)
        /\ \A x, y \in DOMAIN scored :
             scored[x].effective_score > scored[y].effective_score => pos[x] < pos[y]
    BY <1>4, <2>1, OrdersLemma
  <2>3. scored[q].effective_score > scored[p].effective_score
    BY <1>3, <1>4, <1>5, SMT DEF IsPool
  <2> QED BY <1>3, <1>4, <2>2, <2>3
<1>7. /\ first = Walk(scored, pos, peers, Cap(forced, want), Budget(scored, forced, want))
      /\ Cap(forced, want) \in Nat
  <2>1. want \in Nat \ {0}
    BY CoverageAssumption
  <2> QED BY <2>1, SMT DEF PassOne, Cap
<1>8. q \in first
  <2>1. IsFiniteSet(peers) /\ IsOrder(pos, peers) /\ q \in peers
    BY <1>2, <1>4, <1>6, FS_Difference DEF IsOrder
  <2> HIDE DEF first, peers
  <2> QED BY <1>3, <1>6, <1>7, <2>1, EarlierTaken
<1>9. IsFiniteSet(before) /\ q \in before /\ Cardinality(before) = 0
  <2>1. before \in SUBSET Peer
    BY <1>1
  <2> QED BY <1>1, <1>3, <1>6, <1>8, <2>1, FS_Subset
<1> HIDE DEF before
<1> QED BY <1>9, FS_EmptySet

-----------------------------------------------------------------------------
(* The closed form of pass 1 is the loop *)

UpTo(pos, S, i) == {p \in S : pos[p] <= i}

\* While fewer than k are taken, everyone met has been taken.
LEMMA PrefixLemma ==
  ASSUME NEW P, IsFiniteSet(P), NEW pos, IsOrder(pos, P), NEW k \in Nat, NEW i \in Nat,
         Cardinality(UpTo(pos, FirstFew(pos, P, k), i)) < k
  PROVE  UpTo(pos, FirstFew(pos, P, k), i) = UpTo(pos, P, i)
<1> DEFINE few == FirstFew(pos, P, k)
           missed == UpTo(pos, P, i) \ few
           Ahead(p) == {q \in P : pos[q] < pos[p]}
<1>1. few \in SUBSET P /\ \A p \in P : p \in few <=> Cardinality(Ahead(p)) < k
  BY DEF FirstFew
<1> HIDE DEF few
<1>2. \A p \in P : pos[p] \in Nat
  BY DEF IsOrder
<1>3. ASSUME missed # {} PROVE FALSE
  <2>1. IsFiniteSet(missed) /\ missed \in SUBSET P /\ \A p \in missed : pos[p] \in Int
    <3>1. missed \in SUBSET P
      BY DEF UpTo
    <3>2. \A p \in missed : pos[p] \in Int
      BY <1>2, <3>1, SMT
    <3> HIDE DEF missed
    <3> QED BY <3>1, <3>2, FS_Subset
  <2>2. PICK m \in missed : \A q \in missed : pos[m] <= pos[q]
    <3> HIDE DEF missed
    <3> QED BY <1>3, <2>1, LowestExists
  <2>3. m \in P /\ m \notin few /\ pos[m] <= i
    BY <2>1 DEF UpTo
  <2>4. Ahead(m) \in SUBSET UpTo(pos, few, i)
    <3> SUFFICES ASSUME NEW q \in P, pos[q] < pos[m]
                 PROVE  q \in few /\ pos[q] <= i
      BY DEF UpTo
    <3>1. pos[q] \in Nat /\ pos[m] \in Nat
      BY <1>2, <2>3
    <3>2. pos[q] <= i /\ ~(pos[m] <= pos[q])
      BY <2>3, <3>1, SMT
    <3>3. q \notin missed
      BY <2>2, <3>2
    <3> QED BY <3>2, <3>3 DEF UpTo
  <2>5. IsFiniteSet(UpTo(pos, few, i))
    BY <1>1, FS_Subset DEF UpTo
  <2>6. /\ Cardinality(Ahead(m)) <= Cardinality(UpTo(pos, few, i))
        /\ Cardinality(Ahead(m)) \in Nat /\ Cardinality(UpTo(pos, few, i)) \in Nat
    <3> HIDE DEF Ahead
    <3> QED BY <2>4, <2>5, FS_Subset, FS_CardinalityType
  <2>7. Cardinality(Ahead(m)) < k
    <3> HIDE DEF Ahead
    <3> QED BY <2>6, SMT DEF few
  <2> QED BY <1>1, <2>3, <2>7
<1> QED BY <1>1, <1>3 DEF UpTo, few

\* A peer is taken exactly if, when the loop reaches it, fewer than k of those
\* before it are.
LEMMA TakenLemma ==
  ASSUME NEW P, IsFiniteSet(P), NEW pos, IsOrder(pos, P), NEW k \in Nat, NEW i \in Nat,
         NEW p \in P, pos[p] = i + 1
  PROVE  p \in FirstFew(pos, P, k) <=> Cardinality(UpTo(pos, FirstFew(pos, P, k), i)) < k
<1> DEFINE few == FirstFew(pos, P, k)
           ahead == {q \in P : pos[q] < pos[p]}
           met == UpTo(pos, few, i)
<1>1. few \in SUBSET P /\ (p \in few <=> Cardinality(ahead) < k)
  BY DEF FirstFew
<1>2. ahead = UpTo(pos, P, i)
  <2>1. \A q \in P : pos[q] \in Nat
    BY DEF IsOrder
  <2> QED BY <2>1, SMT DEF UpTo
<1> HIDE DEF few
<1>3. met \in SUBSET UpTo(pos, P, i) /\ IsFiniteSet(UpTo(pos, P, i))
  BY <1>1, FS_Subset DEF UpTo
<1>4. /\ Cardinality(met) <= Cardinality(UpTo(pos, P, i))
      /\ Cardinality(met) \in Nat /\ Cardinality(UpTo(pos, P, i)) \in Nat
  <2> HIDE DEF met
  <2> QED BY <1>3, FS_Subset, FS_CardinalityType
<1>5. CASE p \in few
  <2>1. Cardinality(met) < k
    <3> HIDE DEF met, ahead
    <3> QED BY <1>1, <1>2, <1>4, <1>5, SMT
  <2> QED BY <1>5, <2>1 DEF few
<1>6. CASE Cardinality(met) < k
  <2>1. met = UpTo(pos, P, i)
    BY <1>6, PrefixLemma DEF few
  <2> QED BY <1>1, <1>2, <1>6, <2>1 DEF few
<1> QED BY <1>5, <1>6 DEF few

\* The state of the loop when the first i positions are done.
Walked(scored, pos, forced, want, i) ==
  LET first == PassOne(scored, pos, forced, want)
  IN  [chosen |-> UpTo(pos, first, i),
       explored |-> Cardinality(UpTo(pos, Cold(scored, first), i))]

\* One more position: the closed form does what the body of the loop does.
LEMMA VisitLemma ==
  ASSUME NEW scored, IsFiniteSet(DOMAIN scored), NEW pos, IsOrder(pos, DOMAIN scored),
         NEW forced, NEW want, Cap(forced, want) \in Nat,
         Budget(scored, forced, want) \in Nat,
         NEW i \in Nat, NEW p \in DOMAIN scored, pos[p] = i + 1
  PROVE  Walked(scored, pos, forced, want, i + 1) =
           Visit(scored, forced, want, Walked(scored, pos, forced, want, i), p)
<1> DEFINE peers == DOMAIN scored \ forced
           cap == Cap(forced, want)
           budget == Budget(scored, forced, want)
           cold == Cold(scored, peers)
           few == FirstFew(pos, cold, budget)
           admitted == Admitted(scored, pos, peers, budget)
           first == PassOne(scored, pos, forced, want)
           early == Cold(scored, first)
           before == Walked(scored, pos, forced, want, i)
           after == Walked(scored, pos, forced, want, i + 1)
<1>1. IsFiniteSet(peers) /\ IsOrder(pos, peers)
  BY FS_Difference DEF IsOrder
<1>2. /\ cold \in SUBSET peers /\ few \in SUBSET cold
      /\ admitted = (peers \ cold) \cup few
      /\ first = FirstFew(pos, admitted, cap)
      /\ \A q \in peers : q \in cold <=> scored[q].exploratory
  BY WalkIsFirstFew DEF Admitted, FirstFew, Cold, PassOne
<1>3. /\ before = [chosen |-> UpTo(pos, first, i), explored |-> Cardinality(UpTo(pos, early, i))]
      /\ after = [chosen |-> UpTo(pos, first, i + 1),
                  explored |-> Cardinality(UpTo(pos, early, i + 1))]
  BY DEF Walked
<1>4. early = {q \in first : scored[q].exploratory}
  BY DEF Cold
<1>5. cap \in Nat /\ budget \in Nat
  OBVIOUS
<1> HIDE DEF cap, budget, cold, few, admitted, first, early, before, after
<1>6. /\ IsFiniteSet(cold) /\ IsFiniteSet(admitted) /\ IsFiniteSet(few)
      /\ admitted \in SUBSET peers
      /\ first \in SUBSET admitted /\ IsFiniteSet(first)
      /\ early = first \cap few /\ IsFiniteSet(early)
  <2>1. cold \in SUBSET peers /\ few \in SUBSET peers /\ admitted \in SUBSET peers
    BY <1>2
  <2>2. first \in SUBSET admitted
    BY <1>2 DEF FirstFew
  <2>3. early \in SUBSET peers /\ early = first \cap few
    BY <1>2, <1>4, <2>1, <2>2
  <2>4. first \in SUBSET peers
    BY <2>1, <2>2
  <2> HIDE DEF peers
  <2> QED BY <1>1, <2>1, <2>2, <2>3, <2>4, FS_Subset
<1>7. IsOrder(pos, cold) /\ IsOrder(pos, admitted)
  BY <1>1, <1>2, <1>6 DEF IsOrder
<1>8. \A S \in SUBSET DOMAIN scored :
        UpTo(pos, S, i + 1) = IF p \in S THEN UpTo(pos, S, i) \cup {p} ELSE UpTo(pos, S, i)
  <2>1. \A q \in DOMAIN scored : pos[q] \in Nat /\ (pos[q] = i + 1 => q = p)
    BY DEF IsOrder
  <2>2. \A q \in DOMAIN scored : pos[q] <= i + 1 <=> pos[q] <= i \/ q = p
    BY <2>1, SMT
  <2>3. p \in UpTo(pos, DOMAIN scored, i + 1)
    BY SMT DEF UpTo
  <2> QED BY <2>2, <2>3, Zenon DEF UpTo
<1>9. /\ first \in SUBSET DOMAIN scored /\ early \in SUBSET DOMAIN scored
  BY <1>6
<1>10. ASSUME p \notin first PROVE after = before
  BY <1>3, <1>4, <1>8, <1>9, <1>10
<1>11. ASSUME p \in first
       PROVE  after = [chosen |-> before.chosen \cup {p},
                       explored |-> IF scored[p].exploratory
                                    THEN before.explored + 1 ELSE before.explored]
  <2>1. UpTo(pos, first, i + 1) = UpTo(pos, first, i) \cup {p}
    BY <1>8, <1>9, <1>11
  <2>2. CASE scored[p].exploratory
    <3>1. UpTo(pos, early, i + 1) = UpTo(pos, early, i) \cup {p}
      BY <1>4, <1>8, <1>9, <1>11, <2>2
    <3>2. IsFiniteSet(UpTo(pos, early, i)) /\ p \notin UpTo(pos, early, i)
      BY <1>6, FS_Subset, SMT DEF UpTo
    <3>3. Cardinality(UpTo(pos, early, i + 1)) = Cardinality(UpTo(pos, early, i)) + 1
      BY <3>1, <3>2, FS_AddElement
    <3> QED BY <1>3, <2>1, <2>2, <3>3
  <2>3. CASE ~scored[p].exploratory
    <3>1. UpTo(pos, early, i + 1) = UpTo(pos, early, i)
      BY <1>4, <1>8, <1>9, <2>3
    <3> QED BY <1>3, <2>1, <2>3, <3>1
  <2> QED BY <2>2, <2>3
<1>12. ASSUME p \in admitted
       PROVE  p \in first <=> Cardinality(before.chosen) < cap
  BY <1>2, <1>3, <1>5, <1>6, <1>7, <1>12, TakenLemma
<1>13. ASSUME p \in cold, Cardinality(before.chosen) < cap
       PROVE  p \in admitted <=> before.explored < budget
  <2>1. UpTo(pos, first, i) = UpTo(pos, admitted, i)
    <3>1. Cardinality(UpTo(pos, FirstFew(pos, admitted, cap), i)) < cap
      BY <1>2, <1>3, <1>13
    <3>2. UpTo(pos, FirstFew(pos, admitted, cap), i) = UpTo(pos, admitted, i)
      BY <1>5, <1>6, <1>7, <3>1, PrefixLemma
    <3> QED BY <1>2, <3>2
  <2>2. UpTo(pos, early, i) = UpTo(pos, few, i)
    BY <1>2, <1>6, <2>1 DEF UpTo
  <2>3. p \in few <=> Cardinality(UpTo(pos, few, i)) < budget
    BY <1>5, <1>6, <1>7, <1>13, TakenLemma DEF few
  <2> QED BY <1>2, <1>3, <1>13, <2>2, <2>3
<1>14. ASSUME p \in first, scored[p].exploratory
       PROVE  p \in cold
  BY <1>2, <1>6, <1>14
<1>15. p \in first <=> ~(\/ Cardinality(before.chosen) >= cap
                         \/ p \in forced
                         \/ scored[p].exploratory /\ before.explored >= budget)
  <2>1. Cardinality(before.chosen) \in Nat /\ before.explored \in Nat
    <3>1. IsFiniteSet(UpTo(pos, first, i)) /\ IsFiniteSet(UpTo(pos, early, i))
      BY <1>6, FS_Subset DEF UpTo
    <3> QED BY <1>3, <3>1, FS_CardinalityType
  <2>2. p \in admitted => p \in peers
    BY <1>6
  <2>3. p \in peers <=> p \notin forced
    OBVIOUS
  <2>4. p \in first => p \in admitted
    BY <1>6
  <2>5. p \in peers /\ ~scored[p].exploratory => p \in admitted
    BY <1>2
  <2>6. p \in peers => (p \in cold <=> scored[p].exploratory)
    BY <1>2
  <2> HIDE DEF peers
  <2> QED BY <1>5, <1>12, <1>13, <2>1, <2>2, <2>3, <2>4, <2>5, <2>6, SMT
<1> QED BY <1>10, <1>11, <1>15 DEF Visit, cap, budget, before, after

\* The recursive function of the loop is the closed form at every position,
\* because the closed form satisfies its equation.
LEMMA LoopLemma ==
  ASSUME NEW scored, IsFiniteSet(DOMAIN scored), NEW pos, IsOrder(pos, DOMAIN scored),
         pos \in [DOMAIN scored -> 1..Cardinality(DOMAIN scored)],
         NEW forced, NEW want, Cap(forced, want) \in Nat,
         Budget(scored, forced, want) \in Nat
  PROVE  LoopPassOne(scored, pos, forced, want) = PassOne(scored, pos, forced, want)
<1> DEFINE n == Cardinality(DOMAIN scored)
           At(i) == CHOOSE p \in DOMAIN scored : pos[p] = i
           Round(w, i) == IF i = 0 THEN [chosen |-> {}, explored |-> 0]
                          ELSE Visit(scored, forced, want, w[i - 1], At(i))
           walk == CHOOSE w : w = [i \in 0..n |-> Round(w, i)]
           closed == [i \in 0..n |-> Walked(scored, pos, forced, want, i)]
           first == PassOne(scored, pos, forced, want)
<1>1. n \in Nat
  BY FS_CardinalityType
<1>2. first \subseteq DOMAIN scored
  BY WalkIsFirstFew DEF PassOne, FirstFew, Admitted, Cold
<1>3. ASSUME NEW i \in 1..n PROVE At(i) \in DOMAIN scored /\ pos[At(i)] = i
  <2>1. IsFiniteSet(1..n) /\ Cardinality(1..n) = n
    BY <1>1, FS_Interval, SMT
  <2>2. pos \in Injection(DOMAIN scored, 1..n)
    BY DEF Injection, IsInjective, IsOrder
  <2>3. pos \in Surjection(DOMAIN scored, 1..n)
    BY <2>1, <2>2, FS_Injection
  <2>4. \E p \in DOMAIN scored : pos[p] = i
    BY <2>3 DEF Surjection
  <2> QED BY <2>4
<1>4. Walked(scored, pos, forced, want, 0) = [chosen |-> {}, explored |-> 0]
  <2>1. \A p \in DOMAIN scored : ~(pos[p] <= 0)
    BY <1>1, SMT
  <2> HIDE DEF first
  <2>2. UpTo(pos, first, 0) = {} /\ UpTo(pos, Cold(scored, first), 0) = {}
    BY <1>2, <2>1 DEF UpTo, Cold
  <2> QED BY <2>2, FS_EmptySet DEF Walked, first
<1>5. ASSUME NEW i \in 1..n
      PROVE  Walked(scored, pos, forced, want, i) =
               Visit(scored, forced, want, Walked(scored, pos, forced, want, i - 1), At(i))
  <2>1. i - 1 \in Nat /\ (i - 1) + 1 = i
    BY <1>1, SMT
  <2>2. At(i) \in DOMAIN scored /\ pos[At(i)] = (i - 1) + 1
    BY <1>3, <2>1
  <2> HIDE DEF At
  <2>3. Walked(scored, pos, forced, want, (i - 1) + 1) =
          Visit(scored, forced, want, Walked(scored, pos, forced, want, i - 1), At(i))
    BY <2>1, <2>2, VisitLemma
  <2> QED BY <2>1, <2>3
<1> HIDE DEF At
<1>6. closed = [i \in 0..n |-> Round(closed, i)]
  <2>1. ASSUME NEW i \in 0..n PROVE closed[i] = Round(closed, i)
    <3>1. CASE i = 0
      BY <1>4, <3>1
    <3>2. CASE i # 0
      <4>1. i \in 1..n /\ i - 1 \in 0..n
        BY <1>1, <3>2, SMT
      <4> QED BY <1>5, <3>2, <4>1
    <3> QED BY <3>1, <3>2
  <2>2. closed = [i \in 0..n |-> closed[i]]
    OBVIOUS
  <2> HIDE DEF closed, Round
  <2> QED BY <2>1, <2>2
<1>7. walk = [i \in 0..n |-> Round(walk, i)]
  <2> HIDE DEF closed, Round
  <2> QED BY <1>6
<1>8. \A i \in 0..n : walk[i] = Round(walk, i)
  <2> HIDE DEF walk, Round
  <2> QED BY <1>7
<1> HIDE DEF walk
<1>9. \A i \in 0..n : walk[i] = closed[i]
  <2> DEFINE differ == {i \in 0..n : walk[i] # closed[i]}
  <2>1. ASSUME differ # {} PROVE FALSE
    <3>1. PICK i \in differ : \A j \in differ : i <= j
      <4>1. differ \in SUBSET Nat
        BY <1>1, SMT
      <4> HIDE DEF differ
      <4> QED BY <2>1, <4>1, LeastNatural
    <3>2. CASE i = 0
      BY <1>4, <1>8, <3>2
    <3>3. CASE i # 0
      <4>1. i \in 1..n /\ i - 1 \in 0..n /\ i \in 0..n /\ ~(i <= i - 1)
        BY <1>1, <3>3, SMT
      <4>2. walk[i - 1] = closed[i - 1]
        BY <3>1, <4>1
      <4>3. walk[i] = Visit(scored, forced, want, walk[i - 1], At(i))
        BY <1>8, <3>3, <4>1
      <4>4. closed[i] = Visit(scored, forced, want, closed[i - 1], At(i))
        BY <1>5, <4>1
      <4>5. walk[i] = closed[i]
        BY <4>2, <4>3, <4>4
      <4> QED BY <4>5
    <3> QED BY <3>2, <3>3
  <2> QED BY <2>1
<1>10. closed[n].chosen = first
  <2>1. n \in 0..n
    BY <1>1, SMT
  <2>2. \A p \in DOMAIN scored : pos[p] <= n
    BY <1>1, SMT
  <2>3. closed[n].chosen = UpTo(pos, first, n)
    BY <2>1 DEF Walked
  <2> HIDE DEF first, closed
  <2> QED BY <1>2, <2>2, <2>3 DEF UpTo
<1>11. LoopPassOne(scored, pos, forced, want) = walk[n].chosen
  BY DEF LoopPassOne, walk, At
<1>12. n \in 0..n
  BY <1>1, SMT
<1> QED BY <1>9, <1>10, <1>11, <1>12

LEMMA PassOneLemma == TypeOK => PassOneIsTheLoop
<1> SUFFICES ASSUME TypeOK, NEW want \in Wants, NEW scored \in Pools({}),
                    NEW pos \in Orders(scored, Seen),
                    NEW forced \in {{}} \cup {{p} : p \in ForcedPicks(scored, Seen, want)}
             PROVE  PassOne(scored, pos, forced, want) = LoopPassOne(scored, pos, forced, want)
  BY Zenon DEF PassOneIsTheLoop
<1>1. DOMAIN scored = Peer /\ IsPool(scored) /\ \A p \in DOMAIN scored : Seen[p] \in Nat
  BY PoolsLemma, SeenLemma
<1>2. /\ IsFiniteSet(DOMAIN scored) /\ IsOrder(pos, DOMAIN scored)
      /\ pos \in [DOMAIN scored -> 1..Cardinality(DOMAIN scored)]
  BY <1>1, OrdersLemma
<1>3. want \in Nat \ {0}
  BY CoverageAssumption
<1>4. Cap(forced, want) \in Nat /\ Budget(scored, forced, want) \in Nat
  BY <1>3, SlotsLemma, SMT DEF Cap, Budget
<1> QED BY <1>2, <1>4, LoopLemma

-----------------------------------------------------------------------------
(* The theorems about answers *)

\* Every entry stays well formed and staleness has no gaps beyond the size of
\* the pool, for every pool and every sequence of selections and outcomes.
THEOREM CoverageTypes == Spec => []TypeOK
<1>1. TypeOK /\ [Next]_vars => TypeOK'
  BY CoverageNext
<1> QED BY CoverageInit, <1>1, PTL DEF Spec

\* The set that pass 1 takes is what the loop of engine.rs:317-334 takes, for
\* every pool, order, forced peer and request.
THEOREM ClosedFormIsTheLoop == Spec => []PassOneIsTheLoop
  BY CoverageTypes, PassOneLemma, PTL

\* Unmeasured peers never take more of an answer than a third of the request,
\* the reserved slot included.
THEOREM ColdPeersCapped == Spec => []ColdBudgetKept
  BY CoverageTypes, ColdBudgetLemma, PTL

\* No slot of an answer stays empty while a peer that may take it is left.
THEOREM SlotsAreFilled == Spec => []NoSlotLost
  BY CoverageTypes, NoSlotLostLemma, PTL

\* A best measured peer leads the answer over every unmeasured one, unless it
\* waits for the reserved slot.
THEOREM BestMeasuredLeads == Spec => []ProvenLeads
  BY CoverageTypes, ProvenLeadsLemma, PTL

-----------------------------------------------------------------------------
(* Who waits how long *)

\* The peers that get the reserved slot before p does, if both wait for it.
AheadOf(p) == {q \in Peer \ {p} : NotBehind(stale, q, p)}

\* A peer has been passed over no more often than it is stale, unless it may
\* claim the reserved slot by now; and each further time costs one of those
\* ahead of it.
TurnInv ==
  /\ TypeOK
  /\ waited \in [Peer -> 0..(2 * Size)]
  /\ \A p \in Peer :
       /\ waited[p] <= stale[p] \/ stale[p] >= Size - 1
       /\ waited[p] >= 1 => waited[p] + Cardinality(AheadOf(p)) <= 2 * Size - 3

SmallRequests == \A want \in Wants : want < Size

LEMMA AheadFinite ==
  ASSUME NEW p \in Peer
  PROVE  /\ IsFiniteSet(AheadOf(p)) /\ Cardinality(AheadOf(p)) \in Nat
         /\ IsFiniteSet(AheadOf(p)') /\ Cardinality(AheadOf(p))' \in Nat
<1>1. AheadOf(p) \in SUBSET Peer /\ AheadOf(p)' \in SUBSET Peer
  BY DEF AheadOf
<1>2. /\ IsFiniteSet(AheadOf(p)) /\ Cardinality(AheadOf(p)) \in Nat
      /\ IsFiniteSet(AheadOf(p)') /\ Cardinality(AheadOf(p)') \in Nat
  BY <1>1, SizeLemma, FS_Subset, FS_CardinalityType
<1> QED BY <1>2

\* A turn of others brings nobody before p, and removes those who took it.
LEMMA AheadShrinks ==
  ASSUME TypeOK, NEW turn, stale' = Aged(turn), NEW p \in Peer \ turn
  PROVE  AheadOf(p)' \subseteq AheadOf(p) \ turn
<1> SUFFICES ASSUME NEW q \in Peer \ {p}, NotBehind(stale', q, p)
             PROVE  q \notin turn /\ NotBehind(stale, q, p)
  BY DEF AheadOf
<1>1. /\ stale \in [Peer -> 0..(2 * Size)] /\ stale' \in [Peer -> 0..(2 * Size)]
      /\ \A r \in Peer : stale[r] \in Nat /\ stale'[r] \in Nat
  <2>1. stale \in [Peer -> 0..(2 * Size)] /\ stale' \in [Peer -> 0..(2 * Size)]
    BY AgedLemma DEF TypeOK
  <2> QED BY <2>1, SizeLemma, SMT
<1>2. stale'[p] >= 1 /\ (q \in turn => stale'[q] = 0)
  BY <1>1, AgedLemma
<1>3. q \notin turn
  BY <1>1, <1>2, SMT DEF NotBehind
<1>4. /\ stale[p] < stale[q] <=> stale'[p] < stale'[q]
      /\ stale[q] < stale[p] <=> stale'[q] < stale'[p]
  BY <1>1, <1>3, AgedLemma
<1>5. NotBehind(stale, q, p)
  BY <1>1, <1>4, SMT DEF NotBehind
<1> QED BY <1>3, <1>5

\* An answer is never empty, and holds whoever gets the reserved slot.
LEMMA AnswerServes ==
  ASSUME TypeOK, Peer # {}, NEW want \in Wants, NEW scored \in Pools({}),
         NEW selection \in Selections(scored, Seen, want)
  PROVE  /\ DOMAIN selection \subseteq Peer
         /\ DOMAIN selection # {}
         /\ ForcedPicks(scored, Seen, want) # {} =>
              \E f \in ForcedPicks(scored, Seen, want) : f \in DOMAIN selection
<1> DEFINE cold == {p \in DOMAIN selection : scored[p].exploratory}
<1>1. /\ \E pos \in Orders(scored, Seen) : \E forced :
           PassesGive(scored, want, selection, pos, forced)
      /\ DOMAIN selection \subseteq Peer
      /\ \/ Cardinality(DOMAIN selection) = want
         \/ DOMAIN selection = Peer
         \/ Cardinality(cold) = ExploreSlots(want)
  BY AnswerPick
<1>2. want \in Nat \ {0} /\ ExploreSlots(want) \in Nat /\ ExploreSlots(want) >= 1
  BY CoverageAssumption, SlotsLemma
<1>3. \A S : Cardinality(S) # 0 => S # {}
  BY FS_EmptySet
<1>4. ASSUME DOMAIN selection = {} PROVE FALSE
  <2>1. cold = {}
    BY <1>4
  <2>2. Cardinality(DOMAIN selection) = 0 /\ Cardinality(cold) = 0
    BY <1>4, <2>1, FS_EmptySet
  <2> HIDE DEF cold
  <2> QED BY <1>1, <1>2, <1>4, <2>2, SMT
<1>5. ASSUME ForcedPicks(scored, Seen, want) # {}
      PROVE  \E f \in ForcedPicks(scored, Seen, want) : f \in DOMAIN selection
  <2>1. PICK pos \in Orders(scored, Seen) : \E forced :
          PassesGive(scored, want, selection, pos, forced)
    BY <1>1
  <2>2. PICK forced : PassesGive(scored, want, selection, pos, forced)
    BY <2>1
  <2>3. forced \subseteq DOMAIN selection /\ IsForced(forced, scored, Seen, want)
    BY <2>2 DEF PassesGive
  <2> QED BY <1>5, <2>3 DEF IsForced
<1> QED BY <1>1, <1>4, <1>5

\* A selection that passes p over: one less ahead of it if it may claim the
\* reserved slot, and otherwise it is not yet stale enough to.
LEMMA PassedOver ==
  ASSUME SmallRequests, TurnInv, NEW want \in Wants, NEW scored \in Pools({}),
         NEW selection \in Selections(scored, Seen, want),
         stale' = Aged(DOMAIN selection),
         NEW p \in Peer \ DOMAIN selection, ~Floored(scored[p])
  PROVE  waited[p] + 1 + Cardinality(AheadOf(p)') <= 2 * Size - 3
<1> DEFINE ahead == AheadOf(p)
           later == AheadOf(p)'
           turn == DOMAIN selection
<1>1. /\ TypeOK /\ waited[p] \in Nat /\ stale[p] \in Nat
      /\ waited[p] <= stale[p] \/ stale[p] >= Size - 1
      /\ waited[p] >= 1 => waited[p] + Cardinality(ahead) <= 2 * Size - 3
  BY SizeLemma, SMT DEF TurnInv, TypeOK
<1>2. /\ IsFiniteSet(ahead) /\ Cardinality(ahead) \in Nat
      /\ IsFiniteSet(later) /\ Cardinality(later) \in Nat
  BY AheadFinite
<1>3. later \subseteq ahead \ turn /\ later \subseteq Peer \ {p} /\ p \notin turn
  BY <1>1, AheadShrinks DEF AheadOf
<1>4. want \in Nat \ {0} /\ want < Size
  BY CoverageAssumption DEF SmallRequests
<1>5. turn \subseteq Peer /\ turn # {}
  <2>1. Peer # {}
    OBVIOUS
  <2> QED BY <1>1, <2>1, AnswerServes
<1> HIDE DEF ahead, later, turn
<1>6. Cardinality(later) <= Size - 2
  <2>1. PICK x \in turn : TRUE
    BY <1>5
  <2>2. later \in SUBSET ((Peer \ {p}) \ {x})
    BY <1>3
  <2>3. /\ IsFiniteSet(Peer \ {p}) /\ Cardinality(Peer \ {p}) = Size - 1
    BY SizeLemma, FS_RemoveElement DEF Size
  <2>4. x \in Peer \ {p}
    BY <1>3, <1>5
  <2>5. /\ IsFiniteSet((Peer \ {p}) \ {x})
        /\ Cardinality((Peer \ {p}) \ {x}) = Cardinality(Peer \ {p}) - 1
    BY <2>3, <2>4, FS_RemoveElement
  <2>6. Cardinality(later) <= Cardinality((Peer \ {p}) \ {x})
    BY <2>2, <2>5, FS_Subset
  <2> QED BY <1>2, <2>3, <2>5, <2>6, SizeLemma, SMT
<1>7. ASSUME stale[p] + 1 < Size
      PROVE  waited[p] + 1 + Cardinality(later) <= 2 * Size - 3
  BY <1>1, <1>2, <1>6, <1>7, SizeLemma, SMT
<1>8. ASSUME stale[p] + 1 >= Size
      PROVE  waited[p] + 1 + Cardinality(later) <= 2 * Size - 3
  <2>1. /\ DOMAIN scored = Peer /\ IsPool(scored)
        /\ \A q \in Peer : Seen[q] \in Nat /\ Seen[q] = stale[q] + 1
    BY <1>1, PoolsLemma, SeenLemma
  <2>2. /\ want < Cardinality(DOMAIN scored)
        /\ Seen[p] >= Cardinality(DOMAIN scored)
    BY <1>4, <1>8, <2>1 DEF Size
  <2>3. /\ ForcedPicks(scored, Seen, want) # {}
        /\ \A g \in ForcedPicks(scored, Seen, want) : g \in Peer /\ NotBehind(Seen, g, p)
    <3>1. \A q \in DOMAIN scored : Seen[q] \in Nat
      BY <2>1
    <3>2. /\ \A g \in ForcedPicks(scored, Seen, want) : g \in DOMAIN scored
          /\ \E f \in ForcedPicks(scored, Seen, want) :
               \A g \in ForcedPicks(scored, Seen, want) : NotBehind(Seen, g, p)
      BY <2>1, <2>2, <3>1, ForcedLemma
    <3> QED BY <2>1, <3>2
  <2>4. PICK f \in ForcedPicks(scored, Seen, want) : f \in turn
    BY <1>1, <2>3, AnswerServes, <1>5 DEF turn
  <2>5. f \in Peer \ {p} /\ NotBehind(Seen, f, p)
    BY <1>3, <2>3, <2>4
  <2>6. stale[f] \in Nat
    BY <1>1, <2>5, SizeLemma, SMT DEF TypeOK
  <2>7. f \in ahead
    BY <1>1, <2>1, <2>5, <2>6, SMT DEF ahead, AheadOf, NotBehind
  <2>8. later \in SUBSET (ahead \ {f})
    BY <1>3, <2>4
  <2>9. /\ IsFiniteSet(ahead \ {f}) /\ Cardinality(ahead \ {f}) = Cardinality(ahead) - 1
    BY <1>2, <2>7, FS_RemoveElement
  <2>10. Cardinality(later) <= Cardinality(ahead \ {f})
    BY <2>8, <2>9, FS_Subset
  <2>11. Cardinality(later) <= Cardinality(ahead) - 1
    BY <2>9, <2>10
  <2> QED BY <1>1, <1>2, <1>4, <1>6, <2>11, SizeLemma, SMT
<1>9. waited[p] + 1 + Cardinality(later) <= 2 * Size - 3
  BY <1>1, <1>7, <1>8, SizeLemma, SMT
<1> QED BY <1>9 DEF later

LEMMA TurnInitLemma == TurnInit => TurnInv
<1> SUFFICES ASSUME TurnInit PROVE TurnInv
  OBVIOUS
<1>1. TypeOK
  BY CoverageInit DEF TurnInit
<1>2. \A p \in Peer : stale[p] \in Nat
  BY <1>1, SizeLemma, SMT DEF TypeOK
<1>3. waited = [p \in Peer |-> 0] /\ 0 \in 0..(2 * Size)
  BY SizeLemma, SMT DEF TurnInit
<1>4. \A p \in Peer : waited[p] = 0 /\ 0 <= stale[p] /\ ~(0 >= 1)
  BY <1>2, <1>3, SMT
<1>5. waited \in [Peer -> 0..(2 * Size)]
  BY <1>3
<1> QED BY <1>1, <1>4, <1>5 DEF TurnInv

\* What a peer's count says after a step, from what it said before.
TurnKept(p) ==
  /\ waited'[p] \in 0..(2 * Size)
  /\ waited'[p] <= stale'[p] \/ stale'[p] >= Size - 1
  /\ waited'[p] >= 1 => waited'[p] + Cardinality(AheadOf(p)') <= 2 * Size - 3

LEMMA AgedCount ==
  ASSUME TurnInv, NEW turn, stale' = Aged(turn), NEW p \in Peer
  PROVE  /\ waited[p] \in 0..(2 * Size) /\ stale[p] \in Nat /\ stale'[p] \in Nat
         /\ waited[p] <= stale[p] \/ stale[p] >= Size - 1
         /\ p \notin turn => stale'[p] = stale[p] + 1 \/ stale'[p] > Size
         /\ p \notin turn /\ stale[p] >= Size => stale'[p] > Size
<1>1. TypeOK /\ stale \in [Peer -> 0..(2 * Size)] /\ stale' \in [Peer -> 0..(2 * Size)]
  BY AgedLemma DEF TurnInv, TypeOK
<1>2. stale[p] \in Nat /\ stale'[p] \in Nat
  BY <1>1, SizeLemma, SMT
<1>3. p \notin turn => /\ stale'[p] = stale[p] + 1 \/ stale'[p] > Size
                       /\ stale[p] >= Size => stale'[p] > Size
  BY <1>1, AgedLemma
<1>4. /\ waited[p] \in 0..(2 * Size)
      /\ waited[p] <= stale[p] \/ stale[p] >= Size - 1
  BY DEF TurnInv
<1> QED BY <1>2, <1>3, <1>4

LEMMA TurnSelectStep ==
  ASSUME SmallRequests, TurnInv, NEW want \in Wants, TurnSelect(want)
  PROVE  \A p \in Peer : TurnKept(p)
<1>1. PICK scored \in Pools({}) : \E selection \in Selections(scored, Seen, want) :
        /\ stale' = Aged(DOMAIN selection)
        /\ waited' = [p \in Peer |->
                        IF p \in DOMAIN selection \/ Floored(scored[p])
                        THEN 0 ELSE MinOf(waited[p] + 1, 2 * Size)]
  BY DEF TurnSelect
<1>2. PICK selection \in Selections(scored, Seen, want) :
        /\ stale' = Aged(DOMAIN selection)
        /\ waited' = [p \in Peer |->
                        IF p \in DOMAIN selection \/ Floored(scored[p])
                        THEN 0 ELSE MinOf(waited[p] + 1, 2 * Size)]
  BY <1>1
<1> TAKE p \in Peer
<1>3. waited'[p] = IF p \in DOMAIN selection \/ Floored(scored[p])
                   THEN 0 ELSE MinOf(waited[p] + 1, 2 * Size)
  BY <1>2
<1>4. /\ waited[p] \in 0..(2 * Size) /\ stale[p] \in Nat /\ stale'[p] \in Nat
      /\ waited[p] <= stale[p] \/ stale[p] >= Size - 1
      /\ p \notin DOMAIN selection => stale'[p] = stale[p] + 1 \/ stale'[p] > Size
  BY <1>2, AgedCount
<1>5. Cardinality(AheadOf(p)') \in Nat
  BY AheadFinite
<1>6. CASE p \in DOMAIN selection \/ Floored(scored[p])
  BY <1>3, <1>4, <1>6, SizeLemma, SMT DEF TurnKept
<1>7. CASE ~(p \in DOMAIN selection \/ Floored(scored[p]))
  <2>1. waited[p] + 1 + Cardinality(AheadOf(p)') <= 2 * Size - 3
    BY <1>2, <1>7, PassedOver
  <2>2. waited'[p] = MinOf(waited[p] + 1, 2 * Size)
    BY <1>3, <1>7
  <2>3. waited'[p] = waited[p] + 1
    BY <1>4, <1>5, <2>1, <2>2, SizeLemma, SMT DEF MinOf
  <2>4. waited'[p] <= 2 * Size
    BY <1>4, <1>5, <2>1, <2>3, SizeLemma, SMT
  <2> QED BY <1>4, <1>5, <1>7, <2>1, <2>3, <2>4, SizeLemma, SMT DEF TurnKept
<1> QED BY <1>6, <1>7

LEMMA TurnElsewhereStep ==
  ASSUME TurnInv, NEW turn \in SUBSET Peer, TurnElsewhere(turn)
  PROVE  \A p \in Peer : TurnKept(p)
<1> TAKE p \in Peer
<1>1. /\ stale' = Aged(turn)
      /\ waited'[p] = IF p \in turn THEN 0 ELSE waited[p]
  BY DEF TurnElsewhere, SelectElsewhere
<1>2. /\ waited[p] \in 0..(2 * Size) /\ stale[p] \in Nat /\ stale'[p] \in Nat
      /\ waited[p] <= stale[p] \/ stale[p] >= Size - 1
      /\ p \notin turn => stale'[p] = stale[p] + 1 \/ stale'[p] > Size
  BY <1>1, AgedCount
<1>3. /\ IsFiniteSet(AheadOf(p)) /\ Cardinality(AheadOf(p)) \in Nat
      /\ Cardinality(AheadOf(p)') \in Nat
  BY AheadFinite
<1>4. CASE p \in turn
  BY <1>1, <1>2, <1>4, SizeLemma, SMT DEF TurnKept
<1>5. CASE p \notin turn
  <2>1. AheadOf(p)' \in SUBSET AheadOf(p)
    BY <1>1, <1>5, AheadShrinks DEF TurnInv
  <2>2. Cardinality(AheadOf(p)') <= Cardinality(AheadOf(p))
    BY <1>3, <2>1, FS_Subset
  <2>3. waited[p] >= 1 => waited[p] + Cardinality(AheadOf(p)) <= 2 * Size - 3
    BY DEF TurnInv
  <2>4. waited'[p] = waited[p]
    BY <1>1, <1>5
  <2> QED BY <1>2, <1>3, <1>5, <2>2, <2>3, <2>4, SizeLemma, SMT DEF TurnKept
<1> QED BY <1>4, <1>5

LEMMA TurnNextLemma ==
  ASSUME SmallRequests
  PROVE  TurnInv /\ [TurnNext]_turnVars => TurnInv'
<1> SUFFICES ASSUME TurnInv, [TurnNext]_turnVars PROVE TurnInv'
  OBVIOUS
<1>1. TypeOK'
  <2>1. [Next]_vars
    <3>1. ASSUME NEW want \in Wants, TurnSelect(want) PROVE SelectPool(want)
      BY <3>1, Zenon DEF TurnSelect, SelectPool
    <3>2. ASSUME NEW turn \in SUBSET Peer, TurnElsewhere(turn) PROVE SelectElsewhere(turn)
      BY <3>2 DEF TurnElsewhere
    <3>3. ASSUME NEW p \in Peer, NEW result \in Results, TurnOutcome(p, result)
          PROVE  Outcome(p, result)
      BY <3>3 DEF TurnOutcome
    <3>4. CASE UNCHANGED turnVars
      BY <3>4 DEF turnVars, vars
    <3> QED BY <3>1, <3>2, <3>3, <3>4, Zenon DEF TurnNext, Next
  <2> QED BY <2>1, CoverageNext DEF TurnInv
<1>2. ASSUME waited' \in [Peer -> 0..(2 * Size)], \A p \in Peer : TurnKept(p)
      PROVE  TurnInv'
  BY <1>1, <1>2, Zenon DEF TurnInv, TurnKept, Size
<1>3. ASSUME UNCHANGED <<stale, waited>> PROVE TurnInv'
  <2>1. /\ waited \in [Peer -> 0..(2 * Size)]
        /\ \A p \in Peer :
             /\ waited[p] <= stale[p] \/ stale[p] >= Size - 1
             /\ waited[p] >= 1 => waited[p] + Cardinality(AheadOf(p)) <= 2 * Size - 3
    BY DEF TurnInv
  <2>2. \A p \in Peer : AheadOf(p)' = AheadOf(p)
    BY <1>3 DEF AheadOf, NotBehind
  <2>3. \A p \in Peer : waited[p] \in 0..(2 * Size)
    BY <2>1
  <2> QED BY <1>2, <1>3, <2>1, <2>2, <2>3, Zenon DEF TurnKept
<1>4. ASSUME NEW want \in Wants, TurnSelect(want) PROVE TurnInv'
  <2>1. \A p \in Peer : TurnKept(p)
    BY <1>4, TurnSelectStep
  <2>2. waited' = [p \in Peer |-> waited'[p]]
    BY <1>4 DEF TurnSelect
  <2> QED BY <1>2, <2>1, <2>2, Zenon DEF TurnKept
<1>5. ASSUME NEW turn \in SUBSET Peer, TurnElsewhere(turn) PROVE TurnInv'
  <2>1. \A p \in Peer : TurnKept(p)
    BY <1>5, TurnElsewhereStep
  <2>2. waited' = [p \in Peer |-> waited'[p]]
    BY <1>5 DEF TurnElsewhere
  <2> QED BY <1>2, <2>1, <2>2, Zenon DEF TurnKept
<1>6. ASSUME NEW p \in Peer, NEW result \in Results, TurnOutcome(p, result) PROVE TurnInv'
  BY <1>3, <1>6 DEF TurnOutcome, Outcome
<1>7. CASE UNCHANGED turnVars
  BY <1>3, <1>7 DEF turnVars
<1> QED BY <1>4, <1>5, <1>6, <1>7 DEF TurnNext

\* However scores, outcomes and other requests fall, no peer that is not
\* floored is passed over by two sweeps of the pool: at most 2n - 3 times in a
\* pool of n, as long as no request takes the whole pool.
THEOREM NobodyStarves ==
  ASSUME SmallRequests
  PROVE  TurnSpec => []NoStarvation
<1>1. TurnInv /\ [TurnNext]_turnVars => TurnInv'
  BY TurnNextLemma
<1>2. TurnInv => NoStarvation
  <2> SUFFICES ASSUME TurnInv, NEW p \in Peer PROVE waited[p] <= MaxOf(1, 2 * Size - 3)
    BY DEF NoStarvation
  <2>1. waited[p] \in 0..(2 * Size)
    BY DEF TurnInv
  <2>2. waited[p] >= 1 => waited[p] + Cardinality(AheadOf(p)) <= 2 * Size - 3
    BY DEF TurnInv
  <2>3. Cardinality(AheadOf(p)) \in Nat
    BY AheadFinite
  <2> QED BY <2>1, <2>2, <2>3, SizeLemma, SMT DEF MaxOf
<1> QED BY TurnInitLemma, <1>1, <1>2, PTL DEF TurnSpec
=============================================================================
