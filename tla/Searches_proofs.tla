-------------------------- MODULE Searches_proofs --------------------------
(***************************************************************************)
(* Proofs about the two components that search: Retrieval, for any         *)
(* entities, relations, vectors and queries, and Traversals, for any graph *)
(* and limits.                                                             *)
(*                                                                         *)
(* Retrieval.  A pattern match is followed start by start (MatchInv).      *)
(* What a search answers is the front of a ranking (IsRanking), each       *)
(* element once and the best first; what is kept of a ranking is the       *)
(* ranking of what is kept, and nothing changes the stores before the      *)
(* answer is received.                                                     *)
(*                                                                         *)
(* Traversals.  Where walks lead is an induction on their length, and as   *)
(* many steps as there are nodes reach everything.  A loop keeps that      *)
(* whatever was found and is not queued has had its successors found       *)
(* (Effects, Shortest, Traverses, Counts, Depths); a recursion, that a     *)
(* path that is sought was found or leaves the calls for a node that one   *)
(* of them has yet to look at (Pursues).                                   *)
(***************************************************************************)
EXTENDS Retrieval, Traversals, SequenceTheorems, FiniteSetTheorems, TLAPS

\* A function on 1..n is a sequence of length n.
LEMMA FunctionIsSeq ==
    ASSUME NEW n \in Nat, NEW S, NEW f \in [1..n -> S]
    PROVE  f \in Seq(S) /\ Len(f) = n /\ DOMAIN f = 1..n
  OBVIOUS

\* The numbers from 1 to n are n.
LEMMA OneTo ==
    ASSUME NEW n \in Nat
    PROVE  IsFiniteSet(1..n) /\ Cardinality(1..n) = n
<1>1. IsFiniteSet(1..n) /\ Cardinality(1..n) = IF 1 > n THEN 0 ELSE n - 1 + 1
  <2>1. 1 \in Int /\ n \in Int
    OBVIOUS
  <2> QED
    BY <2>1, FS_Interval
<1>2. (IF 1 > n THEN 0 ELSE n - 1 + 1) = n
  OBVIOUS
<1> QED
  BY <1>1, <1>2

\* A subset that misses an element has fewer.
LEMMA Smaller ==
    ASSUME NEW S, IsFiniteSet(S), NEW T \in SUBSET S, NEW x \in S, x \notin T
    PROVE  IsFiniteSet(T) /\ Cardinality(T) < Cardinality(S)
<1>1. IsFiniteSet(T) /\ Cardinality(T) <= Cardinality(S) /\ Cardinality(S) # Cardinality(T)
  BY FS_Subset
<1>2. Cardinality(T) \in Nat /\ Cardinality(S) \in Nat
  BY <1>1, FS_CardinalityType
<1> QED
  BY <1>1, <1>2

-----------------------------------------------------------------------------
\* k is the sequence of those elements of s, at the places at[1] < at[2] ...,
\* that are in S.
Chosen(k, s, S, at) ==
    /\ Len(k) \in Nat /\ DOMAIN k = 1..Len(k)
    /\ at \in [1..Len(k) -> 1..Len(s)]
    /\ \A i, j \in 1..Len(k) : i < j => at[i] < at[j]
    /\ \A i \in 1..Len(k) : k[i] = s[at[i]] /\ k[i] \in S
    /\ \A j \in 1..Len(s) : s[j] \in S => \E i \in 1..Len(k) : at[i] = j

LEMMA KeptIsChosen ==
    ASSUME NEW T, NEW s \in Seq(T), NEW S
    PROVE  /\ Kept(s, S) \in Seq(T)
           /\ \E at : Chosen(Kept(s, S), s, S, at)
<1> DEFINE P == {i \in DOMAIN s : s[i] \in S}
           n == Cardinality(P)
           below(i) == {j \in P : j <= i}
           rank(i) == Cardinality(below(i))
           place(k) == CHOOSE i \in P : rank(i) = k
           f == [i \in P |-> rank(i)]
           at == [k \in 1..n |-> place(k)]
<1>1. Len(s) \in Nat /\ DOMAIN s = 1..Len(s) /\ P \subseteq 1..Len(s)
  OBVIOUS
<1>2. IsFiniteSet(P) /\ n \in Nat
  <2>1. IsFiniteSet(1..Len(s))
    BY <1>1, OneTo
  <2> QED
    BY <1>1, <2>1, FS_Subset, FS_CardinalityType
<1>3. Kept(s, S) = [k \in 1..n |-> s[place(k)]]
  BY DEF Kept
<1>4. ASSUME NEW i \in P PROVE IsFiniteSet(below(i)) /\ rank(i) \in 1..n /\ rank(i) \in Int
  <2>1. below(i) \in SUBSET P /\ below(i) # {}
    BY <1>1
  <2>2. IsFiniteSet(below(i)) /\ rank(i) <= n
    BY <1>2, <2>1, FS_Subset
  <2>3. rank(i) \in Nat /\ rank(i) # 0
    BY <2>1, <2>2, FS_CardinalityType, FS_EmptySet
  <2> QED
    BY <1>2, <2>2, <2>3
<1>5. ASSUME NEW i \in P, NEW j \in P, i < j PROVE rank(i) < rank(j)
  <2>1. below(i) \in SUBSET below(j) /\ j \in below(j) /\ j \notin below(i)
    BY <1>1, <1>5
  <2>2. IsFiniteSet(below(j))
    BY <1>4
  <2> HIDE DEF below, P, n
  <2> QED
    BY <2>1, <2>2, Smaller
<1> HIDE DEF rank
<1>6. \A i, j \in P : rank(i) = rank(j) => i = j
  <2>1. SUFFICES ASSUME NEW i \in P, NEW j \in P, i # j PROVE rank(i) # rank(j)
    OBVIOUS
  <2>2. rank(i) \in Int /\ rank(j) \in Int
    BY <1>4
  <2> HIDE DEF P
  <2>6. i \in Int /\ j \in Int
    BY <1>1
  <2>3. i < j \/ j < i
    BY <2>1, <2>6
  <2>4. CASE i < j
    BY <1>5, <2>2, <2>4
  <2>5. CASE j < i
    BY <1>5, <2>2, <2>5
  <2> QED
    BY <2>3, <2>4, <2>5
<1>7. \A k \in 1..n : \E i \in P : rank(i) = k
  <2>1. f \in Injection(P, 1..n)
    BY <1>4, <1>6 DEF Injection, IsInjective
  <2>2. IsFiniteSet(1..n) /\ Cardinality(1..n) = n
    BY <1>2, OneTo
  <2>3. f \in Surjection(P, 1..n)
    BY <2>1, <2>2, FS_Injection
  <2> QED
    BY <2>3 DEF Surjection
<1>8. \A k \in 1..n : place(k) \in P /\ rank(place(k)) = k
  BY <1>7
<1> HIDE DEF place
<1>9. at \in [1..n -> 1..Len(s)]
  BY <1>1, <1>8
<1>10. Kept(s, S) \in [1..n -> T]
  BY <1>1, <1>3, <1>8, ElementOfSeq
<1>11. Kept(s, S) \in Seq(T) /\ Len(Kept(s, S)) = n /\ DOMAIN Kept(s, S) = 1..n
  BY <1>2, <1>10, FunctionIsSeq
<1>12. \A i, j \in 1..n : i < j => at[i] < at[j]
  <2>1. SUFFICES ASSUME NEW i \in 1..n, NEW j \in 1..n, i < j PROVE place(i) < place(j)
    OBVIOUS
  <2>2. place(i) \in 1..Len(s) /\ place(j) \in 1..Len(s) /\ place(i) # place(j)
    BY <1>1, <1>8, <2>1
  <2>3. ~(place(j) < place(i))
    BY <1>2, <1>5, <1>8, <2>1
  <2> QED
    BY <2>2, <2>3
<1>13. \A i \in 1..n : Kept(s, S)[i] = s[at[i]] /\ Kept(s, S)[i] \in S
  BY <1>3, <1>8
<1>14. ASSUME NEW j \in 1..Len(s), s[j] \in S PROVE \E i \in 1..n : at[i] = j
  <2>1. j \in P
    BY <1>1, <1>14
  <2>2. rank(j) \in 1..n /\ place(rank(j)) = j
    BY <1>4, <1>6, <1>8, <2>1
  <2> QED
    BY <2>2
<1>15. \A j \in 1..Len(s) : s[j] \in S => \E i \in 1..n : at[i] = j
  BY <1>14
<1> HIDE DEF at, n
<1> QED
  BY <1>2, <1>9, <1>11, <1>12, <1>13, <1>15 DEF Chosen
-----------------------------------------------------------------------------
Names == ToSet(Entities)

IsRelation(r) == r = <<r[1], r[2], r[3]>> /\ r[1] \in Names /\ r[3] \in Names

\* What the stores hold.
StoresInv ==
    /\ hasGraph \in BOOLEAN
    /\ \A r \in relations : IsRelation(r)
    /\ vectors \in [DOMAIN vectors -> Int] /\ DOMAIN vectors \subseteq Names

\* The first n hops of a path are relations of es, to the pattern's concepts.
Follows(p, n, q, es, g) ==
    \A i \in 1..n : /\ <<p[i], q.pattern[i].type, p[i + 1]>> \in es
                    /\ g \/ ConceptOf[p[i + 1]] = q.pattern[i].concept

Paths(q) == [1..(Len(q.pattern) + 1) -> Names]

Ambiguous(q) ==
    \E n \in Names, i \in 1..Len(q.pattern) : Cardinality(Neighbors(n, q.pattern[i])) > 1

\* How many starts a match is done with.
Done(m) == Len(Starts(m.query)) - Len(m.todo) - IF m.path = << >> THEN 0 ELSE 1

\* A match under way.
Match(q, asked, todo, path, paths) ==
    [on |-> TRUE, query |-> q, given |-> asked, todo |-> todo, path |-> path, paths |-> paths]

IsMatch(m) == m = Match(m.query, m.given, m.todo, m.path, m.paths)

\* The starts are taken in their order.
InOrder(m) ==
    /\ IsMatch(m) /\ m.query \in MatchQueries
    /\ m.todo \in Seq(Names) /\ m.path \in Seq(Names) /\ m.paths \in Seq(Seq(Names))
    /\ Done(m) \in Nat
    /\ \A i \in 1..Len(m.todo) :
          m.todo[i] = Starts(m.query)[Len(Starts(m.query)) - Len(m.todo) + i]
    /\ m.path # << >> => /\ m.path[1] = Starts(m.query)[Done(m) + 1]
                         /\ Len(m.path) <= Len(m.query.pattern) + 1
                         /\ Len(m.paths) < m.query.limit
    /\ Len(m.paths) <= m.query.limit

\* What was found is there, once for a start.
PathsFound(m, es, g) ==
    /\ m.path # << >> => Follows(m.path, Len(m.path) - 1, m.query, es, g)
    /\ \A k \in 1..Len(m.paths) :
          /\ Len(m.paths[k]) = Len(m.query.pattern) + 1
          /\ Follows(m.paths[k], Len(m.query.pattern), m.query, es, g)
          /\ \E j \in 1..Done(m) : m.paths[k][1] = Starts(m.query)[j]
    /\ \A k, l \in 1..Len(m.paths) : m.paths[k][1] = m.paths[l][1] => k = l

\* No start that the match is done with was missed; of the one under way, every
\* whole path begins with what there is of it.
NoneMissed(m, g) ==
    \A p \in Paths(m.query) : Follows(p, Len(m.query.pattern), m.query, m.given, g) =>
        /\ \A j \in 1..Done(m) : p[1] = Starts(m.query)[j] =>
              \E k \in 1..Len(m.paths) : m.paths[k][1] = p[1]
        /\ m.path # << >> /\ p[1] = m.path[1] => \A i \in 1..Len(m.path) : p[i] = m.path[i]

\* Every whole path that begins with what there is of one goes on to x.
GoesOnTo(m, g, x) ==
    \A p \in Paths(m.query) :
        /\ Follows(p, Len(m.query.pattern), m.query, m.given, g)
        /\ \A i \in 1..Len(m.path) : p[i] = m.path[i]
        => p[Len(m.path) + 1] = x

\* Of a pattern that is never ambiguous no start with a match is missed, whatever
\* relations are added meanwhile.
MatchInv ==
    \/ match = NoMatch
    \/ /\ InOrder(match)
       /\ match.given \subseteq relations
       /\ PathsFound(match, relations, hasGraph)
       /\ Ambiguous(match.query) \/ NoneMissed(match, hasGraph)

-----------------------------------------------------------------------------
LEMMA EntitiesFacts ==
    /\ Entities \in Seq(Names) /\ Len(Entities) \in Nat /\ DOMAIN Entities = 1..Len(Entities)
    /\ \A i, j \in 1..Len(Entities) : Entities[i] = Entities[j] => i = j
    /\ IsFiniteSet(Names)
<1>1. Entities \in Seq(Names) /\ \A i, j \in DOMAIN Entities : Entities[i] = Entities[j] => i = j
  BY RetrievalAssumption DEF IsInjective, Names
<1>2. Len(Entities) \in Nat /\ DOMAIN Entities = 1..Len(Entities)
  BY <1>1
<1>3. Entities \in Surjection(1..Len(Entities), Names)
  <2>1. Entities \in [1..Len(Entities) -> Names]
    BY <1>1, <1>2
  <2>2. \A n \in Names : \E i \in 1..Len(Entities) : Entities[i] = n
    BY <1>2 DEF Names, ToSet
  <2> QED
    BY <2>1, <2>2 DEF Surjection
<1>4. IsFiniteSet(Names)
  BY <1>2, <1>3, OneTo, FS_Surjection
<1> QED
  BY <1>1, <1>2, <1>4

\* The starts of a match are entities, each once.
LEMMA StartsFacts ==
    ASSUME NEW q
    PROVE  /\ Starts(q) \in Seq(Names) /\ Len(Starts(q)) \in Nat
           /\ \A i, j \in 1..Len(Starts(q)) : Starts(q)[i] = Starts(q)[j] => i = j
<1> DEFINE S == {n \in ToSet(Entities) : ConceptOf[n] = q.start /\ n \in q.filter}
<1>1. Starts(q) = Kept(Entities, S)
  BY DEF Starts
<1> HIDE DEF S
<1>2. Starts(q) \in Seq(Names)
  BY <1>1, EntitiesFacts, KeptIsChosen
<1>3. PICK at : Chosen(Starts(q), Entities, S, at)
  BY <1>1, EntitiesFacts, KeptIsChosen
<1>4. \A i, j \in 1..Len(Starts(q)) : Starts(q)[i] = Starts(q)[j] => i = j
  <2>1. SUFFICES ASSUME NEW i \in 1..Len(Starts(q)), NEW j \in 1..Len(Starts(q)),
                        Starts(q)[i] = Starts(q)[j]
                 PROVE  i = j
    OBVIOUS
  <2>2. at[i] \in 1..Len(Entities) /\ at[j] \in 1..Len(Entities)
        /\ Entities[at[i]] = Entities[at[j]]
    BY <1>3, <2>1 DEF Chosen
  <2>3. at[i] = at[j]
    BY <2>2, EntitiesFacts
  <2>4. i \in Int /\ j \in Int /\ ~(i < j) /\ ~(j < i)
    BY <1>3, <2>1, <2>2, <2>3 DEF Chosen
  <2> QED
    BY <2>4
<1> QED
  BY <1>2, <1>4

LEMMA QueryFacts ==
    ASSUME NEW q \in MatchQueries
    PROVE  q.limit \in Nat /\ Len(q.pattern) \in Nat /\ "dimension" \notin DOMAIN q
  BY RetrievalAssumption
LEMMA MatchFields ==
    ASSUME NEW m, IsMatch(m)
    PROVE  \E q, asked, a, b, c : m = Match(q, asked, a, b, c)
  BY DEF IsMatch

\* What a step changes of a match under way.
LEMMA PathMoved ==
    ASSUME NEW m, IsMatch(m), NEW path, NEW n, n = [m EXCEPT !.path = path]
    PROVE  /\ n.query = m.query /\ n.given = m.given /\ n.todo = m.todo
           /\ n.path = path /\ n.paths = m.paths /\ IsMatch(n)
<1>1. PICK q, asked, a, b, c : m = Match(q, asked, a, b, c)
  BY MatchFields
<1> QED
  BY <1>1 DEF Match, IsMatch

\* The next start is taken up.
LEMMA TakenUp ==
    ASSUME NEW m, InOrder(m), m.path = << >>, m.todo # << >>,
           Len(m.paths) < m.query.limit,
           NEW n, n = [m EXCEPT !.path = <<Head(m.todo)>>, !.todo = Tail(m.todo)],
           NEW es, NEW g, PathsFound(m, es, g)
    PROVE  /\ InOrder(n) /\ n.query = m.query /\ n.given = m.given
           /\ PathsFound(n, es, g)
           /\ NoneMissed(m, g) => NoneMissed(n, g)
<1> DEFINE S == Starts(m.query)
<1>1. IsMatch(m) /\ m.todo \in Seq(Names) /\ m.paths \in Seq(Seq(Names)) /\ m.query \in MatchQueries
  BY DEF InOrder
<1>2. /\ n.query = m.query /\ n.given = m.given /\ n.todo = Tail(m.todo)
      /\ n.path = <<Head(m.todo)>> /\ n.paths = m.paths /\ IsMatch(n)
  <2>1. PICK q, asked, a, b, c : m = Match(q, asked, a, b, c)
    BY <1>1, MatchFields
  <2>2. m.todo = a
    BY <2>1 DEF Match
  <2>3. ASSUME NEW h, NEW r, n = [m EXCEPT !.path = h, !.todo = r]
        PROVE  n.query = q /\ n.given = asked /\ n.todo = r /\ n.path = h /\ n.paths = c /\ IsMatch(n)
    BY <2>1, <2>3 DEF Match, IsMatch
  <2>4. n.query = q /\ n.given = asked /\ n.todo = Tail(m.todo) /\ n.path = <<Head(m.todo)>>
        /\ n.paths = c /\ IsMatch(n)
    BY <2>3
  <2> QED
    BY <2>1, <2>4 DEF Match
<1>3. /\ Len(m.todo) \in Nat \ {0} /\ Len(S) \in Nat /\ Len(m.query.pattern) \in Nat
      /\ Len(n.todo) = Len(m.todo) - 1 /\ n.todo \in Seq(Names)
      /\ \A i \in 1..Len(n.todo) : n.todo[i] = m.todo[i + 1]
      /\ n.path \in Seq(Names) /\ Len(n.path) = 1 /\ n.path[1] = m.todo[1] /\ n.path # << >>
  <2>1. Len(S) \in Nat /\ Len(m.query.pattern) \in Nat
    BY <1>1, StartsFacts, QueryFacts
  <2>2. Len(m.todo) \in Nat \ {0} /\ Head(m.todo) = m.todo[1] /\ Head(m.todo) \in Names
    BY <1>1
  <2>3. /\ Tail(m.todo) \in Seq(Names) /\ Len(Tail(m.todo)) = Len(m.todo) - 1
        /\ \A i \in 1..Len(Tail(m.todo)) : Tail(m.todo)[i] = m.todo[i + 1]
    BY <1>1, HeadTailProperties
  <2>4. /\ <<Head(m.todo)>> \in Seq(Names) /\ Len(<<Head(m.todo)>>) = 1
        /\ <<Head(m.todo)>>[1] = Head(m.todo) /\ <<Head(m.todo)>> # << >>
    BY <2>2
  <2> QED
    BY <1>2, <2>1, <2>2, <2>3, <2>4
<1>4. Done(n) = Done(m) /\ Done(m) = Len(S) - Len(m.todo) /\ Done(m) \in Nat
  <2>1. Done(m) = Len(S) - Len(m.todo)
    BY <1>3 DEF Done
  <2>2. Done(n) = Len(S) - (Len(m.todo) - 1) - 1
    BY <1>2, <1>3 DEF Done
  <2>3. Done(m) \in Nat
    BY DEF InOrder
  <2> HIDE DEF S
  <2> QED
    BY <1>3, <2>1, <2>2, <2>3
<1>5. \A i \in 1..Len(m.todo) : m.todo[i] = S[Done(m) + i]
  BY <1>3, <1>4 DEF InOrder
<1>6. InOrder(n)
  <2>1. \A i \in 1..Len(n.todo) : n.todo[i] = S[Len(S) - Len(n.todo) + i]
    <3>1. SUFFICES ASSUME NEW i \in 1..Len(n.todo)
                   PROVE  n.todo[i] = S[Len(S) - Len(n.todo) + i]
      OBVIOUS
    <3>2. i + 1 \in 1..Len(m.todo) /\ Done(m) + (i + 1) = Len(S) - Len(n.todo) + i
      <4> HIDE DEF S
      <4>1. i \in Int /\ 1 <= i /\ i <= Len(m.todo) - 1
        BY <1>3, <3>1
      <4>2. Len(m.todo) \in Int /\ Len(S) \in Int /\ Len(n.todo) = Len(m.todo) - 1
        BY <1>3
      <4>3. Done(m) = Len(S) - Len(m.todo)
        BY <1>4
      <4> QED
        BY <4>1, <4>2, <4>3
    <3>3. n.todo[i] = m.todo[i + 1]
      BY <1>3
    <3>4. m.todo[i + 1] = S[Done(m) + (i + 1)]
      BY <1>5, <3>2
    <3> QED
      BY <3>2, <3>3, <3>4
  <2>2. n.path[1] = S[Done(n) + 1]
    <3>1. 1 \in 1..Len(m.todo)
      BY <1>3
    <3>2. m.todo[1] = S[Done(m) + 1]
      BY <1>5, <3>1
    <3> QED
      BY <1>3, <1>4, <3>2
  <2>3. Len(n.path) <= Len(n.query.pattern) + 1
    BY <1>2, <1>3
  <2> HIDE DEF S
  <2> QED
    BY <1>1, <1>2, <1>3, <1>4, <2>1, <2>2, <2>3 DEF InOrder, S
<1>7. PathsFound(n, es, g)
  <2>1. Len(n.path) - 1 = 0
    BY <1>3
  <2>2. Follows(n.path, 0, n.query, es, g)
    BY DEF Follows
  <2>3. Follows(n.path, Len(n.path) - 1, n.query, es, g)
    BY <2>1, <2>2
  <2>4. ASSUME NEW k \in 1..Len(m.paths)
        PROVE  /\ Len(m.paths[k]) = Len(m.query.pattern) + 1
               /\ Follows(m.paths[k], Len(m.query.pattern), m.query, es, g)
               /\ \E j \in 1..Done(m) : m.paths[k][1] = Starts(m.query)[j]
    BY DEF PathsFound
  <2>5. \A k, l \in 1..Len(n.paths) : n.paths[k][1] = n.paths[l][1] => k = l
    BY <1>2 DEF PathsFound
  <2>6. ASSUME NEW k \in 1..Len(n.paths)
        PROVE  /\ Len(n.paths[k]) = Len(n.query.pattern) + 1
               /\ Follows(n.paths[k], Len(n.query.pattern), n.query, es, g)
               /\ \E j \in 1..Done(n) : n.paths[k][1] = Starts(n.query)[j]
    <3>1. n.paths = m.paths /\ n.query = m.query /\ Done(n) = Done(m)
      BY <1>2, <1>4
    <3> QED
      BY <2>4, <3>1
  <2> QED
    BY <2>3, <2>5, <2>6 DEF PathsFound
<1>8. ASSUME NoneMissed(m, g) PROVE NoneMissed(n, g)
  <2>1. SUFFICES ASSUME NEW p \in Paths(m.query),
                        Follows(p, Len(m.query.pattern), m.query, m.given, g)
                 PROVE  /\ \A j \in 1..Done(m) : p[1] = S[j] =>
                              \E k \in 1..Len(m.paths) : m.paths[k][1] = p[1]
                        /\ p[1] = n.path[1] => \A i \in 1..1 : p[i] = n.path[i]
    <3>1. Len(n.path) = 1 /\ Done(n) = Done(m)
      BY <1>3, <1>4
    <3> QED
      BY <1>2, <3>1 DEF NoneMissed
  <2>2. p[1] = n.path[1] => \A i \in 1..1 : p[i] = n.path[i]
    OBVIOUS
  <2> QED
    BY <1>8, <2>1, <2>2 DEF NoneMissed
<1> QED
  BY <1>2, <1>6, <1>7, <1>8

\* The start is left without a path.
LEMMA LeftWithout ==
    ASSUME NEW m, InOrder(m), m.path # << >>,
           NEW n, n = [m EXCEPT !.path = << >>],
           NEW es, NEW g, PathsFound(m, es, g)
    PROVE  /\ InOrder(n) /\ n.query = m.query /\ n.given = m.given
           /\ PathsFound(n, es, g)
           /\ NoneMissed(m, g)
                /\ ~(\E p \in Paths(m.query) :
                        /\ Follows(p, Len(m.query.pattern), m.query, m.given, g)
                        /\ p[1] = m.path[1])
              => NoneMissed(n, g)
<1> DEFINE S == Starts(m.query)
<1>1. /\ n.query = m.query /\ n.given = m.given /\ n.todo = m.todo
      /\ n.path = << >> /\ n.paths = m.paths /\ IsMatch(n)
  <2>1. IsMatch(m)
    BY DEF InOrder
  <2> QED
    BY <2>1, PathMoved
<1>2. Len(S) \in Nat /\ Len(m.todo) \in Nat
  BY StartsFacts DEF InOrder
<1>3. Done(n) = Done(m) + 1 /\ Done(m) \in Nat
  BY <1>1, <1>2 DEF Done, InOrder
<1>4. InOrder(n)
  <2>1. << >> \in Seq(Names) /\ Done(n) \in Nat
    BY <1>3
  <2> QED
    BY <1>1, <2>1 DEF InOrder
<1>5. PathsFound(n, es, g)
  BY <1>1, <1>3 DEF PathsFound
<1>6. ASSUME NoneMissed(m, g),
             ~(\E p \in Paths(m.query) :
                 /\ Follows(p, Len(m.query.pattern), m.query, m.given, g)
                 /\ p[1] = m.path[1])
      PROVE  NoneMissed(n, g)
  <2>1. SUFFICES ASSUME NEW p \in Paths(m.query),
                        Follows(p, Len(m.query.pattern), m.query, m.given, g),
                        NEW j \in 1..Done(n), p[1] = S[j]
                 PROVE  \E k \in 1..Len(m.paths) : m.paths[k][1] = p[1]
    BY <1>1 DEF NoneMissed
  <2>2. m.path[1] = S[Done(m) + 1]
    BY DEF InOrder
  <2>3. j # Done(m) + 1
    BY <1>6, <2>1, <2>2
  <2>4. j \in 1..Done(m)
    BY <1>3, <2>1, <2>3
  <2> QED
    BY <1>6, <2>1, <2>4 DEF NoneMissed
<1> QED
  BY <1>1, <1>4, <1>5, <1>6
\* The path grows by a neighbor.
LEMMA Lengthened ==
    ASSUME NEW m, InOrder(m), m.path # << >>, Len(m.path) <= Len(m.query.pattern),
           NEW x \in Names, NEW n, n = [m EXCEPT !.path = Append(m.path, x)],
           NEW es, NEW g, PathsFound(m, es, g),
           <<Last(m.path), m.query.pattern[Len(m.path)].type, x>> \in es,
           g \/ ConceptOf[x] = m.query.pattern[Len(m.path)].concept
    PROVE  /\ InOrder(n) /\ n.query = m.query /\ n.given = m.given
           /\ PathsFound(n, es, g)
           /\ NoneMissed(m, g) /\ GoesOnTo(m, g, x) => NoneMissed(n, g)
<1> DEFINE L == Len(m.path)
           path == Append(m.path, x)
<1>1. /\ n.query = m.query /\ n.given = m.given /\ n.todo = m.todo
      /\ n.path = path /\ n.paths = m.paths /\ IsMatch(n)
  <2>1. PICK q, asked, a, b, c : m = Match(q, asked, a, b, c)
    BY MatchFields DEF InOrder
  <2>2. ASSUME NEW y, n = [m EXCEPT !.path = y]
        PROVE  n.query = q /\ n.given = asked /\ n.todo = a /\ n.path = y
               /\ n.paths = c /\ IsMatch(n)
    BY <2>1, <2>2 DEF Match, IsMatch
  <2>3. n.query = q /\ n.given = asked /\ n.todo = a /\ n.path = path
        /\ n.paths = c /\ IsMatch(n)
    BY <2>2
  <2> QED
    BY <2>1, <2>3 DEF Match
<1>2. /\ m.path \in Seq(Names) /\ L \in Nat \ {0} /\ m.query \in MatchQueries
      /\ Len(m.query.pattern) \in Nat
  <2>1. m.path \in Seq(Names) /\ m.query \in MatchQueries
    BY DEF InOrder
  <2> QED
    BY <2>1, QueryFacts
<1>3. /\ path \in Seq(Names) /\ Len(path) = L + 1 /\ path # << >>
      /\ \A i \in 1..L : path[i] = m.path[i]
      /\ path[L + 1] = x /\ path[1] = m.path[1]
  BY <1>2, AppendProperties
<1> HIDE DEF path
<1>4. Done(n) = Done(m)
  BY <1>1, <1>3 DEF Done
<1>5. InOrder(n)
  <2>1. path[1] = Starts(m.query)[Done(m) + 1] /\ Len(m.paths) < m.query.limit
    BY <1>3 DEF InOrder
  <2>2. Len(path) <= Len(m.query.pattern) + 1
    BY <1>2, <1>3
  <2> QED
    BY <1>1, <1>3, <1>4, <2>1, <2>2 DEF InOrder
<1>6. PathsFound(n, es, g)
  <2>1. ASSUME NEW i \in 1..L
        PROVE  /\ <<path[i], m.query.pattern[i].type, path[i + 1]>> \in es
               /\ g \/ ConceptOf[path[i + 1]] = m.query.pattern[i].concept
    <3>1. CASE i = L
      BY <1>2, <1>3, <3>1 DEF Last
    <3>2. CASE i # L
      <4>1. i \in 1..(L - 1) /\ i + 1 \in 1..L
        BY <1>2, <3>2
      <4>2. /\ <<m.path[i], m.query.pattern[i].type, m.path[i + 1]>> \in es
            /\ g \/ ConceptOf[m.path[i + 1]] = m.query.pattern[i].concept
        BY <4>1 DEF PathsFound, Follows
      <4> QED
        BY <1>3, <4>1, <4>2
    <3> QED
      BY <3>1, <3>2
  <2>2. Len(path) - 1 = L
    BY <1>2, <1>3
  <2>3. Follows(n.path, Len(n.path) - 1, n.query, es, g)
    BY <1>1, <2>1, <2>2 DEF Follows
  <2>4. ASSUME NEW k \in 1..Len(n.paths)
        PROVE  /\ Len(n.paths[k]) = Len(n.query.pattern) + 1
               /\ Follows(n.paths[k], Len(n.query.pattern), n.query, es, g)
               /\ \E j \in 1..Done(n) : n.paths[k][1] = Starts(n.query)[j]
    BY <1>1, <1>4 DEF PathsFound
  <2>5. \A k, l \in 1..Len(n.paths) : n.paths[k][1] = n.paths[l][1] => k = l
    BY <1>1 DEF PathsFound
  <2> QED
    BY <2>3, <2>4, <2>5 DEF PathsFound
<1>7. ASSUME NoneMissed(m, g), GoesOnTo(m, g, x)
      PROVE  NoneMissed(n, g)
  <2>1. SUFFICES ASSUME NEW p \in Paths(m.query),
                        Follows(p, Len(m.query.pattern), m.query, m.given, g)
                 PROVE  /\ \A j \in 1..Done(m) : p[1] = Starts(m.query)[j] =>
                              \E k \in 1..Len(m.paths) : m.paths[k][1] = p[1]
                        /\ p[1] = path[1] => \A i \in 1..(L + 1) : p[i] = path[i]
    BY <1>1, <1>3, <1>4 DEF NoneMissed
  <2>2. \A j \in 1..Done(m) : p[1] = Starts(m.query)[j] =>
            \E k \in 1..Len(m.paths) : m.paths[k][1] = p[1]
    BY <1>7, <2>1 DEF NoneMissed
  <2>3. ASSUME p[1] = path[1], NEW i \in 1..(L + 1) PROVE p[i] = path[i]
    <3>1. \A l \in 1..L : p[l] = m.path[l]
      BY <1>3, <1>7, <2>1, <2>3 DEF NoneMissed
    <3>2. p[L + 1] = x
      BY <1>7, <2>1, <3>1 DEF GoesOnTo
    <3>3. CASE i = L + 1
      BY <1>3, <3>2, <3>3
    <3>4. CASE i # L + 1
      <4>1. i \in 1..L
        BY <1>2, <3>4
      <4> QED
        BY <1>3, <3>1, <4>1
    <3> QED
      BY <3>3, <3>4
  <2> QED
    BY <2>2, <2>3
<1> QED
  BY <1>1, <1>5, <1>6, <1>7

\* A path is complete.
LEMMA Completed ==
    ASSUME NEW m, InOrder(m), m.path # << >>, Len(m.path) > Len(m.query.pattern),
           NEW n, n = [m EXCEPT !.paths = Append(m.paths, m.path), !.path = << >>],
           NEW es, NEW g, PathsFound(m, es, g)
    PROVE  /\ InOrder(n) /\ n.query = m.query /\ n.given = m.given
           /\ PathsFound(n, es, g)
           /\ NoneMissed(m, g) => NoneMissed(n, g)
<1> DEFINE S == Starts(m.query)
           K == Len(m.paths)
           paths == Append(m.paths, m.path)
<1>1. /\ n.query = m.query /\ n.given = m.given /\ n.todo = m.todo
      /\ n.path = << >> /\ n.paths = paths /\ IsMatch(n)
  <2>1. PICK q, asked, a, b, c : m = Match(q, asked, a, b, c)
    BY MatchFields DEF InOrder
  <2>2. ASSUME NEW ps, n = [m EXCEPT !.paths = ps, !.path = << >>]
        PROVE  n.query = q /\ n.given = asked /\ n.todo = a /\ n.path = << >>
               /\ n.paths = ps /\ IsMatch(n)
    BY <2>1, <2>2 DEF Match, IsMatch
  <2>3. n.query = q /\ n.given = asked /\ n.todo = a /\ n.path = << >>
        /\ n.paths = paths /\ IsMatch(n)
    BY <2>2
  <2> QED
    BY <2>1, <2>3 DEF Match
<1>2. /\ m.path \in Seq(Names) /\ m.paths \in Seq(Seq(Names)) /\ K \in Nat
      /\ Len(m.query.pattern) \in Nat /\ m.query.limit \in Nat /\ K < m.query.limit
      /\ Len(m.path) = Len(m.query.pattern) + 1 /\ Done(m) \in Nat
      /\ m.path[1] = S[Done(m) + 1] /\ Len(m.todo) \in Nat /\ Len(S) \in Nat
  <2>1. /\ m.path \in Seq(Names) /\ m.paths \in Seq(Seq(Names)) /\ m.query \in MatchQueries
        /\ Len(m.path) <= Len(m.query.pattern) + 1 /\ K < m.query.limit /\ Done(m) \in Nat
        /\ m.path[1] = S[Done(m) + 1] /\ m.todo \in Seq(Names)
    BY DEF InOrder
  <2>2. Len(m.query.pattern) \in Nat /\ m.query.limit \in Nat /\ Len(S) \in Nat
    BY <2>1, QueryFacts, StartsFacts
  <2>3. Len(m.path) = Len(m.query.pattern) + 1
    BY <2>1, <2>2
  <2> QED
    BY <2>1, <2>2, <2>3
<1>3. /\ paths \in Seq(Seq(Names)) /\ Len(paths) = K + 1
      /\ \A k \in 1..K : paths[k] = m.paths[k]
      /\ paths[K + 1] = m.path
  BY <1>2, AppendProperties
<1> HIDE DEF paths
<1>4. Done(n) = Done(m) + 1
  BY <1>1, <1>2 DEF Done
<1>5. InOrder(n)
  <2>1. << >> \in Seq(Names)
    OBVIOUS
  <2>2. K + 1 <= m.query.limit /\ Done(m) + 1 \in Nat
    BY <1>2
  <2>3. Done(n) \in Nat /\ Len(paths) <= m.query.limit
    BY <1>3, <1>4, <2>2
  <2> QED
    BY <1>1, <1>3, <2>1, <2>3 DEF InOrder
<1>6. ASSUME NEW k \in 1..K
      PROVE  /\ Len(m.paths[k]) = Len(m.query.pattern) + 1
             /\ Follows(m.paths[k], Len(m.query.pattern), m.query, es, g)
             /\ \E j \in 1..Done(m) : m.paths[k][1] = S[j]
             /\ m.paths[k][1] # m.path[1]
  <2>1. /\ Len(m.paths[k]) = Len(m.query.pattern) + 1
        /\ Follows(m.paths[k], Len(m.query.pattern), m.query, es, g)
    BY DEF PathsFound
  <2>2. PICK j \in 1..Done(m) : m.paths[k][1] = S[j]
    BY DEF PathsFound
  <2>3. S[j] # S[Done(m) + 1]
    <3> HIDE DEF S
    <3>1. Done(m) = Len(S) - Len(m.todo) - 1
      BY DEF Done, S
    <3>3. Len(S) \in Nat /\ Len(m.todo) \in Nat /\ Done(m) \in Nat
      BY <1>2
    <3>2. j \in 1..Len(S) /\ Done(m) + 1 \in 1..Len(S) /\ j # Done(m) + 1
      BY <3>1, <3>3
    <3> QED
      BY <3>2, StartsFacts DEF S
  <2> QED
    BY <1>2, <2>1, <2>2, <2>3
<1>7. PathsFound(n, es, g)
  <2>1. ASSUME NEW k \in 1..Len(n.paths)
        PROVE  /\ Len(n.paths[k]) = Len(n.query.pattern) + 1
               /\ Follows(n.paths[k], Len(n.query.pattern), n.query, es, g)
               /\ \E j \in 1..Done(n) : n.paths[k][1] = Starts(n.query)[j]
    <3>1. CASE k = K + 1
      <4>1. Follows(m.path, Len(m.query.pattern), m.query, es, g)
        <5>1. Len(m.path) - 1 = Len(m.query.pattern)
          BY <1>2
        <5> QED
          BY <5>1 DEF PathsFound
      <4>2. Done(m) + 1 \in 1..Done(n)
        BY <1>2, <1>4
      <4> QED
        BY <1>1, <1>2, <1>3, <3>1, <4>1, <4>2
    <3>2. CASE k # K + 1
      <4>1. k \in 1..K
        BY <1>1, <1>2, <1>3, <3>2
      <4>2. \A j \in 1..Done(m) : j \in 1..(Done(m) + 1)
        BY <1>2
      <4> QED
        BY <1>1, <1>3, <1>4, <1>6, <4>1, <4>2
    <3> QED
      BY <3>1, <3>2
  <2>2. ASSUME NEW k \in 1..Len(n.paths), NEW l \in 1..Len(n.paths),
               n.paths[k][1] = n.paths[l][1]
        PROVE  k = l
    <3>1. k \in 1..(K + 1) /\ l \in 1..(K + 1)
      BY <1>1, <1>3
    <3>2. CASE k \in 1..K /\ l \in 1..K
      BY <1>1, <1>3, <2>2, <3>2 DEF PathsFound
    <3>3. CASE k = K + 1 /\ l \in 1..K
      BY <1>1, <1>3, <1>6, <2>2, <3>3
    <3>4. CASE k \in 1..K /\ l = K + 1
      BY <1>1, <1>3, <1>6, <2>2, <3>4
    <3> QED
      BY <1>2, <3>1, <3>2, <3>3, <3>4
  <2> QED
    BY <1>1, <2>1, <2>2 DEF PathsFound
<1>8. ASSUME NoneMissed(m, g) PROVE NoneMissed(n, g)
  <2>1. SUFFICES ASSUME NEW p \in Paths(m.query),
                        Follows(p, Len(m.query.pattern), m.query, m.given, g),
                        NEW j \in 1..(Done(m) + 1), p[1] = S[j]
                 PROVE  \E k \in 1..(K + 1) : paths[k][1] = p[1]
    <3> HIDE DEF S, K
    <3>1. n.path = << >> /\ n.paths = paths /\ Len(paths) = K + 1
          /\ n.query = m.query /\ n.given = m.given /\ Done(n) = Done(m) + 1
      BY <1>1, <1>3, <1>4
    <3> QED
      BY <2>1, <3>1 DEF NoneMissed, S
  <2>2. CASE j = Done(m) + 1
    <3>1. paths[K + 1][1] = p[1] /\ K + 1 \in 1..(K + 1)
      BY <1>2, <1>3, <2>1, <2>2
    <3> QED
      BY <3>1
  <2>3. CASE j # Done(m) + 1
    <3>1. j \in 1..Done(m)
      BY <1>2, <2>3
    <3>4. \A i \in 1..Done(m) : p[1] = S[i] => \E k \in 1..K : m.paths[k][1] = p[1]
      BY <1>8, <2>1 DEF NoneMissed
    <3>2. PICK k \in 1..K : m.paths[k][1] = p[1]
      BY <2>1, <3>1, <3>4
    <3>3. paths[k] = m.paths[k]
      BY <1>3, <3>2
    <3>5. k \in 1..(K + 1)
      BY <1>2, <3>2
    <3> QED
      BY <3>2, <3>3, <3>5
  <2> QED
    BY <2>2, <2>3
<1> QED
  BY <1>1, <1>5, <1>7, <1>8
-----------------------------------------------------------------------------
\* The last of some places of a sequence.
LEMMA MaxOfPlaces ==
    ASSUME NEW n \in Nat, NEW S \in SUBSET (1..n), S # {}
    PROVE  Max(S) \in S
<1> DEFINE s == [i \in 1..n |-> i]
           k == Kept(s, S)
           Foremost(x) == \A y \in S : x >= y
<1>1. s \in Seq(Nat) /\ Len(s) = n /\ \A i \in 1..n : s[i] = i
  <2>1. s \in [1..n -> Nat]
    OBVIOUS
  <2> QED
    BY <2>1, FunctionIsSeq
<1>2. PICK at : Chosen(k, s, S, at)
  BY <1>1, KeptIsChosen
<1> HIDE DEF s, k
<1>3. \A y \in S : \E i \in 1..Len(k) : at[i] = y
  BY <1>1, <1>2 DEF Chosen
<1>4. Len(k) \in Nat /\ Len(k) # 0
  <2>1. Len(k) \in Nat
    BY <1>2 DEF Chosen
  <2>2. PICK y \in S : TRUE
    OBVIOUS
  <2>3. PICK i \in 1..Len(k) : at[i] = y
    BY <1>3
  <2> QED
    BY <2>1, <2>3
<1>5. at[Len(k)] \in S
  <2>1. Len(k) \in 1..Len(k)
    BY <1>4
  <2>2. at[Len(k)] \in 1..n /\ k[Len(k)] = s[at[Len(k)]] /\ k[Len(k)] \in S
    BY <1>1, <1>2, <2>1 DEF Chosen
  <2> QED
    BY <1>1, <2>2
<1>6. \A y \in S : at[Len(k)] >= y
  <2>1. SUFFICES ASSUME NEW y \in S PROVE at[Len(k)] >= y
    OBVIOUS
  <2>2. PICK i \in 1..Len(k) : at[i] = y
    BY <1>3
  <2>3. CASE i = Len(k)
    BY <1>5, <2>2, <2>3
  <2>4. CASE i # Len(k)
    <3>1. i < Len(k) /\ Len(k) \in 1..Len(k)
      BY <1>4, <2>2, <2>4
    <3>2. at[i] < at[Len(k)]
      BY <1>2, <2>2, <3>1 DEF Chosen
    <3>3. y \in 1..n /\ at[Len(k)] \in 1..n
      BY <1>5, <2>1
    <3> QED
      BY <2>2, <3>2, <3>3
  <2> QED
    BY <2>3, <2>4
<1>7. \E x \in S : Foremost(x)
  BY <1>5, <1>6
<1>8. Max(S) = CHOOSE x \in S : Foremost(x)
  BY DEF Max
<1> HIDE DEF Foremost
<1> QED
  BY <1>7, <1>8

LEMMA StoresInit == Init => StoresInv
<1> SUFFICES ASSUME Init PROVE StoresInv
  OBVIOUS
<1>1. \A r \in relations : IsRelation(r)
  BY RetrievalAssumption DEF Init, IsRelation, Names
<1>2. vectors \in [DOMAIN vectors -> Int] /\ DOMAIN vectors \subseteq Names
  BY DEF Init
<1> QED
  BY <1>1, <1>2 DEF Init, StoresInv

LEMMA StoresStep == StoresInv /\ [Next]_vars => StoresInv'
<1> SUFFICES ASSUME StoresInv, [Next]_vars PROVE StoresInv'
  OBVIOUS
<1> USE DEF StoresInv
<1>1. ASSUME NEW d \in 1..2, Initialize(d) PROVE StoresInv'
  BY <1>1 DEF Initialize, Change
<1>2. CASE Close
  BY <1>2 DEF Close, Change
<1>3. ASSUME NEW batch \in Batches, AddVectors(batch) PROVE StoresInv'
  <2> DEFINE added == {i \in DOMAIN batch : \A j \in 1..i : batch[j].dimension = dimension}
             those(id) == {i \in added : batch[i].id = id}
             D == DOMAIN vectors \cup {batch[i].id : i \in added}
  <2>1. /\ vectors' = [id \in D |-> IF those(id) = {} THEN vectors[id]
                                     ELSE batch[Max(those(id))].similarity]
        /\ UNCHANGED <<hasGraph, relations>>
    BY <1>3 DEF AddVectors
  <2>2. /\ Len(batch) \in Nat /\ DOMAIN batch = 1..Len(batch)
        /\ \A i \in DOMAIN batch : batch[i].id \in Names /\ batch[i].similarity \in Int
    BY RetrievalAssumption DEF Names
  <2>3. D \subseteq Names
    BY <2>2
  <2>4. ASSUME NEW id \in D PROVE vectors'[id] \in Int
    <3>1. CASE those(id) = {}
      <4>1. id \in DOMAIN vectors
        BY <2>4, <3>1
      <4> QED
        BY <2>1, <3>1, <4>1
    <3>2. CASE those(id) # {}
      <4>1. those(id) \in SUBSET (1..Len(batch))
        BY <2>2
      <4>2. Max(those(id)) \in those(id)
        BY <2>2, <3>2, <4>1, MaxOfPlaces
      <4>3. Max(those(id)) \in DOMAIN batch
        BY <4>2
      <4> HIDE DEF those, D
      <4> QED
        BY <2>1, <2>2, <2>4, <3>2, <4>3
    <3> QED
      BY <3>1, <3>2
  <2> HIDE DEF D
  <2>5. DOMAIN vectors' = D /\ vectors' \in [D -> Int]
    BY <2>1, <2>4
  <2> QED
    BY <2>1, <2>3, <2>5 DEF IsRelation
<1>4. ASSUME NEW n \in ToSet(Entities), DeleteVectors({n}) PROVE StoresInv'
  BY <1>4 DEF DeleteVectors, Change, Restrict, IsRelation
<1>5. ASSUME NEW r \in Relations, AddRelation(r) PROVE StoresInv'
  <2>1. IsRelation(r)
    BY RetrievalAssumption DEF IsRelation, Names
  <2> QED
    BY <1>5, <2>1 DEF AddRelation, Change
<1>6. CASE UNCHANGED stores
  BY <1>6 DEF stores, IsRelation
<1>7. CASE UNCHANGED vars
  BY <1>7 DEF vars, IsRelation
<1> QED
  BY <1>1, <1>2, <1>3, <1>4, <1>5, <1>6, <1>7
     DEF Next, SemanticSearch, HybridSearch, BeginMatch, MatchStart, MatchHop, MatchFound,
         Matching, EndMatch, Receive

-----------------------------------------------------------------------------
LEMMA NeighborsAre ==
    ASSUME StoresInv, NEW n, NEW hop
    PROVE  /\ Neighbors(n, hop) \subseteq Names /\ IsFiniteSet(Neighbors(n, hop))
           /\ \A m : m \in Neighbors(n, hop) <=>
                 <<n, hop.type, m>> \in relations /\ (hasGraph \/ ConceptOf[m] = hop.concept)
<1>1. ASSUME NEW m
      PROVE  m \in Neighbors(n, hop) <=>
                 <<n, hop.type, m>> \in relations /\ (hasGraph \/ ConceptOf[m] = hop.concept)
  <2>1. (\E r \in relations : r[1] = n /\ r[2] = hop.type /\ r[3] = m) <=>
        <<n, hop.type, m>> \in relations
    BY DEF StoresInv, IsRelation
  <2> QED
    BY <2>1 DEF Neighbors
<1>2. Neighbors(n, hop) \subseteq Names
  BY DEF Neighbors, StoresInv, IsRelation
<1> QED
  BY <1>1, <1>2, EntitiesFacts, FS_Subset

LEMMA OneNeighbor ==
    ASSUME StoresInv, NEW q, ~Ambiguous(q), NEW n \in Names, NEW i \in 1..Len(q.pattern),
           NEW x \in Neighbors(n, q.pattern[i]), NEW y \in Neighbors(n, q.pattern[i])
    PROVE  x = y
<1> DEFINE N == Neighbors(n, q.pattern[i])
<1>1. IsFiniteSet(N) /\ ~(Cardinality(N) > 1)
  BY NeighborsAre DEF Ambiguous
<1>2. SUFFICES ASSUME x # y PROVE FALSE
  OBVIOUS
<1>3. {x} \in SUBSET N /\ y \in N /\ y \notin {x}
  BY <1>2
<1> HIDE DEF N
<1>4. Cardinality({x}) < Cardinality(N) /\ Cardinality({x}) = 1
  BY <1>1, <1>3, Smaller, FS_Singleton
<1>5. Cardinality(N) \in Nat
  BY <1>1, FS_CardinalityType
<1> QED
  BY <1>1, <1>4, <1>5

LEMMA StillAmbiguous ==
    ASSUME StoresInv, StoresInv', hasGraph' = hasGraph, relations \subseteq relations',
           NEW q, Ambiguous(q)
    PROVE  Ambiguous(q)'
<1>1. PICK n \in Names, i \in 1..Len(q.pattern) : Cardinality(Neighbors(n, q.pattern[i])) > 1
  BY DEF Ambiguous
<1> DEFINE N == Neighbors(n, q.pattern[i])
<1>2. N \in SUBSET (N')
  BY DEF Neighbors
<1>3. IsFiniteSet(N')
  <2>1. N' \subseteq Names
    BY DEF Neighbors, StoresInv, IsRelation
  <2> QED
    BY <2>1, EntitiesFacts, FS_Subset
<1> HIDE DEF N
<1>4. Cardinality(N) <= Cardinality(N') /\ IsFiniteSet(N)
  BY <1>2, <1>3, FS_Subset
<1>5. Cardinality(N) \in Nat /\ Cardinality(N') \in Nat
  BY <1>3, <1>4, FS_CardinalityType
<1>6. Cardinality(N') > 1
  BY <1>1, <1>4, <1>5 DEF N
<1> QED
  BY <1>6 DEF Ambiguous, N
\* What a match has found stays, and one that could not be ambiguous still could
\* not have been, when a relation is added or nothing changes.
LEMMA MatchUnmoved ==
    ASSUME StoresInv, StoresInv', MatchInv, match' = match, hasGraph' = hasGraph,
           relations \subseteq relations'
    PROVE  MatchInv'
<1>1. CASE match = NoMatch
  BY <1>1 DEF MatchInv, NoMatch
<1>2. CASE InOrder(match)
           /\ match.given \subseteq relations
           /\ PathsFound(match, relations, hasGraph)
           /\ (Ambiguous(match.query) \/ NoneMissed(match, hasGraph))
  <2> DEFINE m == match
  <2>1. ASSUME NEW n, InOrder(n) PROVE InOrder(n)'
    BY <2>1
  <2>2. ASSUME NEW n, PathsFound(n, relations, hasGraph) PROVE PathsFound(n, relations', hasGraph)
    <3>1. ASSUME NEW p, NEW i, NEW q, Follows(p, i, q, relations, hasGraph)
          PROVE  Follows(p, i, q, relations', hasGraph)
      BY <3>1 DEF Follows
    <3> QED
      BY <2>2, <3>1 DEF PathsFound
  <2>3. InOrder(match')
    BY <1>2
  <2>4. PathsFound(match', relations', hasGraph')
    BY <1>2, <2>2
  <2>5. Ambiguous(match.query)' \/ NoneMissed(match', hasGraph')
    <3>1. CASE Ambiguous(match.query)
      <4>1. \A q : Ambiguous(q) => Ambiguous(q)'
        BY StillAmbiguous
      <4>2. match'.query = match.query
        OBVIOUS
      <4> QED
        BY <3>1, <4>1, <4>2
    <3>2. CASE NoneMissed(match, hasGraph)
      BY <3>2
    <3> QED
      BY <1>2, <3>1, <3>2
  <2>6. match'.given \subseteq relations'
    BY <1>2
  <2> QED
    BY <2>3, <2>4, <2>5, <2>6 DEF MatchInv
<1> QED
  BY <1>1, <1>2 DEF MatchInv

\* A match begins.
LEMMA MatchBegun ==
    ASSUME NEW q \in MatchQueries, NEW asked, NEW m,
           m = Match(q, asked, Starts(q), << >>, << >>), NEW es, NEW g
    PROVE  InOrder(m) /\ PathsFound(m, es, g) /\ NoneMissed(m, g)
           /\ m.query = q /\ m.given = asked
<1>1. /\ m.query = q /\ m.given = asked /\ m.todo = Starts(q)
      /\ m.path = << >> /\ m.paths = << >> /\ IsMatch(m)
  BY DEF Match, IsMatch
<1>2. Starts(q) \in Seq(Names) /\ Len(Starts(q)) \in Nat /\ q.limit \in Nat
  BY StartsFacts, QueryFacts
<1>3. Done(m) = 0
  BY <1>1, <1>2 DEF Done
<1>4. ASSUME NEW i \in 1..Len(m.todo)
      PROVE  m.todo[i] = Starts(m.query)[Len(Starts(m.query)) - Len(m.todo) + i]
  <2>1. Len(Starts(q)) - Len(Starts(q)) + i = i
    BY <1>2
  <2> QED
    BY <1>1, <2>1
<1>5. << >> \in Seq(Names) /\ << >> \in Seq(Seq(Names)) /\ Len(<< >>) = 0 /\ 0 <= q.limit
  BY <1>2
<1>6. InOrder(m)
  <2>1. Done(m) \in Nat
    BY <1>3
  <2> QED
    BY <1>1, <1>2, <1>4, <1>5, <2>1 DEF InOrder
<1>7. PathsFound(m, es, g)
  BY <1>1, <1>5 DEF PathsFound
<1>8. NoneMissed(m, g)
  BY <1>1, <1>3 DEF NoneMissed
<1> QED
  BY <1>1, <1>6, <1>7, <1>8

LEMMA MatchInit == Init => MatchInv
  BY DEF Init, MatchInv
LEMMA MatchStep == StoresInv /\ StoresInv' /\ MatchInv /\ [Next]_vars => MatchInv'
<1> SUFFICES ASSUME StoresInv, StoresInv', MatchInv, [Next]_vars PROVE MatchInv'
  OBVIOUS
<1>1. CASE match' = match /\ hasGraph' = hasGraph /\ relations \subseteq relations'
  BY <1>1, MatchUnmoved
<1>2. CASE UNCHANGED stores /\ match' = NoMatch
  BY <1>2 DEF MatchInv
<1>3. ASSUME NEW q \in MatchQueries, BeginMatch(q), match' # match PROVE MatchInv'
  <2>1. match' = Match(q, relations, Starts(q), << >>, << >>) /\ UNCHANGED stores
    BY <1>3 DEF BeginMatch, Match
  <2>2. \A m : m = Match(q, relations, Starts(q), << >>, << >>) =>
           InOrder(m) /\ PathsFound(m, relations, hasGraph) /\ NoneMissed(m, hasGraph)
             /\ m.query = q /\ m.given = relations
    BY MatchBegun
  <2>3. InOrder(match') /\ PathsFound(match', relations, hasGraph)
        /\ NoneMissed(match', hasGraph) /\ match'.given = relations
    BY <2>1, <2>2
  <2> QED
    BY <2>1, <2>3 DEF MatchInv, stores
\* The steps of a match leave the stores alone.
<1>4. ASSUME NEW m, NEW n, m = match, n = match', UNCHANGED stores,
             InOrder(n), n.query = m.query, n.given = m.given, m # NoMatch,
             PathsFound(n, relations, hasGraph),
             Ambiguous(m.query) \/ NoneMissed(n, hasGraph)
      PROVE  MatchInv'
  <2>1. Ambiguous(m.query) => Ambiguous(m.query)'
    BY <1>4, StillAmbiguous DEF stores
  <2>2. match'.query = m.query /\ match'.given = match.given
    BY <1>4
  <2>3. Ambiguous(match.query)' \/ NoneMissed(match', hasGraph')
    BY <1>4, <2>1, <2>2 DEF stores
  <2>4. match.given \subseteq relations
    BY <1>4 DEF MatchInv
  <2> QED
    BY <1>4, <2>2, <2>3, <2>4 DEF MatchInv, stores
<1> DEFINE m == match
           L == Len(m.path)
<1>5. ASSUME match # NoMatch
      PROVE  /\ InOrder(m) /\ m.given \subseteq relations /\ PathsFound(m, relations, hasGraph)
             /\ Ambiguous(m.query) \/ NoneMissed(m, hasGraph)
  BY <1>5 DEF MatchInv
<1>6. CASE MatchStart
  <2>1. match # NoMatch /\ UNCHANGED stores
    BY <1>6 DEF MatchStart, Matching, NoMatch
  <2>2. ASSUME NEW n, n = match'
        PROVE  InOrder(n) /\ n.query = m.query /\ n.given = m.given
               /\ PathsFound(n, relations, hasGraph)
               /\ (NoneMissed(m, hasGraph) => NoneMissed(n, hasGraph))
    BY <1>5, <1>6, <2>1, <2>2, TakenUp DEF MatchStart
  <2> QED
    BY <1>4, <1>5, <2>1, <2>2
<1>7. CASE MatchHop
  <2>1. match # NoMatch /\ UNCHANGED stores /\ m.path # << >> /\ L <= Len(m.query.pattern)
    BY <1>7 DEF MatchHop, Matching, NoMatch
  <2> DEFINE hop == m.query.pattern[L]
             next == Neighbors(Last(m.path), hop)
  <2>2. L \in 1..Len(m.query.pattern) /\ m.path \in Seq(Names) /\ Last(m.path) \in Names
        /\ Len(m.query.pattern) \in Nat /\ Last(m.path) = m.path[L]
    <3>1. m.path \in Seq(Names) /\ m.query \in MatchQueries
      BY <1>5, <2>1 DEF InOrder
    <3>2. Len(m.query.pattern) \in Nat /\ L \in Nat \ {0}
      BY <2>1, <3>1, QueryFacts
    <3> QED
      BY <2>1, <3>1, <3>2 DEF Last
  <2>3. next \subseteq Names
    BY NeighborsAre
  \* A whole path goes on to a neighbor.
  <2>4. ASSUME NEW p \in Paths(m.query),
               Follows(p, Len(m.query.pattern), m.query, m.given, hasGraph),
               \A i \in 1..L : p[i] = m.path[i]
        PROVE  p[L + 1] \in next
    <3>1. /\ <<p[L], hop.type, p[L + 1]>> \in relations
          /\ hasGraph \/ ConceptOf[p[L + 1]] = hop.concept
      BY <1>5, <2>1, <2>2, <2>4 DEF Follows
    <3>2. p[L] = Last(m.path)
      BY <2>2, <2>4
    <3> QED
      BY <3>1, <3>2, NeighborsAre
  <2>5. CASE next = {} /\ match' = [match EXCEPT !.path = << >>]
    <3>1. ASSUME NEW n, n = match'
          PROVE  InOrder(n) /\ n.query = m.query /\ n.given = m.given
                 /\ PathsFound(n, relations, hasGraph)
                 /\ (NoneMissed(m, hasGraph)
                      /\ ~(\E p \in Paths(m.query) :
                              /\ Follows(p, Len(m.query.pattern), m.query, m.given, hasGraph)
                              /\ p[1] = m.path[1])
                     => NoneMissed(n, hasGraph))
      BY <1>5, <2>1, <2>5, <3>1, LeftWithout
    <3>2. ASSUME NoneMissed(m, hasGraph), NEW p \in Paths(m.query),
                 Follows(p, Len(m.query.pattern), m.query, m.given, hasGraph),
                 p[1] = m.path[1]
          PROVE  FALSE
      <4>1. \A i \in 1..L : p[i] = m.path[i]
        BY <2>1, <3>2 DEF NoneMissed
      <4> QED
        BY <2>4, <2>5, <3>2, <4>1
    <3> QED
      BY <1>4, <1>5, <2>1, <3>1, <3>2
  <2>6. ASSUME NEW x \in next, match' = [match EXCEPT !.path = Append(match.path, x)]
        PROVE  MatchInv'
    <3>1. /\ x \in Names
          /\ <<Last(m.path), hop.type, x>> \in relations
          /\ hasGraph \/ ConceptOf[x] = hop.concept
      BY <2>3, NeighborsAre
    <3>2. ASSUME NEW n, n = match'
          PROVE  InOrder(n) /\ n.query = m.query /\ n.given = m.given
                 /\ PathsFound(n, relations, hasGraph)
                 /\ (NoneMissed(m, hasGraph) /\ GoesOnTo(m, hasGraph, x)
                     => NoneMissed(n, hasGraph))
      BY <1>5, <2>1, <2>6, <3>1, <3>2, Lengthened
    <3>3. ASSUME ~Ambiguous(m.query) PROVE GoesOnTo(m, hasGraph, x)
      <4>1. ASSUME NEW p \in Paths(m.query),
                   Follows(p, Len(m.query.pattern), m.query, m.given, hasGraph),
                   \A i \in 1..Len(m.path) : p[i] = m.path[i]
            PROVE  p[Len(m.path) + 1] = x
        BY <2>2, <2>4, <3>3, <4>1, OneNeighbor
      <4> QED
        BY <4>1 DEF GoesOnTo
    <3> QED
      BY <1>4, <1>5, <2>1, <3>2, <3>3
  <2> QED
    BY <1>7, <2>5, <2>6 DEF MatchHop
<1>8. CASE MatchFound
  <2>1. match # NoMatch /\ UNCHANGED stores
    BY <1>8 DEF MatchFound, Matching, NoMatch
  <2>2. ASSUME NEW n, n = match'
        PROVE  InOrder(n) /\ n.query = m.query /\ n.given = m.given
               /\ PathsFound(n, relations, hasGraph)
               /\ (NoneMissed(m, hasGraph) => NoneMissed(n, hasGraph))
    BY <1>5, <1>8, <2>1, <2>2, Completed DEF MatchFound
  <2> QED
    BY <1>4, <1>5, <2>1, <2>2
<1>9. CASE \/ \E d \in 1..2 : Initialize(d)
           \/ Close
           \/ \E batch \in Batches : AddVectors(batch)
           \/ \E n \in ToSet(Entities) : DeleteVectors({n})
           \/ \E r \in Relations : AddRelation(r)
           \/ \E q \in SemanticQueries : SemanticSearch(q)
           \/ \E q \in HybridQueries : HybridSearch(q)
           \/ Receive
           \/ UNCHANGED vars
  BY <1>1, <1>9 DEF Initialize, Close, AddVectors, DeleteVectors, AddRelation, SemanticSearch,
                    HybridSearch, Receive, vars, stores
<1>10. CASE EndMatch
  BY <1>2, <1>10 DEF EndMatch
<1>11. CASE \E q \in MatchQueries : BeginMatch(q)
  <2>1. UNCHANGED stores
    BY <1>11 DEF BeginMatch
  <2> QED
    BY <1>1, <1>3, <1>11, <2>1 DEF stores
<1> QED
  BY <1>6, <1>7, <1>8, <1>9, <1>10, <1>11 DEF Next
-----------------------------------------------------------------------------
LEMMA FirstFacts ==
    ASSUME NEW T, NEW s \in Seq(T), NEW n \in Nat
    PROVE  /\ First(s, n) \in Seq(T) /\ Len(First(s, n)) \in Nat
           /\ DOMAIN First(s, n) = 1..Len(First(s, n))
           /\ Len(First(s, n)) = IF n < Len(s) THEN n ELSE Len(s)
           /\ \A i \in 1..Len(First(s, n)) : First(s, n)[i] = s[i]
<1> DEFINE l == IF n < Len(s) THEN n ELSE Len(s)
<1>1. l \in 0..Len(s) /\ Len(s) \in Nat
  OBVIOUS
<1>2. First(s, n) = SubSeq(s, 1, l)
  BY DEF First
<1> HIDE DEF l
<1>3. /\ SubSeq(s, 1, l) \in Seq(T) /\ Len(SubSeq(s, 1, l)) = l
      /\ \A i \in 1..l : SubSeq(s, 1, l)[i] = s[i]
  <2>1. \A i \in 1..l : i \in 1..Len(s)
    BY <1>1
  <2>2. SubSeq(s, 1, l) = [i \in 1..l |-> s[i]]
    BY <1>1, SubSeqProperties, <2>1
  <2>3. [i \in 1..l |-> s[i]] \in [1..l -> T]
    BY <1>1, <2>1, ElementOfSeq
  <2> QED
    BY <1>1, <2>2, <2>3, FunctionIsSeq
<1>4. /\ First(s, n) \in Seq(T) /\ Len(First(s, n)) = l /\ l \in Nat
      /\ \A i \in 1..Len(First(s, n)) : First(s, n)[i] = s[i]
  BY <1>1, <1>2, <1>3
<1>5. DOMAIN First(s, n) = 1..Len(First(s, n))
  BY <1>4
<1> QED
  BY <1>4, <1>5 DEF l

\* Paths from different starts are as many as their starts.
LEMMA FirstsCounted ==
    ASSUME NEW T, NEW paths \in Seq(T),
           \A k, l \in 1..Len(paths) : paths[k][1] = paths[l][1] => k = l
    PROVE  Cardinality({p[1] : p \in ToSet(paths)}) = Len(paths)
<1> DEFINE F == {p[1] : p \in ToSet(paths)}
           f == [k \in 1..Len(paths) |-> paths[k][1]]
<1>1. Len(paths) \in Nat /\ DOMAIN paths = 1..Len(paths)
  OBVIOUS
<1>2. ToSet(paths) = {paths[k] : k \in 1..Len(paths)}
  BY <1>1 DEF ToSet
<1>3. F = {paths[k][1] : k \in 1..Len(paths)}
  BY <1>2
<1> HIDE DEF F
<1>4. f \in Bijection(1..Len(paths), F)
  <2>1. f \in [1..Len(paths) -> F]
    BY <1>3
  <2>2. \A a, b \in 1..Len(paths) : f[a] = f[b] => a = b
    OBVIOUS
  <2>3. \A x \in F : \E k \in 1..Len(paths) : f[k] = x
    BY <1>3
  <2> HIDE DEF f
  <2> QED
    BY <2>1, <2>2, <2>3 DEF Bijection, Injection, Surjection, IsInjective
<1>5. ExistsBijection(1..Len(paths), F)
  BY <1>4 DEF ExistsBijection
<1> QED
  BY <1>1, <1>5, FS_CountingElements DEF F

\* What PatternsMatch says of an answer.
Answered(q, paths, asked) ==
    /\ paths \in Seq(Seq(Names)) /\ Len(paths) <= q.limit
    /\ \A k, l \in 1..Len(paths) : paths[k][1] = paths[l][1] => k = l
    /\ \A k \in 1..Len(paths) :
          /\ paths[k][1] \in ToSet(Starts(q))
          /\ Len(paths[k]) = Len(q.pattern) + 1
          /\ Follows(paths[k], Len(q.pattern), q, relations, hasGraph)
    /\ \/ Len(paths) = q.limit
       \/ Ambiguous(q)
       \/ \A p \in Paths(q) :
             p[1] \in ToSet(Starts(q)) /\ Follows(p, Len(q.pattern), q, asked, hasGraph) =>
                 \E k \in 1..Len(paths) : paths[k][1] = p[1]

LEMMA AnsweredMatches ==
    ASSUME NEW q, NEW paths, NEW asked, Answered(q, paths, asked),
           answer' = [kind |-> "match", query |-> q, given |-> asked, paths |-> paths],
           hasGraph' = hasGraph, relations' = relations
    PROVE  PatternsMatch'
<1> DEFINE hops == 1..Len(q.pattern)
           fits(p, es) ==
                \A i \in hops : /\ <<p[i], q.pattern[i].type, p[i + 1]>> \in es
                                /\ hasGraph \/ ConceptOf[p[i + 1]] = q.pattern[i].concept
           firsts == {p[1] : p \in ToSet(paths)}
<1>1. answer'.query = q /\ answer'.paths = paths /\ answer'.given = asked
  OBVIOUS
<1>2. paths \in Seq(Seq(Names)) /\ DOMAIN paths = 1..Len(paths)
  BY DEF Answered
<1>3. ToSet(paths) = {paths[k] : k \in 1..Len(paths)}
  BY <1>2 DEF ToSet
<1>4. firsts = {paths[k][1] : k \in 1..Len(paths)}
  BY <1>3
<1>5. Cardinality(firsts) = Len(paths)
  BY <1>2, FirstsCounted DEF Answered
<1>6. firsts \subseteq ToSet(Starts(q))
  <2>1. \A k \in 1..Len(paths) : paths[k][1] \in ToSet(Starts(q))
    BY DEF Answered
  <2> HIDE DEF firsts
  <2> QED
    BY <1>4, <2>1
<1>7. \A p \in ToSet(paths) : Len(p) = Len(q.pattern) + 1 /\ fits(p, relations)
  BY <1>3 DEF Answered, Follows
<1>8. \/ Len(paths) = q.limit
      \/ \E n \in ToSet(Entities), i \in hops : Cardinality(Neighbors(n, q.pattern[i])) > 1
      \/ \A p \in [1..(Len(q.pattern) + 1) -> ToSet(Entities)] :
             p[1] \in ToSet(Starts(q)) /\ fits(p, asked) => p[1] \in firsts
  <2>1. CASE Len(paths) = q.limit
    BY <2>1
  <2>2. CASE Ambiguous(q)
    BY <2>2 DEF Ambiguous, Names
  <2>3. CASE \A p \in Paths(q) :
                p[1] \in ToSet(Starts(q)) /\ Follows(p, Len(q.pattern), q, asked, hasGraph) =>
                    \E k \in 1..Len(paths) : paths[k][1] = p[1]
    BY <1>4, <2>3 DEF Paths, Names, Follows
  <2> QED
    BY <2>1, <2>2, <2>3 DEF Answered
<1>9. Len(paths) <= q.limit
  BY DEF Answered
<1>10. \A n, hop : Neighbors(n, hop)' = Neighbors(n, hop)
  BY DEF Neighbors
<1> HIDE DEF firsts
<1> QED
  BY <1>1, <1>5, <1>6, <1>7, <1>8, <1>9, <1>10 DEF PatternsMatch, firsts
\* The starts themselves, of a pattern without hops.
LEMMA StartsAnswered ==
    ASSUME NEW q \in MatchQueries, q.pattern = << >>, NEW asked, NEW paths,
           paths = LET starts == First(Starts(q), q.limit)
                   IN  [i \in DOMAIN starts |-> <<starts[i]>>]
    PROVE  Answered(q, paths, asked)
<1> DEFINE S == Starts(q)
           starts == First(S, q.limit)
           l == Len(starts)
<1>1. S \in Seq(Names) /\ Len(S) \in Nat /\ q.limit \in Nat /\ Len(q.pattern) = 0
      /\ DOMAIN S = 1..Len(S)
  BY StartsFacts, QueryFacts
<1>2. /\ starts \in Seq(Names) /\ l \in Nat /\ DOMAIN starts = 1..l
      /\ l = (IF q.limit < Len(S) THEN q.limit ELSE Len(S))
      /\ \A i \in 1..l : starts[i] = S[i]
  <2> HIDE DEF S
  <2> QED
    BY <1>1, FirstFacts
<1>3. paths = [i \in 1..l |-> <<starts[i]>>]
  BY <1>2
<1> HIDE DEF starts
<1>4. \A i \in 1..l : starts[i] \in Names /\ i \in 1..Len(S)
  <2> HIDE DEF S
  <2> QED
    BY <1>1, <1>2, ElementOfSeq
<1>5. paths \in Seq(Seq(Names)) /\ Len(paths) = l
  <2>1. paths \in [1..l -> Seq(Names)]
    BY <1>3, <1>4
  <2>2. l \in Nat
    BY <1>2
  <2> HIDE DEF l
  <2> QED
    BY <2>1, <2>2, FunctionIsSeq
<1>6. ASSUME NEW k \in 1..l
      PROVE  paths[k][1] = S[k] /\ Len(paths[k]) = 1 /\ k \in 1..Len(S)
  BY <1>2, <1>3, <1>4
<1>7. ASSUME NEW k \in 1..l, NEW j \in 1..l, paths[k][1] = paths[j][1] PROVE k = j
  <2>1. S[k] = S[j] /\ k \in 1..Len(S) /\ j \in 1..Len(S)
    BY <1>6, <1>7
  <2> QED
    BY <2>1, StartsFacts
<1>8. ASSUME NEW k \in 1..l
      PROVE  /\ paths[k][1] \in ToSet(S) /\ Len(paths[k]) = Len(q.pattern) + 1
             /\ Follows(paths[k], Len(q.pattern), q, relations, hasGraph)
  <2>1. paths[k][1] \in ToSet(S)
    BY <1>1, <1>6 DEF ToSet
  <2>2. Follows(paths[k], Len(q.pattern), q, relations, hasGraph)
    BY <1>1 DEF Follows
  <2> QED
    BY <1>1, <1>6, <2>1, <2>2
<1>9. ASSUME l # q.limit, NEW p \in Paths(q), p[1] \in ToSet(S)
      PROVE  \E k \in 1..l : paths[k][1] = p[1]
  <2>1. l = Len(S)
    BY <1>2, <1>9
  <2>2. PICK k \in 1..Len(S) : S[k] = p[1]
    BY <1>1, <1>9 DEF ToSet
  <2> QED
    BY <1>6, <2>1, <2>2
<1>10. l <= q.limit
  <2>1. l = (IF q.limit < Len(S) THEN q.limit ELSE Len(S))
    BY <1>2
  <2>2. q.limit \in Nat /\ Len(S) \in Nat
    BY <1>1
  <2> HIDE DEF S, l
  <2> QED
    BY <2>1, <2>2
<1> HIDE DEF l, S
<1> QED
  BY <1>5, <1>7, <1>8, <1>9, <1>10 DEF Answered, S

\* What was found when the starts are through, or enough was found.
LEMMA FoundAnswered ==
    ASSUME NEW m, InOrder(m), PathsFound(m, relations, hasGraph),
           Ambiguous(m.query) \/ NoneMissed(m, hasGraph),
           m.path = << >>, m.todo = << >> \/ Len(m.paths) >= m.query.limit
    PROVE  Answered(m.query, m.paths, m.given)
<1> DEFINE S == Starts(m.query)
           K == Len(m.paths)
<1>1. /\ m.paths \in Seq(Seq(Names)) /\ K \in Nat /\ m.query.limit \in Nat
      /\ Len(S) \in Nat /\ DOMAIN S = 1..Len(S) /\ K <= m.query.limit
  <2>1. m.paths \in Seq(Seq(Names)) /\ m.query \in MatchQueries /\ K <= m.query.limit
    BY DEF InOrder
  <2>2. S \in Seq(Names)
    BY StartsFacts
  <2> QED
    BY <2>1, <2>2, QueryFacts
<1>2. Done(m) = Len(S) - Len(m.todo) /\ Len(m.todo) \in Nat /\ Done(m) \in Nat
  <2>1. Done(m) = Len(S) - Len(m.todo) - 0
    BY DEF Done
  <2>2. m.todo \in Seq(Names) /\ Done(m) \in Nat
    BY DEF InOrder
  <2>3. Len(m.todo) \in Nat
    BY <2>2
  <2> HIDE DEF S
  <2> QED
    BY <1>1, <2>1, <2>2, <2>3
<1>3. \A k \in 1..K : m.paths[k][1] \in ToSet(S)
  <2>1. SUFFICES ASSUME NEW k \in 1..K PROVE m.paths[k][1] \in ToSet(S)
    OBVIOUS
  <2>2. PICK j \in 1..Done(m) : m.paths[k][1] = S[j]
    BY <2>1 DEF PathsFound
  <2>3. j \in 1..Len(S)
    <3> HIDE DEF S
    <3> QED
      BY <1>1, <1>2, <2>2
  <2> QED
    BY <1>1, <2>2, <2>3 DEF ToSet
<1>4. ASSUME ~Ambiguous(m.query), K # m.query.limit, NEW p \in Paths(m.query),
             p[1] \in ToSet(S), Follows(p, Len(m.query.pattern), m.query, m.given, hasGraph)
      PROVE  \E k \in 1..K : m.paths[k][1] = p[1]
  <2>1. m.todo = << >>
    BY <1>1, <1>4
  <2>2. Done(m) = Len(S)
    <3>1. Len(m.todo) = 0
      BY <2>1
    <3> HIDE DEF S
    <3> QED
      BY <1>1, <1>2, <3>1
  <2>3. PICK j \in 1..Done(m) : p[1] = S[j]
    BY <1>1, <1>4, <2>2 DEF ToSet
  <2> QED
    BY <1>4, <2>3 DEF NoneMissed
<1> QED
  BY <1>1, <1>3, <1>4 DEF Answered, PathsFound
LEMMA AnswerStep == StoresInv /\ MatchInv /\ PatternsMatch /\ [Next]_vars => PatternsMatch'
<1> SUFFICES ASSUME StoresInv, MatchInv, PatternsMatch, [Next]_vars PROVE PatternsMatch'
  OBVIOUS
<1>1. CASE answer'.kind # "match"
  BY <1>1 DEF PatternsMatch
<1>2. CASE UNCHANGED <<answer, hasGraph, relations>>
  <2>1. \A n, hop : Neighbors(n, hop)' = Neighbors(n, hop)
    BY <1>2 DEF Neighbors
  <2> QED
    BY <1>2, <2>1 DEF PatternsMatch
<1>3. ASSUME NEW q, NEW paths, NEW asked, Answered(q, paths, asked),
             answer' = [kind |-> "match", query |-> q, given |-> asked, paths |-> paths],
             UNCHANGED stores
      PROVE  PatternsMatch'
  BY <1>3, AnsweredMatches DEF stores
<1>4. ASSUME NEW q \in MatchQueries, BeginMatch(q), q.pattern = << >>
      PROVE  PatternsMatch'
  <2> DEFINE paths == LET starts == First(Starts(q), q.limit)
                      IN  [i \in DOMAIN starts |-> <<starts[i]>>]
  <2>1. CASE answer' = [kind |-> "match", query |-> q, given |-> relations, paths |-> paths]
    <3>1. Answered(q, paths, relations)
      BY <1>4, StartsAnswered
    <3>2. UNCHANGED stores
      BY <1>4 DEF BeginMatch
    <3> HIDE DEF paths
    <3> QED
      BY <1>3, <2>1, <3>1, <3>2
  <2>2. CASE answer' # [kind |-> "match", query |-> q, given |-> relations, paths |-> paths]
    <3>1. answer'.kind # "match"
      BY <1>4, <2>2 DEF BeginMatch, NoAnswer
    <3> QED
      BY <1>1, <3>1
  <2> QED
    BY <2>1, <2>2
<1>5. ASSUME NEW q \in MatchQueries, BeginMatch(q), q.pattern # << >>
      PROVE  PatternsMatch'
  BY <1>1, <1>5 DEF BeginMatch, NoAnswer
<1>6. CASE EndMatch
  <2> DEFINE m == match
  <2>1. match # NoMatch
    BY <1>6 DEF EndMatch, NoMatch
  <2>2. Answered(m.query, m.paths, m.given)
    BY <1>6, <2>1, FoundAnswered DEF MatchInv, EndMatch
  <2> QED
    BY <1>3, <1>6, <2>2 DEF EndMatch
<1>7. CASE MatchStart \/ MatchHop \/ MatchFound
  BY <1>2, <1>7 DEF MatchStart, MatchHop, MatchFound, Matching, stores
<1>8. CASE \/ \E d \in 1..2 : Initialize(d)
           \/ Close
           \/ \E batch \in Batches : AddVectors(batch)
           \/ \E n \in ToSet(Entities) : DeleteVectors({n})
           \/ \E r \in Relations : AddRelation(r)
           \/ Receive
  <2>1. answer' = NoAnswer
    BY <1>8 DEF Initialize, Close, AddVectors, DeleteVectors, AddRelation, Receive, Change
  <2> QED
    BY <1>1, <2>1 DEF NoAnswer
<1>9. ASSUME NEW q \in SemanticQueries, SemanticSearch(q) PROVE PatternsMatch'
  <2>1. CASE ~Searchable(q.dimension)
    BY <1>1, <1>9, <2>1 DEF SemanticSearch
  <2>2. CASE Searchable(q.dimension)
    <3>1. \E ids : answer' = [kind |-> "semantic", query |-> q, ids |-> ids]
      BY <1>9, <2>2 DEF SemanticSearch
    <3> QED
      BY <1>1, <3>1
  <2> QED
    BY <2>1, <2>2
<1>10. ASSUME NEW q \in HybridQueries, HybridSearch(q) PROVE PatternsMatch'
  <2>1. answer'.kind \in {"failed", "hybrid"}
    BY <1>10 DEF HybridSearch
  <2> QED
    BY <1>1, <2>1
<1>11. CASE UNCHANGED vars
  BY <1>2, <1>11 DEF vars
<1> QED
  BY <1>4, <1>5, <1>6, <1>7, <1>8, <1>9, <1>10, <1>11 DEF Next

\* The stores hold what they may, and a match that goes on was right so far.
THEOREM RetrievalInvariance == Spec => [](StoresInv /\ MatchInv)
<1>1. Init => StoresInv /\ MatchInv
  BY StoresInit, MatchInit
<1>2. StoresInv /\ MatchInv /\ [Next]_vars => StoresInv' /\ MatchInv'
  BY StoresStep, MatchStep
<1> QED
  BY <1>1, <1>2, PTL DEF Spec

\* DefaultRetrievalBackend.graph_pattern_match: each path it returns is one of
\* the relations, from another start, and a start with a match is missed only
\* where an entity has two neighbors to choose from, or enough was found.
THEOREM PatternsDoMatch == Spec => []PatternsMatch
<1>1. Init => PatternsMatch
  BY DEF Init, PatternsMatch, NoAnswer
<1>2. StoresInv /\ MatchInv /\ PatternsMatch /\ [Next]_vars => PatternsMatch'
  BY AnswerStep
<1> QED
  BY <1>1, <1>2, RetrievalInvariance, PTL DEF Spec
-----------------------------------------------------------------------------
\* All that has a score, each once, the best first.
IsRanking(s, scores) ==
    /\ s \in Seq(DOMAIN scores) /\ Len(s) \in Nat /\ DOMAIN s = 1..Len(s)
    /\ \A i, j \in 1..Len(s) : s[i] = s[j] => i = j
    /\ \A n \in DOMAIN scores : \E i \in 1..Len(s) : s[i] = n
    /\ \A i, j \in 1..Len(s) : i < j => scores[s[i]] >= scores[s[j]]

LEMMA RankedIsRanking ==
    ASSUME NEW scores, IsFiniteSet(DOMAIN scores), NEW s \in Ranked(scores)
    PROVE  IsRanking(s, scores)
<1> DEFINE D == DOMAIN scores
           n == Cardinality(D)
<1>1. n \in Nat
  BY FS_CardinalityType
<1>2. /\ s \in [1..n -> D] /\ \A i, j \in 1..n : i # j => s[i] # s[j]
      /\ \A i, j \in DOMAIN s : i < j => scores[s[i]] >= scores[s[j]]
  BY DEF Ranked, SetToSeqs
<1> HIDE DEF n, D
<1>3. s \in Seq(D) /\ Len(s) = n /\ DOMAIN s = 1..n
  BY <1>1, <1>2, FunctionIsSeq
<1>4. s \in Surjection(1..n, D)
  <2>1. s \in Injection(1..n, D)
    BY <1>2 DEF Injection, IsInjective
  <2>2. Cardinality(1..n) = Cardinality(D) /\ IsFiniteSet(D)
    BY <1>1, OneTo DEF n, D
  <2> QED
    BY <2>1, <2>2, FS_Injection
<1>5. \A x \in D : \E i \in 1..n : s[i] = x
  BY <1>4 DEF Surjection
<1> QED
  BY <1>1, <1>2, <1>3, <1>5 DEF IsRanking, D

\* A ranking is as long as there are scores.
LEMMA RankingLength ==
    ASSUME NEW scores, NEW s, IsRanking(s, scores)
    PROVE  Len(s) = Cardinality(DOMAIN scores) /\ IsFiniteSet(DOMAIN scores)
<1> DEFINE D == DOMAIN scores
<1>1. s \in [1..Len(s) -> D] /\ Len(s) \in Nat
  BY DEF IsRanking
<1>2. s \in Bijection(1..Len(s), D)
  BY <1>1 DEF IsRanking, Bijection, Injection, Surjection, IsInjective
<1>3. ExistsBijection(1..Len(s), D)
  BY <1>2 DEF ExistsBijection
<1>4. IsFiniteSet(1..Len(s)) /\ Cardinality(1..Len(s)) = Len(s)
  <2>1. Len(s) \in Nat
    BY <1>1
  <2> QED
    BY <2>1, OneTo
<1> QED
  BY <1>3, <1>4, FS_Bijection

\* The ranking of some scores is what is kept of the ranking of all.
LEMMA KeptRanking ==
    ASSUME NEW scores, NEW s, IsRanking(s, scores), NEW S
    PROVE  IsRanking(Kept(s, S), Restrict(scores, DOMAIN scores \cap S))
<1> DEFINE k == Kept(s, S)
           D == DOMAIN scores
           some == Restrict(scores, D \cap S)
<1>1. s \in Seq(D) /\ Len(s) \in Nat
  BY DEF IsRanking
<1>2. k \in Seq(D)
  BY <1>1, KeptIsChosen
<1>3. PICK at : Chosen(k, s, S, at)
  BY <1>1, KeptIsChosen
<1>4. DOMAIN some = D \cap S /\ \A n \in D \cap S : some[n] = scores[n]
  BY DEF Restrict
<1> HIDE DEF k, some
<1>5. Len(k) \in Nat /\ DOMAIN k = 1..Len(k)
  BY <1>3 DEF Chosen
<1>6. ASSUME NEW i \in 1..Len(k)
      PROVE  k[i] = s[at[i]] /\ k[i] \in D \cap S /\ at[i] \in 1..Len(s)
  BY <1>2, <1>3, <1>5 DEF Chosen
<1>7. k \in Seq(DOMAIN some)
  <2>1. k \in [1..Len(k) -> DOMAIN some]
    BY <1>2, <1>4, <1>5, <1>6
  <2> QED
    BY <1>5, <2>1, FunctionIsSeq
<1>8. ASSUME NEW i \in 1..Len(k), NEW j \in 1..Len(k), k[i] = k[j] PROVE i = j
  <2>1. at[i] = at[j]
    BY <1>6, <1>8 DEF IsRanking
  <2>2. at[i] \in Int /\ at[j] \in Int
    BY <1>6
  <2>3. ~(i < j) /\ ~(j < i)
    BY <1>3, <2>1, <2>2 DEF Chosen
  <2> QED
    BY <2>3
<1>9. ASSUME NEW n \in DOMAIN some PROVE \E i \in 1..Len(k) : k[i] = n
  <2>1. PICK j \in 1..Len(s) : s[j] = n
    BY <1>4 DEF IsRanking
  <2>2. PICK i \in 1..Len(k) : at[i] = j
    BY <1>3, <1>4, <2>1 DEF Chosen
  <2> QED
    BY <1>6, <2>1, <2>2
<1>10. ASSUME NEW i \in 1..Len(k), NEW j \in 1..Len(k), i < j
       PROVE  some[k[i]] >= some[k[j]]
  <2>1. at[i] < at[j]
    BY <1>3, <1>10 DEF Chosen
  <2>2. scores[s[at[i]]] >= scores[s[at[j]]]
    BY <1>6, <2>1 DEF IsRanking
  <2> QED
    BY <1>4, <1>6, <2>2
<1> QED
  BY <1>5, <1>7, <1>8, <1>9, <1>10 DEF IsRanking, k, some

\* The first of a ranking are the best.
LEMMA FirstAreBest ==
    ASSUME NEW scores, scores \in [DOMAIN scores -> Int], NEW s, IsRanking(s, scores),
           NEW n \in Nat
    PROVE  Best(First(s, n), scores, n)
<1> DEFINE D == DOMAIN scores
           f == First(s, n)
<1>1. s \in Seq(D) /\ Len(s) \in Nat /\ Len(s) = Cardinality(D)
  BY RankingLength DEF IsRanking
<1>2. /\ f \in Seq(D) /\ Len(f) \in Nat /\ DOMAIN f = 1..Len(f)
      /\ Len(f) = (IF n < Len(s) THEN n ELSE Len(s))
      /\ \A i \in 1..Len(f) : f[i] = s[i]
  BY <1>1, FirstFacts
<1> HIDE DEF f
<1>3. \A i \in 1..Len(f) : i \in 1..Len(s) /\ f[i] = s[i]
  <2>1. Len(f) <= Len(s)
    BY <1>1, <1>2
  <2> QED
    BY <1>1, <1>2, <2>1
<1>4. IsInjective(f)
  BY <1>2, <1>3 DEF IsRanking, IsInjective
<1>5. ToSet(f) \subseteq D
  BY <1>2 DEF ToSet
<1>6. \A i, j \in DOMAIN f : i < j => scores[f[i]] >= scores[f[j]]
  BY <1>2, <1>3 DEF IsRanking
<1>7. ASSUME NEW x \in D \ ToSet(f), NEW i \in DOMAIN f PROVE scores[x] <= scores[f[i]]
  <2>1. PICK j \in 1..Len(s) : s[j] = x
    BY DEF IsRanking
  <2>2. j \notin 1..Len(f) /\ i \in 1..Len(f)
    BY <1>2, <1>3, <1>7, <2>1 DEF ToSet
  <2>3. i < j /\ i \in 1..Len(s)
    BY <1>2, <1>3, <2>1, <2>2
  <2>4. scores[s[i]] >= scores[s[j]]
    BY <2>1, <2>3 DEF IsRanking
  <2>5. f[i] = s[i] /\ s[i] \in D
    BY <1>1, <1>3, <2>2, <2>3, ElementOfSeq
  <2>6. scores[x] \in Int /\ scores[s[i]] \in Int
    BY <2>5
  <2> QED
    BY <2>1, <2>4, <2>5, <2>6
<1>8. Len(f) = IF n < Cardinality(D) THEN n ELSE Cardinality(D)
  BY <1>1, <1>2
<1> QED
  BY <1>4, <1>5, <1>6, <1>7, <1>8 DEF Best, f
-----------------------------------------------------------------------------
\* What a leg of a search found: entities and their scores.
IsScores(scores) ==
    scores \in [DOMAIN scores -> Int] /\ DOMAIN scores \subseteq Names

LEMMA ScoresFinite ==
    ASSUME NEW scores, IsScores(scores)
    PROVE  IsFiniteSet(DOMAIN scores)
  BY EntitiesFacts, FS_Subset DEF IsScores

LEMMA ScoreIsInt ==
    ASSUME NEW scores, IsScores(scores), NEW n
    PROVE  Score(scores, n) \in Int
  BY DEF IsScores, Score

LEMMA NoScores == IsScores(<< >>) /\ DOMAIN << >> = {}
  BY DEF IsScores

\* All that the graph could list of some entities.
Beyond(S, type) == UNION {FarEnds(Outgoing(n, type), Incoming(n, type)) : n \in S}

LEMMA ListingsSome ==
    ASSUME NEW n, NEW type, NEW x \in Listings(n, type)
    PROVE  x \subseteq FarEnds(Outgoing(n, type), Incoming(n, type))
<1>1. PICK outgoing \in UpTo(NeighborLimit, Outgoing(n, type)) :
        \E incoming \in UpTo(NeighborLimit - Cardinality(outgoing), Incoming(n, type)) :
          x = FarEnds(outgoing, incoming)
  BY DEF Listings
<1>2. PICK incoming \in UpTo(NeighborLimit - Cardinality(outgoing), Incoming(n, type)) :
        x = FarEnds(outgoing, incoming)
  BY <1>1
<1>3. \A k, S, T : T \in UpTo(k, S) => T \subseteq S
  BY DEF UpTo, kSubset
<1>4. outgoing \subseteq Outgoing(n, type) /\ incoming \subseteq Incoming(n, type)
  BY <1>1, <1>2, <1>3
<1> QED
  BY <1>2, <1>4 DEF FarEnds

\* What is listed is some of it, and all where no entity has too many relations.
LEMMA AroundSome ==
    ASSUME NEW S, NEW type, NEW cut \in Cuts(type)
    PROVE  /\ Around(S, type, cut) \subseteq Beyond(S, type)
           /\ Hubs = {} => Around(S, type, cut) = Beyond(S, type)
<1> DEFINE all(n) == FarEnds(Outgoing(n, type), Incoming(n, type))
           some(n) == IF n \in Hubs THEN cut[n] ELSE all(n)
<1>1. \A n \in Hubs : cut[n] \in Listings(n, type)
  BY DEF Cuts
<1>2. \A n \in Hubs : cut[n] \subseteq all(n)
  BY <1>1, ListingsSome
<1>3. Around(S, type, cut) = UNION {some(n) : n \in S} /\ Beyond(S, type) = UNION {all(n) : n \in S}
  BY DEF Around, Beyond
<1> HIDE DEF all
<1>4. \A n : some(n) \subseteq all(n) /\ (Hubs = {} => some(n) = all(n))
  BY <1>2
<1> HIDE DEF some
<1> QED
  BY <1>3, <1>4

LEMMA BeyondGrows ==
    ASSUME NEW S, NEW T, S \subseteq T, NEW type
    PROVE  Beyond(S, type) \subseteq Beyond(T, type)
  BY DEF Beyond

\* Of any type, both ways, these are the neighbors; of one, the ends of its relations.
LEMMA BeyondIs ==
    ASSUME StoresInv, NEW S
    PROVE  /\ Beyond(S, None) = Beside(S)
           /\ \A type : type # None =>
                 Beyond(S, type) = {r[3] : r \in {x \in relations : x[1] \in S /\ x[2] = type}}
<1>1. ASSUME NEW n PROVE FarEnds(Outgoing(n, None), Incoming(n, None)) = Adjacent(n)
  <2>1. FarEnds(Outgoing(n, None), Incoming(n, None))
          = {r[3] : r \in {x \in relations : x[1] = n}} \cup {r[1] : r \in {x \in relations : x[3] = n}}
    BY DEF FarEnds, Outgoing, Incoming
  <2>2. \A r \in relations : r[1] \in Names /\ r[3] \in Names
    BY DEF StoresInv, IsRelation
  <2>3. ASSUME NEW m
        PROVE  m \in FarEnds(Outgoing(n, None), Incoming(n, None)) <=> m \in Adjacent(n)
    <3>1. m \in FarEnds(Outgoing(n, None), Incoming(n, None))
            <=> \E r \in relations : (r[1] = n /\ r[3] = m) \/ (r[3] = n /\ r[1] = m)
      BY <2>1
    <3>2. m \in Adjacent(n) <=> m \in Names /\ \E r \in relations : {r[1], r[3]} = {n, m}
      BY DEF Adjacent, Names
    <3>3. \A r \in relations :
            {r[1], r[3]} = {n, m} <=> (r[1] = n /\ r[3] = m) \/ (r[3] = n /\ r[1] = m)
      OBVIOUS
    <3> QED
      BY <2>2, <3>1, <3>2, <3>3
  <2> QED
    BY <2>3
<1>2. Beyond(S, None) = Beside(S)
  BY <1>1 DEF Beyond, Beside
<1>3. ASSUME NEW type, type # None
      PROVE  Beyond(S, type) = {r[3] : r \in {x \in relations : x[1] \in S /\ x[2] = type}}
  <2>1. \A n : FarEnds(Outgoing(n, type), Incoming(n, type))
                 = {r[3] : r \in {x \in relations : x[1] = n /\ x[2] = type}}
    BY <1>3 DEF FarEnds, Outgoing, Incoming
  <2> QED
    BY <2>1 DEF Beyond
<1> QED
  BY <1>2, <1>3

LEMMA BesideEntities ==
    ASSUME NEW S
    PROVE  Beside(S) \subseteq Names
  BY DEF Beside, Adjacent, Names

\* The scores of a path leg that is cut nowhere.
MatchScores(q) == [n \in Matches(q.seed, q.pattern) |-> 60]

LEMMA PathScoresAre ==
    ASSUME StoresInv, NEW q \in HybridQueries, NEW pat \in PathScores(q.seed, q.pattern)
    PROVE  /\ IsScores(pat) /\ IsScores(MatchScores(q))
           /\ DOMAIN pat \subseteq DOMAIN MatchScores(q)
           /\ Hubs = {} => pat = MatchScores(q)
<1> DEFINE seed == q.seed
           pattern == q.pattern
           hop(S, i) == {Around(S, pattern[i].type, cut) : cut \in Cuts(pattern[i].type)}
           ends(S, i) == {r[3] : r \in {x \in relations : x[1] \in S /\ x[2] = pattern[i].type}}
           matched == IF Len(pattern) = 1 THEN hop({seed}, 1)
                      ELSE UNION {hop(S, 2) : S \in hop({seed}, 1)}
           all == IF Len(pattern) = 1 THEN ends({seed}, 1) ELSE ends(ends({seed}, 1), 2)
           asked == hasGraph /\ seed # None /\ Len(pattern) \in 1..2
<1>1. PathScores(seed, pattern) = IF asked THEN {[n \in S |-> 60] : S \in matched} ELSE {<< >>}
  BY DEF PathScores
<1>2. Matches(seed, pattern) = IF asked THEN all ELSE {}
  BY DEF Matches
<1>3. ASSUME NEW S, NEW i PROVE ends(S, i) \subseteq Names
  BY DEF StoresInv, IsRelation
<1>4. ASSUME NEW S, NEW i \in 1..Len(pattern), NEW T \in hop(S, i)
      PROVE  T \subseteq ends(S, i) /\ (Hubs = {} => T = ends(S, i))
  <2>1. PICK cut \in Cuts(pattern[i].type) : T = Around(S, pattern[i].type, cut)
    BY <1>4
  <2>2. T \subseteq Beyond(S, pattern[i].type) /\ (Hubs = {} => T = Beyond(S, pattern[i].type))
    BY <2>1, AroundSome
  <2>3. pattern[i].type # None
    BY <1>4, RetrievalAssumption
  <2>4. Beyond(S, pattern[i].type) = ends(S, i)
    <3> DEFINE type == pattern[i].type
    <3>1. type # None
      BY <2>3
    <3> HIDE DEF type
    <3>2. Beyond(S, type) = {r[3] : r \in {x \in relations : x[1] \in S /\ x[2] = type}}
      BY <3>1, BeyondIs
    <3> QED
      BY <3>2 DEF type
  <2> HIDE DEF ends, pattern
  <2> QED
    BY <2>2, <2>4
<1>5. ASSUME NEW S, NEW T, S \subseteq T, NEW i PROVE ends(S, i) \subseteq ends(T, i)
  BY <1>5
<1> HIDE DEF hop, ends, pattern, seed
<1>6. ASSUME asked, NEW S \in matched PROVE S \subseteq all /\ (Hubs = {} => S = all)
  <2>1. CASE Len(pattern) = 1
    <3>1. S \in hop({seed}, 1) /\ 1 \in 1..Len(pattern) /\ all = ends({seed}, 1)
      BY <1>6, <2>1
    <3> QED
      BY <1>4, <3>1
  <2>2. CASE Len(pattern) # 1
    <3>1. Len(pattern) = 2 /\ 1 \in 1..Len(pattern) /\ 2 \in 1..Len(pattern)
      <4>1. \A k \in 1..2 : k # 1 => k = 2 /\ 1 \in 1..k /\ 2 \in 1..k
        OBVIOUS
      <4>2. Len(pattern) \in 1..2
        BY <1>6
      <4> QED
        BY <2>2, <4>1, <4>2
    <3>2. PICK T \in hop({seed}, 1) : S \in hop(T, 2)
      BY <1>6, <2>2
    <3>3. T \subseteq ends({seed}, 1) /\ (Hubs = {} => T = ends({seed}, 1))
      BY <1>4, <3>1, <3>2
    <3>4. S \subseteq ends(T, 2) /\ (Hubs = {} => S = ends(T, 2))
      BY <1>4, <3>1, <3>2
    <3>5. ends(T, 2) \subseteq ends(ends({seed}, 1), 2) /\ all = ends(ends({seed}, 1), 2)
      BY <1>5, <2>2, <3>3
    <3> QED
      BY <3>3, <3>4, <3>5
  <2> QED
    BY <2>1, <2>2
<1>7. all \subseteq Names
  BY <1>3
<1> HIDE DEF all, matched
<1>8. MatchScores(q) = [n \in Matches(seed, pattern) |-> 60] /\ Matches(seed, pattern) \subseteq Names
  BY <1>2, <1>7 DEF MatchScores, seed, pattern
<1>9. pat \in PathScores(seed, pattern)
  BY DEF seed, pattern
<1>10. CASE asked
  <2>1. PICK S \in matched : pat = [n \in S |-> 60]
    BY <1>1, <1>9, <1>10
  <2>2. S \subseteq all /\ (Hubs = {} => S = all) /\ Matches(seed, pattern) = all
    BY <1>2, <1>6, <1>10
  <2> QED
    BY <1>7, <1>8, <2>1, <2>2 DEF IsScores
<1>11. CASE ~asked
  <2>1. pat = << >> /\ Matches(seed, pattern) = {}
    BY <1>1, <1>2, <1>9, <1>11
  <2>2. MatchScores(q) = << >>
    BY <1>8, <2>1
  <2> QED
    BY <2>1, <2>2, NoScores
<1> QED
  BY <1>10, <1>11

\* The levels of a search from the seed are the distances from it.
LEMMA LevelsAreDistances ==
    ASSUME NEW seed
    PROVE  LET a == Beside({seed})
               b == Beside(a)
               c == Beside(b)
               first  == a \ {seed}
               second == Beside(first) \ ({seed} \cup first)
               third  == Beside(second) \ ({seed} \cup first \cup second)
           IN  second = b \ ({seed} \cup a) /\ third = c \ ({seed} \cup a \cup b)
<1> DEFINE a == Beside({seed})
           b == Beside(a)
           c == Beside(b)
           first  == a \ {seed}
           second == Beside(first) \ ({seed} \cup first)
           third  == Beside(second) \ ({seed} \cup first \cup second)
<1>0. /\ a = Beside({seed}) /\ b = Beside(a) /\ c = Beside(b)
      /\ first = a \ {seed} /\ second = Beside(first) \ ({seed} \cup first)
      /\ third = Beside(second) \ ({seed} \cup first \cup second)
  OBVIOUS
<1>a. c = Beside(b)
  BY <1>0
<1> HIDE DEF a, b, c, first, second, third
<1>1. \A S, T : Beside(S \cup T) = Beside(S) \cup Beside(T)
  BY DEF Beside
<1>2. \A S, T : S \subseteq T => Beside(S) \subseteq Beside(T)
  BY DEF Beside
<1>3. a \subseteq first \cup {seed} /\ first \subseteq a /\ {seed} \cup first = {seed} \cup a
  BY <1>0
<1>4. b \subseteq Beside(first) \cup a /\ Beside(first) \subseteq b
  <2>1. Beside(first \cup {seed}) = Beside(first) \cup a
    BY <1>0, <1>1
  <2>2. b \subseteq Beside(first \cup {seed})
    BY <1>0, <1>2, <1>3
  <2>3. Beside(first) \subseteq b
    BY <1>0, <1>2, <1>3
  <2> QED
    BY <2>1, <2>2, <2>3
<1>5. second = b \ ({seed} \cup a)
  BY <1>0, <1>3, <1>4
<1>6. b \subseteq second \cup (a \cup {seed}) /\ second \subseteq b
  BY <1>5
<1>7. c \subseteq Beside(second) \cup (b \cup a) /\ Beside(second) \subseteq c
  <2>1. Beside(a \cup {seed}) = b \cup a
    BY <1>0, <1>1
  <2>2. Beside(second \cup (a \cup {seed})) = Beside(second) \cup Beside(a \cup {seed})
    BY <1>1
  <2>3. c \subseteq Beside(second \cup (a \cup {seed}))
    <3>1. Beside(b) \subseteq Beside(second \cup (a \cup {seed}))
      BY <1>2, <1>6
    <3> QED
      BY <1>a, <3>1
  <2>4. c \subseteq Beside(second) \cup (b \cup a)
    BY <2>1, <2>2, <2>3
  <2>5. Beside(second) \subseteq c
    <3>1. Beside(second) \subseteq Beside(b)
      BY <1>2, <1>6
    <3> QED
      BY <1>a, <3>1
  <2> QED
    BY <2>4, <2>5
<1>8. {seed} \cup first \cup second = {seed} \cup a \cup b
  BY <1>3, <1>5
<1>9. third = c \ ({seed} \cup a \cup b)
  BY <1>0, <1>7, <1>8
<1> QED
  BY <1>5, <1>9 DEF a, b, c, first, second, third

\* The scores of a search that is cut nowhere.
Uncut(seed) ==
    LET first  == Beside({seed}) \ {seed}
        second == Beside(first) \ ({seed} \cup first)
        third  == Beside(second) \ ({seed} \cup first \cup second)
    IN  [n \in first \cup second \cup third |->
             IF n \in first THEN 60 ELSE IF n \in second THEN 30 ELSE 20]

LEMMA ProximityIs ==
    ASSUME NEW seed
    PROVE  /\ Proximity(seed) = Uncut(seed) /\ IsScores(Proximity(seed))
           /\ DOMAIN Proximity(seed)
                 = (Beside({seed}) \cup Beside(Beside({seed})) \cup Beside(Beside(Beside({seed})))) \ {seed}
<1> DEFINE a == Beside({seed})
           b == Beside(a)
           c == Beside(b)
           first  == a \ {seed}
           second == Beside(first) \ ({seed} \cup first)
           third  == Beside(second) \ ({seed} \cup first \cup second)
           D == first \cup second \cup third
           score(n) == IF n \in first THEN 60 ELSE IF n \in second THEN 30 ELSE 20
           W(k) == WalkEnds(seed, k)
           At(m, k) == m \in W(k) /\ \A i \in 1..(k - 1) : m \notin W(i)
           E == (UNION {W(k) : k \in 1..3}) \ {seed}
<1>1. second = b \ ({seed} \cup a) /\ third = c \ ({seed} \cup a \cup b)
  BY LevelsAreDistances
<1>2. W(1) = a /\ W(2) = b /\ W(3) = c
  BY DEF WalkEnds
<1>3. Uncut(seed) = [n \in D |-> score(n)]
  BY DEF Uncut
<1>4. Proximity(seed) = [m \in E |-> 60 \div CHOOSE k \in 1..3 : At(m, k)]
  BY DEF Proximity
<1>5. D \subseteq Names
  <2>1. a \subseteq Names /\ b \subseteq Names /\ c \subseteq Names
    BY BesideEntities
  <2> HIDE DEF a, b, c, second, third
  <2> QED
    BY <1>1, <2>1
<1> HIDE DEF a, b, c, second, third, W
<1>6. D = E
  <2>1. E = (a \cup b \cup c) \ {seed}
    <3>1. \A k \in 1..3 : k = 1 \/ k = 2 \/ k = 3
      OBVIOUS
    <3>2. 1 \in 1..3 /\ 2 \in 1..3 /\ 3 \in 1..3
      OBVIOUS
    <3> DEFINE U == UNION {W(k) : k \in 1..3}
    <3>3. ASSUME NEW x PROVE x \in U <=> x \in W(1) \cup W(2) \cup W(3)
      <4>1. x \in U <=> \E k \in 1..3 : x \in W(k)
        OBVIOUS
      <4> HIDE DEF U
      <4> QED
        BY <3>1, <3>2, <4>1
    <3>4. E = U \ {seed}
      OBVIOUS
    <3> HIDE DEF U, E
    <3> QED
      BY <1>2, <3>3, <3>4
  <2> QED
    BY <1>1, <2>1
<1>7. ASSUME NEW m \in E PROVE score(m) = 60 \div CHOOSE k \in 1..3 : At(m, k)
  <2>1. m \in first \/ (m \in second /\ m \notin first)
        \/ (m \in third /\ m \notin first /\ m \notin second)
    BY <1>6, <1>7
  <2>2. /\ At(m, 1) <=> m \in a
        /\ At(m, 2) <=> m \in b /\ m \notin a
        /\ At(m, 3) <=> m \in c /\ m \notin a /\ m \notin b
    <3>1. 1..(1 - 1) = {} /\ 1..(2 - 1) = {1} /\ 1..(3 - 1) = {1, 2}
      OBVIOUS
    <3> QED
      BY <1>2, <3>1
  <2> HIDE DEF At
  <2>3. ASSUME NEW l \in 1..3, At(m, l), \A k \in 1..3 : At(m, k) => k = l
        PROVE  (CHOOSE k \in 1..3 : At(m, k)) = l
    BY <2>3
  <2>4. CASE m \in first
    <3>1. (CHOOSE k \in 1..3 : At(m, k)) = 1
      BY <2>2, <2>3, <2>4
    <3>2. score(m) = 60 /\ 60 \div 1 = 60
      BY <1>1, <2>4
    <3> QED
      BY <3>1, <3>2
  <2>5. CASE m \in second /\ m \notin first
    <3>1. (CHOOSE k \in 1..3 : At(m, k)) = 2
      BY <1>1, <2>2, <2>3, <2>5
    <3>2. score(m) = 30 /\ 60 \div 2 = 30
      BY <1>1, <2>5
    <3> QED
      BY <3>1, <3>2
  <2>6. CASE m \in third /\ m \notin first /\ m \notin second
    <3>1. (CHOOSE k \in 1..3 : At(m, k)) = 3
      BY <1>1, <2>2, <2>3, <2>6
    <3>2. score(m) = 20 /\ 60 \div 3 = 20
      BY <1>1, <2>6
    <3> QED
      BY <3>1, <3>2
  <2> QED
    BY <2>1, <2>4, <2>5, <2>6
<1>10. E = (a \cup b \cup c) \ {seed}
  BY <1>1, <1>6
<1> HIDE DEF At, D, E, score
<1>8. [n \in D |-> score(n)] = Proximity(seed)
  BY <1>4, <1>6, <1>7
<1>9. IsScores([n \in D |-> score(n)])
  BY <1>5 DEF IsScores, score
<1>11. DOMAIN Proximity(seed) = (a \cup b \cup c) \ {seed}
  BY <1>4, <1>10
<1> QED
  BY <1>3, <1>8, <1>9, <1>11 DEF a, b, c

\* A search finds no more than the proximities, and them where nothing is cut.
LEMMA NearnessIs ==
    ASSUME StoresInv, NEW seed, NEW cut \in Cuts(None)
    PROVE  /\ IsScores(Nearness(seed, cut))
           /\ DOMAIN Nearness(seed, cut) \subseteq DOMAIN Proximity(seed)
           /\ Hubs = {} => Nearness(seed, cut) = Proximity(seed)
<1> DEFINE around(S) == Around(S, None, cut)
           first  == around({seed}) \ {seed}
           second == around(first) \ ({seed} \cup first)
           third  == around(second) \ ({seed} \cup first \cup second)
           score(n) == IF n \in first THEN 60 ELSE IF n \in second THEN 30 ELSE 20
           a == Beside({seed})
           b == Beside(a)
           c == Beside(b)
<1>1. ASSUME NEW S
      PROVE  around(S) \subseteq Beside(S) /\ (Hubs = {} => around(S) = Beside(S))
  <2>1. around(S) \subseteq Beyond(S, None) /\ (Hubs = {} => around(S) = Beyond(S, None))
    BY AroundSome
  <2> QED
    BY <2>1, BeyondIs
<1>2. Nearness(seed, cut) = [n \in first \cup second \cup third |-> score(n)]
  BY DEF Nearness
<1>3. ASSUME Hubs = {} PROVE Nearness(seed, cut) = Proximity(seed)
  <2>1. \A S : Around(S, None, cut) = Beside(S)
    BY <1>1, <1>3
  <2>2. Nearness(seed, cut) = Uncut(seed)
    BY <2>1 DEF Nearness, Uncut
  <2> QED
    BY <2>2, ProximityIs
<1>4. \A S, T : S \subseteq T => Beside(S) \subseteq Beside(T)
  BY DEF Beside
<1>5. first \subseteq a \ {seed} /\ second \subseteq around(first) \ {seed}
      /\ third \subseteq around(second) \ {seed}
  BY <1>1
<1> HIDE DEF around, first, second, third, a, b, c
<1>6. second \subseteq b \ {seed}
  <2>1. Beside(first) \subseteq b
    BY <1>4, <1>5 DEF b
  <2> QED
    BY <1>1, <1>5, <2>1
<1>7. third \subseteq c \ {seed}
  <2>1. Beside(second) \subseteq c
    BY <1>4, <1>6 DEF c
  <2> QED
    BY <1>1, <1>5, <2>1
<1>8. DOMAIN Proximity(seed) = (a \cup b \cup c) \ {seed} /\ IsScores(Proximity(seed))
  BY ProximityIs DEF a, b, c
<1>9. DOMAIN Nearness(seed, cut) \subseteq DOMAIN Proximity(seed)
  BY <1>2, <1>5, <1>6, <1>7, <1>8
<1>10. IsScores(Nearness(seed, cut))
  <2>1. first \cup second \cup third \subseteq Names
    BY <1>2, <1>8, <1>9 DEF IsScores
  <2>2. \A n : score(n) \in Int
    OBVIOUS
  <2> HIDE DEF score
  <2> QED
    BY <1>2, <2>1, <2>2 DEF IsScores
<1> QED
  BY <1>3, <1>9, <1>10

\* The scores of a graph leg that is cut nowhere.
Near(seed) == IF hasGraph /\ seed # None THEN Proximity(seed) ELSE << >>

LEMMA GraphScoresAre ==
    ASSUME StoresInv, NEW seed, NEW gra \in GraphScores(seed)
    PROVE  /\ IsScores(gra) /\ IsScores(Near(seed))
           /\ DOMAIN gra \subseteq DOMAIN Near(seed)
           /\ Hubs = {} => gra = Near(seed)
<1>1. CASE hasGraph /\ seed # None
  <2>1. PICK cut \in Cuts(None) : gra = Nearness(seed, cut)
    BY <1>1 DEF GraphScores
  <2> QED
    BY <1>1, <2>1, NearnessIs, ProximityIs DEF Near
<1>2. CASE ~(hasGraph /\ seed # None)
  <2>1. gra = << >> /\ Near(seed) = << >>
    BY <1>2 DEF GraphScores, Near
  <2> QED
    BY <2>1, NoScores
<1> QED
  BY <1>1, <1>2

IsWeights(w) == w.semantic \in Int /\ w.graph \in Int /\ w.path \in Int

LEMMA HybridQueryFacts ==
    ASSUME NEW q \in HybridQueries
    PROVE  /\ q.top \in Nat /\ 2 * q.top \in Nat
           /\ q.strategy \in {"filter_then_fuse", "independent_then_fuse", "fuse_then_filter"}
           /\ IsWeights(q.weights) /\ IsWeights([q.weights EXCEPT !.path = 0])
           /\ "seed" \in DOMAIN q
<1>1. q.weights \in [semantic : Int, graph : Int, path : Int]
  BY RetrievalAssumption
<1> DEFINE w == q.weights
<1> HIDE DEF w
<1>2. w \in [semantic : Int, graph : Int, path : Int]
  BY <1>1 DEF w
<1>3. IsWeights(w) /\ IsWeights([w EXCEPT !.path = 0])
  BY <1>2 DEF IsWeights
<1> QED
  BY <1>3, RetrievalAssumption DEF w

LEMMA FusedTyped ==
    ASSUME NEW sem, IsScores(sem), NEW gra, IsScores(gra), NEW pat, IsScores(pat),
           NEW w, IsWeights(w), NEW ids \in SUBSET Names
    PROVE  IsScores(Fused(sem, gra, pat, w, ids))
<1>1. ASSUME NEW n \in ids
      PROVE  w.semantic * Score(sem, n) + w.graph * Score(gra, n)
                + w.path * Score(pat, n) \in Int
  <2>1. Score(sem, n) \in Int /\ Score(gra, n) \in Int /\ Score(pat, n) \in Int
    BY ScoreIsInt
  <2>2. \A i, j \in Int : i * j \in Int
    OBVIOUS
  <2>3. w.semantic \in Int /\ w.graph \in Int /\ w.path \in Int
    BY DEF IsWeights
  <2>4. /\ w.semantic * Score(sem, n) \in Int /\ w.graph * Score(gra, n) \in Int
        /\ w.path * Score(pat, n) \in Int
    BY <2>1, <2>2, <2>3
  <2>5. \A i, j, k \in Int : i + j + k \in Int
    OBVIOUS
  <2> QED
    BY <2>4, <2>5
<1> DEFINE score(n) ==
             IF w.semantic + w.graph + w.path > 0
             THEN w.semantic * Score(sem, n) + w.graph * Score(gra, n) + w.path * Score(pat, n)
             ELSE 0
<1>2. Fused(sem, gra, pat, w, ids) = [n \in ids |-> score(n)]
  BY DEF Fused
<1>3. \A n \in ids : score(n) \in Int
  BY <1>1
<1> HIDE DEF score
<1> QED
  BY <1>2, <1>3 DEF IsScores

\* The candidates of a strategy.
Candidates(q, sem, gra, pat) ==
    CASE q.strategy = "filter_then_fuse" ->
           IF pat # << >> THEN DOMAIN pat ELSE DOMAIN sem \cup DOMAIN gra
      [] q.strategy = "independent_then_fuse" -> DOMAIN sem \cup DOMAIN gra \cup DOMAIN pat
      [] q.strategy = "fuse_then_filter" -> DOMAIN sem \cup DOMAIN gra

LEMMA ScoresOfTyped ==
    ASSUME NEW sem, IsScores(sem), NEW gra, IsScores(gra), NEW pat, IsScores(pat),
           NEW q \in HybridQueries
    PROVE  /\ IsScores(ScoresOf(q, sem, gra, pat))
           /\ DOMAIN ScoresOf(q, sem, gra, pat) = Candidates(q, sem, gra, pat)
<1> DEFINE hits == DOMAIN sem \cup DOMAIN gra
           some == IF pat # << >> THEN DOMAIN pat ELSE hits
<1>1. hits \subseteq Names /\ DOMAIN pat \subseteq Names
  BY DEF IsScores
<1>2. some \subseteq Names /\ hits \cup DOMAIN pat \subseteq Names
  BY <1>1
<1>3. \A p, w, ids : DOMAIN Fused(sem, gra, p, w, ids) = ids
  BY DEF Fused
<1> DEFINE w == q.weights
           u == [q.weights EXCEPT !.path = 0]
<1>7. IsWeights(w) /\ IsWeights(u)
  BY HybridQueryFacts
<1>4. CASE q.strategy = "filter_then_fuse"
  <2>1. ScoresOf(q, sem, gra, pat) = Fused(sem, gra, pat, w, some)
    BY <1>4 DEF ScoresOf
  <2>2. Candidates(q, sem, gra, pat) = some
    BY <1>4 DEF Candidates
  <2> HIDE DEF some, w
  <2> QED
    BY <1>2, <1>3, <1>7, <2>1, <2>2, FusedTyped
<1>5. CASE q.strategy = "independent_then_fuse"
  <2>1. ScoresOf(q, sem, gra, pat) = Fused(sem, gra, pat, w, hits \cup DOMAIN pat)
    BY <1>5 DEF ScoresOf
  <2>2. Candidates(q, sem, gra, pat) = hits \cup DOMAIN pat
    BY <1>5 DEF Candidates
  <2> HIDE DEF hits, w, u
  <2> QED
    BY <1>2, <1>3, <1>7, <2>1, <2>2, FusedTyped
<1>6. CASE q.strategy = "fuse_then_filter"
  <2>1. ScoresOf(q, sem, gra, pat) = Fused(sem, gra, << >>, u, hits)
    BY <1>6 DEF ScoresOf
  <2>2. Candidates(q, sem, gra, pat) = hits
    BY <1>6 DEF Candidates
  <2>3. IsScores(<< >>)
    BY NoScores
  <2> HIDE DEF hits, w, u
  <2>4. \A p : IsScores(p) => IsScores(Fused(sem, gra, p, u, hits))
    BY <1>1, <1>7, FusedTyped
  <2> QED
    BY <1>3, <2>1, <2>2, <2>3, <2>4
<1> QED
  BY <1>4, <1>5, <1>6, HybridQueryFacts

\* What a hybrid search ranks.
Wanted(q, sem, gra, pat) ==
    LET scores == ScoresOf(q, sem, gra, pat)
    IN  IF q.strategy = "fuse_then_filter" /\ q.pattern # << >>
        THEN Restrict(scores, DOMAIN scores \cap DOMAIN pat) ELSE scores

\* It is among what the three legs found; the more the first, the more is ranked.
LEMMA WantedTyped ==
    ASSUME NEW sem, IsScores(sem), NEW gra, IsScores(gra), NEW pat, IsScores(pat),
           NEW q \in HybridQueries
    PROVE  /\ IsScores(Wanted(q, sem, gra, pat))
           /\ DOMAIN Wanted(q, sem, gra, pat) \subseteq DOMAIN sem \cup DOMAIN gra \cup DOMAIN pat
           /\ \A less : IsScores(less) /\ DOMAIN less \subseteq DOMAIN sem =>
                 DOMAIN Wanted(q, less, gra, pat) \subseteq DOMAIN Wanted(q, sem, gra, pat)
<1> DEFINE scores(x) == ScoresOf(q, x, gra, pat)
           some(x) == Restrict(scores(x), DOMAIN scores(x) \cap DOMAIN pat)
           filter == q.strategy = "fuse_then_filter" /\ q.pattern # << >>
<1>1. \A x : IsScores(x) =>
         IsScores(scores(x)) /\ DOMAIN scores(x) = Candidates(q, x, gra, pat)
  BY ScoresOfTyped
<1>2. \A x : Wanted(q, x, gra, pat) = IF filter THEN some(x) ELSE scores(x)
  BY DEF Wanted
<1> HIDE DEF scores, filter
<1>3. \A x : DOMAIN some(x) = DOMAIN scores(x) \cap DOMAIN pat
             /\ \A n \in DOMAIN some(x) : some(x)[n] = scores(x)[n]
  BY DEF Restrict
<1>4. IsScores(some(sem))
  <2>1. IsScores(scores(sem))
    BY <1>1
  <2> QED
    BY <2>1 DEF IsScores, Restrict
<1> HIDE DEF some
<1>5. \A x : Candidates(q, x, gra, pat) \subseteq DOMAIN x \cup DOMAIN gra \cup DOMAIN pat
  BY HybridQueryFacts DEF Candidates
<1>6. \A x : DOMAIN x \subseteq DOMAIN sem =>
              Candidates(q, x, gra, pat) \subseteq Candidates(q, sem, gra, pat)
  BY HybridQueryFacts DEF Candidates
<1>7. IsScores(Wanted(q, sem, gra, pat))
  BY <1>1, <1>2, <1>4
<1>10. ASSUME NEW x, IsScores(x)
       PROVE  DOMAIN Wanted(q, x, gra, pat)
                = IF filter THEN Candidates(q, x, gra, pat) \cap DOMAIN pat ELSE Candidates(q, x, gra, pat)
  <2>1. DOMAIN scores(x) = Candidates(q, x, gra, pat)
    BY <1>1, <1>10
  <2>2. DOMAIN some(x) = DOMAIN scores(x) \cap DOMAIN pat
    BY <1>3
  <2>3. Wanted(q, x, gra, pat) = IF filter THEN some(x) ELSE scores(x)
    BY <1>2
  <2> QED
    BY <2>1, <2>2, <2>3
<1>8. DOMAIN Wanted(q, sem, gra, pat) \subseteq DOMAIN sem \cup DOMAIN gra \cup DOMAIN pat
  <2>1. Candidates(q, sem, gra, pat) \subseteq DOMAIN sem \cup DOMAIN gra \cup DOMAIN pat
    BY <1>5
  <2> QED
    BY <1>10, <2>1
<1>9. ASSUME NEW less, IsScores(less), DOMAIN less \subseteq DOMAIN sem
      PROVE  DOMAIN Wanted(q, less, gra, pat) \subseteq DOMAIN Wanted(q, sem, gra, pat)
  <2>1. Candidates(q, less, gra, pat) \subseteq Candidates(q, sem, gra, pat)
    BY <1>6, <1>9
  <2> QED
    BY <1>9, <1>10, <2>1
<1> QED
  BY <1>7, <1>8, <1>9
\* All vectors that a search may have to come back to.
Compared(q) == IF q.dimension = None THEN << >> ELSE vectors

\* All that the legs may find, and its ranking.
Findable(q) == DOMAIN Compared(q) \cup DOMAIN Near(q.seed) \cup DOMAIN MatchScores(q)

AllWanted(q) == Wanted(q, Compared(q), Near(q.seed), MatchScores(q))

HybridBest(q, ids) ==
    /\ Len(ids) <= q.top
    /\ ToSet(ids) \subseteq IF Hubs = {} THEN DOMAIN AllWanted(q) ELSE Findable(q)
    /\ Hubs = {} /\ Cardinality(DOMAIN Compared(q)) <= 2 * q.top => Best(ids, AllWanted(q), q.top)

LEMMA ComparedTyped ==
    ASSUME StoresInv, NEW q
    PROVE  IsScores(Compared(q)) /\ IsFiniteSet(DOMAIN Compared(q))
<1>1. IsScores(Compared(q))
  BY NoScores DEF Compared, StoresInv, IsScores
<1> QED
  BY <1>1, ScoresFinite

\* Of no more vectors than are fetched, all are.
LEMMA FetchedVectors ==
    ASSUME StoresInv, NEW q \in HybridQueries,
           NEW near \in (IF q.dimension = None THEN {<< >>} ELSE Ranked(vectors)),
           NEW sem, sem = Restrict(vectors, ToSet(First(near, Fetched(q.top))))
    PROVE  /\ IsScores(sem) /\ DOMAIN sem \subseteq DOMAIN Compared(q)
           /\ Cardinality(DOMAIN Compared(q)) <= 2 * q.top => sem = Compared(q)
<1> DEFINE n == 2 * q.top
           f == First(near, n)
<1>1. n \in Nat /\ sem = Restrict(vectors, ToSet(f))
  BY HybridQueryFacts DEF Fetched
<1>2. CASE q.dimension = None
  <2>1. near = << >> /\ near \in Seq(Names)
    BY <1>2
  <2>2. Len(f) = 0 /\ DOMAIN f = 1..0
    <3>1. Len(near) = 0 /\ near \in Seq(Names)
      BY <2>1
    <3>2. Len(f) = (IF n < Len(near) THEN n ELSE Len(near)) /\ DOMAIN f = 1..Len(f)
      <4> HIDE DEF n
      <4> QED
        BY <1>1, <3>1, FirstFacts
    <3> HIDE DEF f, n
    <3>3. (IF n < Len(near) THEN n ELSE Len(near)) = 0
      BY <1>1, <3>1
    <3> QED
      BY <3>2, <3>3
  <2>3. ToSet(f) = {}
    BY <2>2 DEF ToSet
  <2>4. sem = << >> /\ Compared(q) = << >>
    BY <1>1, <1>2, <2>3 DEF Restrict, Compared
  <2> QED
    BY <2>4, NoScores
<1>3. CASE q.dimension # None
  <2>1. Compared(q) = vectors /\ near \in Ranked(vectors) /\ IsFiniteSet(DOMAIN vectors)
    BY <1>3, ComparedTyped DEF Compared
  <2>2. IsRanking(near, vectors)
    BY <2>1, RankedIsRanking
  <2>3. near \in Seq(DOMAIN vectors) /\ Len(near) = Cardinality(DOMAIN vectors) /\ Len(near) \in Nat
    BY <2>2, RankingLength DEF IsRanking
  <2>4. /\ f \in Seq(DOMAIN vectors) /\ DOMAIN f = 1..Len(f)
        /\ Len(f) = (IF n < Len(near) THEN n ELSE Len(near))
        /\ \A i \in 1..Len(f) : f[i] = near[i]
    <3> HIDE DEF n
    <3> QED
      BY <1>1, <2>3, FirstFacts
  <2> HIDE DEF f, n
  <2>5. ToSet(f) \subseteq DOMAIN vectors
    BY <2>4 DEF ToSet
  <2>6. IsScores(sem) /\ DOMAIN sem \subseteq DOMAIN vectors
    BY <1>1, <2>5 DEF StoresInv, IsScores, Restrict
  <2>7. ASSUME Len(near) <= n PROVE sem = vectors
    <3>1. Len(f) = Len(near)
      <4>1. Len(near) \in Nat /\ n \in Nat /\ (~(n < Len(near)) \/ n = Len(near))
        BY <1>1, <2>3, <2>7
      <4> QED
        BY <2>4, <4>1
    <3>2. DOMAIN vectors \subseteq ToSet(f)
      <4> SUFFICES ASSUME NEW x \in DOMAIN vectors PROVE x \in ToSet(f)
        OBVIOUS
      <4>1. PICK i \in 1..Len(near) : near[i] = x
        BY <2>2 DEF IsRanking
      <4>2. i \in DOMAIN f /\ f[i] = x
        BY <2>4, <3>1, <4>1
      <4> QED
        BY <4>2 DEF ToSet
    <3>3. sem = [x \in DOMAIN vectors |-> vectors[x]]
      BY <1>1, <2>5, <3>2 DEF Restrict
    <3> QED
      BY <3>3 DEF StoresInv
  <2> QED
    BY <2>1, <2>3, <2>6, <2>7 DEF n
<1> QED
  BY <1>2, <1>3

LEMMA HybridAnswered ==
    ASSUME StoresInv, NEW q \in HybridQueries,
           NEW near \in (IF q.dimension = None THEN {<< >>} ELSE Ranked(vectors)),
           NEW sem, sem = Restrict(vectors, ToSet(First(near, Fetched(q.top)))),
           NEW gra \in GraphScores(q.seed), NEW pat \in PathScores(q.seed, q.pattern),
           NEW ranked \in Ranked(ScoresOf(q, sem, gra, pat))
    PROVE  HybridBest(q, First(Filtered(q, ranked, pat), q.top))
<1> DEFINE scores == ScoresOf(q, sem, gra, pat)
           kept == Filtered(q, ranked, pat)
           ids == First(kept, q.top)
           wanted == Wanted(q, sem, gra, pat)
           all == Compared(q)
<1>1. /\ IsScores(sem) /\ DOMAIN sem \subseteq DOMAIN all
      /\ Cardinality(DOMAIN all) <= 2 * q.top => sem = all
  BY FetchedVectors
<1>2. /\ IsScores(gra) /\ IsScores(Near(q.seed)) /\ DOMAIN gra \subseteq DOMAIN Near(q.seed)
      /\ Hubs = {} => gra = Near(q.seed)
  BY GraphScoresAre
<1>3. /\ IsScores(pat) /\ IsScores(MatchScores(q)) /\ DOMAIN pat \subseteq DOMAIN MatchScores(q)
      /\ Hubs = {} => pat = MatchScores(q)
  BY PathScoresAre
<1>4. IsRanking(kept, wanted)
  <2>1. IsScores(scores)
    BY <1>1, <1>2, <1>3, ScoresOfTyped
  <2>2. IsRanking(ranked, scores)
    <3> HIDE DEF scores
    <3> QED
      BY <2>1, ScoresFinite, RankedIsRanking DEF scores
  <2>3. CASE q.strategy = "fuse_then_filter" /\ q.pattern # << >>
    <3>1. kept = Kept(ranked, DOMAIN pat)
      BY <2>3 DEF Filtered
    <3>2. wanted = Restrict(scores, DOMAIN scores \cap DOMAIN pat)
      BY <2>3 DEF Wanted
    <3> HIDE DEF kept, scores, wanted
    <3> QED
      BY <2>2, <3>1, <3>2, KeptRanking
  <2>4. CASE ~(q.strategy = "fuse_then_filter" /\ q.pattern # << >>)
    <3>1. kept = ranked
      BY <2>4 DEF Filtered
    <3>2. wanted = scores
      BY <2>4 DEF Wanted
    <3> QED
      BY <2>2, <3>1, <3>2
  <2> QED
    BY <2>3, <2>4
<1>5. /\ IsScores(wanted) /\ q.top \in Nat
      /\ DOMAIN wanted \subseteq DOMAIN sem \cup DOMAIN gra \cup DOMAIN pat
  <2>1. IsScores(sem) /\ IsScores(gra) /\ IsScores(pat)
    BY <1>1, <1>2, <1>3
  <2>2. q.top \in Nat
    BY HybridQueryFacts
  <2> HIDE DEF scores, kept, ids, all
  <2>3. /\ IsScores(Wanted(q, sem, gra, pat))
        /\ DOMAIN Wanted(q, sem, gra, pat) \subseteq DOMAIN sem \cup DOMAIN gra \cup DOMAIN pat
    BY ONLY <2>1, WantedTyped, q \in HybridQueries
  <2> QED
    BY <2>2, <2>3
<1> HIDE DEF kept, wanted
<1>6. Best(ids, wanted, q.top)
  BY <1>4, <1>5, FirstAreBest DEF IsScores
<1>7. Len(ids) <= q.top /\ ToSet(ids) \subseteq DOMAIN wanted
  <2>1. IsFiniteSet(DOMAIN wanted)
    BY <1>5, ScoresFinite
  <2>2. Cardinality(DOMAIN wanted) \in Nat
    BY <2>1, FS_CardinalityType
  <2> QED
    BY <1>5, <1>6, <2>2 DEF Best
<1>8. ToSet(ids) \subseteq Findable(q)
  BY <1>1, <1>2, <1>3, <1>5, <1>7 DEF Findable
<1>9. ASSUME Hubs = {}
      PROVE  /\ ToSet(ids) \subseteq DOMAIN AllWanted(q)
             /\ Cardinality(DOMAIN all) <= 2 * q.top => Best(ids, AllWanted(q), q.top)
  <2>1. wanted = Wanted(q, sem, Near(q.seed), MatchScores(q))
    BY <1>2, <1>3, <1>9 DEF wanted
  <2>2. IsScores(all)
    BY ComparedTyped
  <2>3. DOMAIN wanted \subseteq DOMAIN AllWanted(q)
    <3> HIDE DEF all
    <3>1. \A less : IsScores(less) /\ DOMAIN less \subseteq DOMAIN all =>
             DOMAIN Wanted(q, less, Near(q.seed), MatchScores(q))
               \subseteq DOMAIN Wanted(q, all, Near(q.seed), MatchScores(q))
      BY <1>2, <1>3, <2>2, WantedTyped
    <3> QED
      BY <1>1, <2>1, <3>1 DEF AllWanted, all
  <2>4. Cardinality(DOMAIN all) <= 2 * q.top => wanted = AllWanted(q)
    BY <1>1, <2>1 DEF AllWanted
  <2> QED
    BY <1>6, <1>7, <2>3, <2>4
<1> QED
  BY <1>7, <1>8, <1>9 DEF HybridBest, kept

\* A concept is found among the first of all.
SemanticBest(q, ids) ==
    LET wanted == {v \in DOMAIN vectors : q.concept \in {None, ConceptOf[v]}}
        rivals(v) == {x \in DOMAIN vectors \ {v} : vectors[x] >= vectors[v]}
    IN  /\ ToSet(ids) \subseteq wanted
        /\ \A v \in wanted : Cardinality(rivals(v)) < q.top => v \in ToSet(ids)

LEMMA SemanticAnswered ==
    ASSUME StoresInv, NEW q \in SemanticQueries, NEW ranked \in Ranked(vectors)
    PROVE  SemanticBest(q, Kept(First(ranked, q.top),
                                {v \in DOMAIN vectors : q.concept \in {None, ConceptOf[v]}}))
<1> DEFINE D == DOMAIN vectors
           wanted == {v \in D : q.concept \in {None, ConceptOf[v]}}
           rivals(v) == {x \in D \ {v} : vectors[x] >= vectors[v]}
           f == First(ranked, q.top)
           ids == Kept(f, wanted)
<1>1. IsScores(vectors) /\ IsFiniteSet(D)
  BY ScoresFinite DEF StoresInv, IsScores
<1>2. IsRanking(ranked, vectors) /\ q.top \in Nat
  BY <1>1, RankedIsRanking, RetrievalAssumption
<1>3. ranked \in Seq(D) /\ Len(ranked) \in Nat
  BY <1>2 DEF IsRanking
<1>4. /\ f \in Seq(D) /\ Len(f) \in Nat /\ DOMAIN f = 1..Len(f)
      /\ Len(f) = (IF q.top < Len(ranked) THEN q.top ELSE Len(ranked))
      /\ \A i \in 1..Len(f) : f[i] = ranked[i]
  BY <1>2, <1>3, FirstFacts
<1> HIDE DEF f, wanted
<1>5. PICK at : Chosen(ids, f, wanted, at)
  BY <1>4, KeptIsChosen
<1>6. ToSet(ids) \subseteq wanted
  BY <1>5 DEF Chosen, ToSet
<1>7. ASSUME NEW v \in wanted, Cardinality(rivals(v)) < q.top PROVE v \in ToSet(ids)
  <2>1. v \in D
    BY DEF wanted
  <2>2. PICK i \in 1..Len(ranked) : ranked[i] = v
    BY <1>2, <2>1 DEF IsRanking
  <2> DEFINE before == [j \in 1..(i - 1) |-> ranked[j]]
  <2>3. rivals(v) \in SUBSET D /\ IsFiniteSet(rivals(v))
    BY <1>1, FS_Subset
  <2>4. ASSUME NEW j \in 1..(i - 1) PROVE ranked[j] \in rivals(v)
    <3>1. j \in 1..Len(ranked) /\ j < i
      BY <1>3, <2>2
    <3>2. ranked[j] \in D /\ ranked[j] # v /\ vectors[ranked[j]] >= vectors[v]
      BY <1>2, <1>3, <2>2, <3>1, ElementOfSeq DEF IsRanking
    <3> QED
      BY <3>2
  <2>5. \A j, l \in 1..(i - 1) : ranked[j] = ranked[l] => j = l
    <3>1. \A j \in 1..(i - 1) : j \in 1..Len(ranked)
      BY <1>3, <2>2
    <3> QED
      BY <1>2, <3>1 DEF IsRanking
  <2> HIDE DEF rivals
  <2>6. before \in Injection(1..(i - 1), rivals(v))
    BY <2>4, <2>5 DEF Injection, IsInjective
  <2>7. Cardinality(1..(i - 1)) = i - 1
    <3>1. i - 1 \in Nat
      BY <1>3, <2>2
    <3> QED
      BY <3>1, OneTo
  <2>8. i - 1 <= Cardinality(rivals(v)) /\ Cardinality(rivals(v)) \in Nat
    BY <2>3, <2>6, <2>7, FS_Injection, FS_CardinalityType
  <2>9. i \in 1..Len(f)
    <3>1. i \in Int /\ 1 <= i /\ i <= Len(ranked)
      BY <1>3, <2>2
    <3> QED
      BY <1>2, <1>3, <1>4, <1>7, <2>8, <3>1
  <2>10. PICK k \in 1..Len(ids) : at[k] = i
    BY <1>4, <1>5, <1>7, <2>2, <2>9 DEF Chosen
  <2>11. ids[k] = v /\ k \in DOMAIN ids
    BY <1>4, <1>5, <2>2, <2>9, <2>10 DEF Chosen
  <2> QED
    BY <2>11 DEF ToSet
<1> QED
  BY <1>6, <1>7 DEF SemanticBest, f, wanted
-----------------------------------------------------------------------------
\* An answer was right for the stores, which are as they were.
HybridRight ==
    answer.kind = "hybrid" =>
        \E q \in HybridQueries, ids \in {answer.ids} : answer.query = q /\ HybridBest(q, ids)

SemanticRight ==
    answer.kind = "semantic" =>
        \E q \in SemanticQueries, ids \in {answer.ids} : answer.query = q /\ SemanticBest(q, ids)

FailedRight ==
    answer.kind = "failed" /\ "dimension" \in DOMAIN answer.query =>
        /\ answer.query.dimension # None
        /\ \/ dimension # answer.query.dimension
           \/ "seed" \in DOMAIN answer.query /\ dimension # 1 /\ vectors # << >>

SearchInv == HybridRight /\ SemanticRight /\ FailedRight

\* What is asked of the stores is as before where these are.
LEMMA SameStores ==
    ASSUME UNCHANGED stores, NEW CONSTANT q, NEW CONSTANT ids
    PROVE  (HybridBest(q, ids)' <=> HybridBest(q, ids)) /\ (SemanticBest(q, ids)' <=> SemanticBest(q, ids))
<1>1. relations' = relations /\ hasGraph' = hasGraph /\ vectors' = vectors
  BY DEF stores
<1>2. \A S : Beside(S)' = Beside(S)
  BY <1>1 DEF Beside, Adjacent
<1>3. \A n : Proximity(n)' = Proximity(n)
  <2>1. \A n, k : WalkEnds(n, k)' = WalkEnds(n, k)
    BY <1>2 DEF WalkEnds
  <2> QED
    BY <2>1 DEF Proximity
<1>4. Near(q.seed)' = Near(q.seed) /\ MatchScores(q)' = MatchScores(q) /\ Compared(q)' = Compared(q)
  BY <1>1, <1>3 DEF Near, MatchScores, Matches, Compared
<1>5. AllWanted(q)' = AllWanted(q) /\ Findable(q)' = Findable(q)
  BY <1>4 DEF AllWanted, Findable, Wanted, ScoresOf, Fused, Score
<1>6. Hubs' = Hubs
  BY <1>1 DEF Hubs, Outgoing, Incoming
<1>8. HybridBest(q, ids)' <=> HybridBest(q, ids)
  BY <1>4, <1>5, <1>6 DEF HybridBest, Best
<1>9. SemanticBest(q, ids)' <=> SemanticBest(q, ids)
  BY <1>1 DEF SemanticBest
<1> QED
  BY <1>8, <1>9

LEMMA HybridStep ==
    ASSUME StoresInv, NEW q \in HybridQueries, HybridSearch(q)
    PROVE  SearchInv'
<1>1. UNCHANGED stores
  BY DEF HybridSearch
<1>2. CASE q.dimension # None /\ ~Searchable(q.dimension)
  <2>1. answer' = [kind |-> "failed", query |-> q]
    BY <1>2 DEF HybridSearch
  <2>2. dimension' # q.dimension /\ q.dimension # None
    <3>1. dimension # q.dimension /\ q.dimension # None
      BY <1>2 DEF Searchable
    <3> QED
      BY <1>1, <3>1 DEF stores
  <2> QED
    BY <2>1, <2>2 DEF SearchInv, HybridRight, SemanticRight, FailedRight
<1>3. CASE ~(q.dimension # None /\ ~Searchable(q.dimension))
  <2>1. PICK near \in (IF q.dimension = None THEN {<< >>} ELSE Ranked(vectors)) :
           \E sem \in {Restrict(vectors, ToSet(First(near, Fetched(q.top))))},
              gra \in GraphScores(q.seed), pat \in PathScores(q.seed, q.pattern) :
             \E ranked \in Ranked(ScoresOf(q, sem, gra, pat)) :
               \E ids \in {First(Filtered(q, ranked, pat), q.top)} :
                 answer' = IF dimension # 1 /\ ToSet(ids) \cap DOMAIN sem # {}
                           THEN [kind |-> "failed", query |-> q]
                           ELSE [kind |-> "hybrid", query |-> q, ids |-> ids]
    BY <1>3 DEF HybridSearch
  <2> DEFINE sem == Restrict(vectors, ToSet(First(near, Fetched(q.top))))
  <2>2. PICK gra \in GraphScores(q.seed), pat \in PathScores(q.seed, q.pattern) :
          \E ranked \in Ranked(ScoresOf(q, sem, gra, pat)) :
            \E ids \in {First(Filtered(q, ranked, pat), q.top)} :
              answer' = IF dimension # 1 /\ ToSet(ids) \cap DOMAIN sem # {}
                        THEN [kind |-> "failed", query |-> q]
                        ELSE [kind |-> "hybrid", query |-> q, ids |-> ids]
    BY <2>1
  <2>3. PICK ranked \in Ranked(ScoresOf(q, sem, gra, pat)) :
          \E ids \in {First(Filtered(q, ranked, pat), q.top)} :
            answer' = IF dimension # 1 /\ ToSet(ids) \cap DOMAIN sem # {}
                      THEN [kind |-> "failed", query |-> q]
                      ELSE [kind |-> "hybrid", query |-> q, ids |-> ids]
    BY <2>2
  <2> DEFINE ids == First(Filtered(q, ranked, pat), q.top)
  <2>4. HybridBest(q, ids)
    BY HybridAnswered
  <2>5. DOMAIN sem \subseteq DOMAIN Compared(q)
    BY FetchedVectors
  <2>6. \/ /\ dimension # 1 /\ ToSet(ids) \cap DOMAIN sem # {}
           /\ answer' = [kind |-> "failed", query |-> q]
        \/ answer' = [kind |-> "hybrid", query |-> q, ids |-> ids]
    BY <2>3
  <2> HIDE DEF ids, sem
  <2>7. CASE /\ dimension # 1 /\ ToSet(ids) \cap DOMAIN sem # {}
             /\ answer' = [kind |-> "failed", query |-> q]
    <3>1. DOMAIN Compared(q) # {}
      BY <2>5, <2>7
    <3>2. q.dimension # None /\ vectors # << >>
      BY <3>1, NoScores DEF Compared
    <3>3. dimension' # 1 /\ vectors' # << >> /\ "seed" \in DOMAIN q
      BY <1>1, <2>7, <3>2, HybridQueryFacts DEF stores
    <3>4. answer'.kind = "failed" /\ answer'.query = q
      BY <2>7
    <3> QED
      BY <3>2, <3>3, <3>4 DEF SearchInv, HybridRight, SemanticRight, FailedRight
  <2>8. CASE answer' = [kind |-> "hybrid", query |-> q, ids |-> ids]
    <3>1. PICK y : y = ids
      OBVIOUS
    <3>2. HybridBest(q, y)'
      BY <1>1, <2>4, <3>1, SameStores
    <3>3. answer'.kind = "hybrid" /\ answer'.query = q /\ answer'.ids = y
      BY <2>8, <3>1
    <3>4. HybridRight'
      BY <3>2, <3>3 DEF HybridRight
    <3> QED
      BY <3>3, <3>4 DEF SearchInv, SemanticRight, FailedRight
  <2> QED
    BY <2>6, <2>7, <2>8
<1> QED
  BY <1>2, <1>3

LEMMA SemanticStep ==
    ASSUME StoresInv, NEW q \in SemanticQueries, SemanticSearch(q)
    PROVE  SearchInv'
<1>1. UNCHANGED stores
  BY DEF SemanticSearch
<1>2. CASE ~Searchable(q.dimension)
  <2>1. answer' = [kind |-> "failed", query |-> q]
    BY <1>2 DEF SemanticSearch
  <2>2. dimension = None \/ dimension # q.dimension
    BY <1>2 DEF Searchable
  <2>3. dimension' # q.dimension /\ q.dimension # None
    <3>1. q.dimension # None
      BY RetrievalAssumption
    <3> QED
      BY <1>1, <2>2, <3>1 DEF stores
  <2> QED
    BY <2>1, <2>3 DEF SearchInv, HybridRight, SemanticRight, FailedRight
<1>3. CASE Searchable(q.dimension)
  <2> DEFINE wanted == {v \in DOMAIN vectors : q.concept \in {None, ConceptOf[v]}}
  <2>1. PICK ranked \in Ranked(vectors) :
          answer' = [kind |-> "semantic", query |-> q, ids |-> Kept(First(ranked, q.top), wanted)]
    BY <1>3 DEF SemanticSearch
  <2>2. PICK y : y = Kept(First(ranked, q.top), wanted)
    OBVIOUS
  <2>3. SemanticBest(q, y)
    BY <2>2, SemanticAnswered
  <2>4. SemanticBest(q, y)'
    BY <1>1, <2>3, SameStores
  <2>5. answer'.kind = "semantic" /\ answer'.query = q /\ answer'.ids = y
    BY <2>1, <2>2
  <2>6. SemanticRight'
    BY <2>4, <2>5 DEF SemanticRight
  <2> QED
    BY <2>5, <2>6 DEF SearchInv, HybridRight, FailedRight
<1> QED
  BY <1>2, <1>3

LEMMA SearchStep == StoresInv /\ SearchInv /\ [Next]_vars => SearchInv'
<1> SUFFICES ASSUME StoresInv, SearchInv, [Next]_vars PROVE SearchInv'
  OBVIOUS
<1>1. CASE answer'.kind \in {"none", "match"}
  BY <1>1 DEF SearchInv, HybridRight, SemanticRight, FailedRight
<1>2. CASE UNCHANGED <<answer, stores>>
  <2>1. HybridRight'
    <3>1. SUFFICES ASSUME answer.kind = "hybrid" PROVE HybridRight'
      BY <1>2 DEF HybridRight
    <3>2. PICK q \in HybridQueries, ids \in {answer.ids} : answer.query = q /\ HybridBest(q, ids)
      BY <3>1 DEF SearchInv, HybridRight
    <3>3. HybridBest(q, ids)'
      BY <1>2, <3>2, SameStores
    <3> QED
      BY <1>2, <3>2, <3>3 DEF HybridRight
  <2>2. SemanticRight'
    <3>1. SUFFICES ASSUME answer.kind = "semantic" PROVE SemanticRight'
      BY <1>2 DEF SemanticRight
    <3>2. PICK q \in SemanticQueries, ids \in {answer.ids} : answer.query = q /\ SemanticBest(q, ids)
      BY <3>1 DEF SearchInv, SemanticRight
    <3>3. SemanticBest(q, ids)'
      BY <1>2, <3>2, SameStores
    <3> QED
      BY <1>2, <3>2, <3>3 DEF SemanticRight
  <2>3. FailedRight'
    BY <1>2 DEF SearchInv, FailedRight, stores
  <2> QED
    BY <2>1, <2>2, <2>3 DEF SearchInv
<1>3. CASE \/ \E d \in 1..2 : Initialize(d)
           \/ Close
           \/ \E batch \in Batches : AddVectors(batch)
           \/ \E n \in ToSet(Entities) : DeleteVectors({n})
           \/ \E r \in Relations : AddRelation(r)
           \/ Receive
  <2>1. answer' = NoAnswer
    BY <1>3 DEF Initialize, Close, AddVectors, DeleteVectors, AddRelation, Receive, Change
  <2> QED
    BY <1>1, <2>1 DEF NoAnswer
<1>4. CASE MatchStart \/ MatchHop \/ MatchFound
  BY <1>2, <1>4 DEF MatchStart, MatchHop, MatchFound, Matching
<1>5. CASE EndMatch
  <2>1. answer'.kind = "match"
    BY <1>5 DEF EndMatch
  <2> QED
    BY <1>1, <2>1
<1>6. ASSUME NEW q \in MatchQueries, BeginMatch(q) PROVE SearchInv'
  <2>1. answer'.kind = "match" \/ answer' = NoAnswer \/ answer' = [kind |-> "failed", query |-> q]
    <3> DEFINE paths == LET starts == First(Starts(q), q.limit)
                        IN  [i \in DOMAIN starts |-> <<starts[i]>>]
    <3>1. \/ answer' = [kind |-> "match", query |-> q, given |-> relations, paths |-> paths]
          \/ answer' = NoAnswer
          \/ answer' = [kind |-> "failed", query |-> q]
      BY <1>6 DEF BeginMatch
    <3> HIDE DEF paths
    <3> QED
      BY <3>1
  <2>2. CASE answer'.kind = "match" \/ answer' = NoAnswer
    BY <1>1, <2>2 DEF NoAnswer
  <2>3. CASE answer' = [kind |-> "failed", query |-> q]
    <3>1. "dimension" \notin DOMAIN q
      BY RetrievalAssumption
    <3>2. answer'.kind = "failed" /\ answer'.query = q
      BY <2>3
    <3> QED
      BY <3>1, <3>2 DEF SearchInv, HybridRight, SemanticRight, FailedRight
  <2> QED
    BY <2>1, <2>2, <2>3
<1>7. CASE UNCHANGED vars
  BY <1>2, <1>7 DEF vars, stores
<1> QED
  BY <1>3, <1>4, <1>5, <1>6, <1>7, HybridStep, SemanticStep DEF Next

LEMMA SearchesAreRight ==
    ASSUME SearchInv
    PROVE  SearchesRanked
<1>1. ASSUME answer.kind = "hybrid"
      PROVE  LET q == answer.query
                 sem == IF q.dimension = None THEN << >> ELSE vectors
                 gra == IF hasGraph /\ q.seed # None THEN Proximity(q.seed) ELSE << >>
                 pat == [n \in Matches(q.seed, q.pattern) |-> 60]
                 scores == ScoresOf(q, sem, gra, pat)
                 wanted == IF q.strategy = "fuse_then_filter" /\ q.pattern # << >>
                           THEN Restrict(scores, DOMAIN scores \cap DOMAIN pat) ELSE scores
             IN  /\ Len(answer.ids) <= q.top
                 /\ ToSet(answer.ids) \subseteq
                        IF Hubs = {} THEN DOMAIN wanted ELSE DOMAIN sem \cup DOMAIN gra \cup DOMAIN pat
                 /\ Hubs = {} /\ Cardinality(DOMAIN sem) <= 2 * q.top => Best(answer.ids, wanted, q.top)
  <2>1. HybridBest(answer.query, answer.ids)
    BY <1>1 DEF SearchInv, HybridRight
  <2> QED
    BY <2>1 DEF HybridBest, AllWanted, Findable, Wanted, Compared, Near, MatchScores
<1>2. ASSUME answer.kind = "semantic"
      PROVE  SemanticBest(answer.query, answer.ids)
  BY <1>2 DEF SearchInv, SemanticRight
<1> QED
  BY <1>1, <1>2 DEF SearchInv, FailedRight, SearchesRanked, SemanticBest

\* DefaultRetrievalBackend.hybrid_search and semantic_search: where all vectors
\* are fetched and the graph lists all relations of every entity, the answer is
\* the best of what the similarities, the distances and the paths give, whatever
\* the strategy, the weights and the order of equals; otherwise it is no more
\* than was asked for, of the candidates.  A search for a concept misses none
\* that fewer than top others come up to, and a search fails only with a vector,
\* in a store that cannot compare those it is asked to.
THEOREM SearchesAreRanked == Spec => []SearchesRanked
<1>1. Init => SearchInv
  BY DEF Init, SearchInv, HybridRight, SemanticRight, FailedRight, NoAnswer
<1>2. StoresInv /\ SearchInv /\ [Next]_vars => SearchInv'
  BY SearchStep
<1>3. SearchInv => SearchesRanked
  BY SearchesAreRight
<1> QED
  BY <1>1, <1>2, <1>3, RetrievalInvariance, PTL DEF Spec

-----------------------------------------------------------------------------
\* A set with 0 and the successors of its members holds every natural number.
LEMMA Induction ==
    ASSUME NEW T, 0 \in T, \A n \in Nat : n \in T => n + 1 \in T
    PROVE  \A n \in Nat : n \in T
<1> DEFINE R == {ss \in Nat \X Nat : ss[1] < ss[2]}
           Missing == {n \in Nat : n \notin T}
<1>1. SUFFICES ASSUME Missing # {} PROVE FALSE
  OBVIOUS
<1>2. IsWellFoundedOn(R, Nat)
  BY NatLessThanWellFounded DEF OpToRel
<1>3. \E m \in Missing : \A k \in Missing : <<k, m>> \notin R
  <2>1. Missing \subseteq Nat
    OBVIOUS
  <2> HIDE DEF R, Missing
  <2> QED
    BY <1>1, <1>2, <2>1, WFMin
<1>4. PICK m \in Missing : \A k \in Missing : <<k, m>> \notin R
  BY <1>3
<1>5. m # 0 /\ m - 1 \in Nat /\ <<m - 1, m>> \in R
  OBVIOUS
<1>6. m - 1 \in T
  BY <1>4, <1>5
<1> QED
  BY <1>5, <1>6

-----------------------------------------------------------------------------
\* Walks.  Where one more step leads from S.
Onward(es, S) == UNION {After(es, n) : n \in S}

\* at is right up to k, of where walks of 0, 1, ... edges lead.
Walks(es, at, k) ==
    at = [i \in 0..k |-> IF i = 0 THEN {Source} ELSE Onward(es, at[i - 1])]

LEMMA WalksExist ==
    ASSUME NEW es
    PROVE  \A k \in Nat : \E at : Walks(es, at, k)
<1> DEFINE T == {k \in Nat : \E at : Walks(es, at, k)}
<1>1. 0 \in T
  <2>1. Walks(es, [i \in 0..0 |-> {Source}], 0)
    BY DEF Walks
  <2> QED
    BY <2>1
<1>2. ASSUME NEW k \in Nat, k \in T PROVE k + 1 \in T
  <2>1. PICK at : Walks(es, at, k)
    BY <1>2
  <2> DEFINE more == [i \in 0..(k + 1) |-> IF i = 0 THEN {Source} ELSE Onward(es, at[i - 1])]
  <2>2. \A i \in 0..k : more[i] = at[i]
    <3>1. at = [i \in 0..k |-> IF i = 0 THEN {Source} ELSE Onward(es, at[i - 1])]
      BY <2>1 DEF Walks
    <3>2. \A i \in 0..k : at[i] = IF i = 0 THEN {Source} ELSE Onward(es, at[i - 1])
      BY <3>1
    <3>3. \A i \in 0..k : i \in 0..(k + 1)
      OBVIOUS
    <3> QED
      BY <3>2, <3>3
  <2>3. \A i \in 1..(k + 1) : i - 1 \in 0..k
    OBVIOUS
  <2>4. \A i \in 1..(k + 1) : Onward(es, at[i - 1]) = Onward(es, more[i - 1])
    BY <2>2, <2>3
  <2>5. Walks(es, more, k + 1)
    <3>1. \A i \in 0..(k + 1) : i = 0 \/ i \in 1..(k + 1)
      OBVIOUS
    <3>2. more = [i \in 0..(k + 1) |-> IF i = 0 THEN {Source} ELSE Onward(es, more[i - 1])]
      BY <2>4, <3>1
    <3> QED
      BY <3>2 DEF Walks
  <2> QED
    BY <2>5
<1>3. \A k \in Nat : k \in T
  <2> HIDE DEF T
  <2> QED
    BY <1>1, <1>2, Induction
<1> QED
  BY <1>3

LEMMA WalksAgree ==
    ASSUME NEW es, NEW k \in Nat, NEW at, Walks(es, at, k),
           NEW l \in Nat, NEW other, Walks(es, other, l)
    PROVE  \A i \in Nat : i <= k /\ i <= l => at[i] = other[i]
<1> DEFINE T == {i \in Nat : i <= k /\ i <= l => at[i] = other[i]}
<1>1. 0 \in T
  BY DEF Walks
<1>2. ASSUME NEW i \in Nat, i \in T PROVE i + 1 \in T
  <2>1. SUFFICES ASSUME i + 1 <= k, i + 1 <= l PROVE at[i + 1] = other[i + 1]
    OBVIOUS
  <2>2. at[i] = other[i]
    BY <1>2, <2>1
  <2>3. i + 1 \in 0..k /\ i + 1 \in 0..l /\ i + 1 # 0 /\ (i + 1) - 1 = i
    BY <2>1
  <2>4. at[i + 1] = Onward(es, at[i]) /\ other[i + 1] = Onward(es, other[i])
    BY <2>3 DEF Walks
  <2> QED
    BY <2>2, <2>4
<1>3. \A i \in Nat : i \in T
  <2> HIDE DEF T
  <2> QED
    BY <1>1, <1>2, Induction
<1> QED
  BY <1>3

\* Exactly is what its definition says.
LEMMA ExactlyIs ==
    ASSUME NEW es
    PROVE  /\ Exactly(es, 0) = {Source}
           /\ \A k \in Nat : Exactly(es, k + 1) = Onward(es, Exactly(es, k))
<1> DEFINE walk(k) == CHOOSE at : Walks(es, at, k)
           all == [i \in Nat |-> walk(i)[i]]
           Rule(at) == at = [i \in Nat |-> IF i = 0 THEN {Source}
                                           ELSE UNION {After(es, n) : n \in at[i - 1]}]
<1>1. \A k \in Nat : Walks(es, walk(k), k)
  BY WalksExist
<1> HIDE DEF walk
<1>2. walk(0)[0] = {Source}
  BY <1>1 DEF Walks
<1>3. ASSUME NEW k \in Nat PROVE walk(k + 1)[k + 1] = Onward(es, walk(k)[k])
  <2>1. walk(k + 1)[k + 1] = Onward(es, walk(k + 1)[k])
    <3>1. Walks(es, walk(k + 1), k + 1)
      BY <1>1
    <3>2. k + 1 \in 0..(k + 1) /\ k + 1 # 0 /\ (k + 1) - 1 = k
      OBVIOUS
    <3> QED
      BY <3>1, <3>2 DEF Walks
  <2>2. walk(k + 1)[k] = walk(k)[k]
    <3>1. Walks(es, walk(k + 1), k + 1) /\ Walks(es, walk(k), k) /\ k + 1 \in Nat
      BY <1>1
    <3> QED
      BY <3>1, WalksAgree
  <2> QED
    BY <2>1, <2>2
<1>4. Rule(all)
  <2>1. \A i \in Nat : i = 0 \/ (i - 1 \in Nat /\ (i - 1) + 1 = i)
    OBVIOUS
  <2>2. \A i \in Nat : walk(i)[i] = IF i = 0 THEN {Source} ELSE Onward(es, walk(i - 1)[i - 1])
    BY <1>2, <1>3, <2>1
  <2>3. \A i \in Nat : all[i] = IF i = 0 THEN {Source} ELSE Onward(es, all[i - 1])
    BY <2>1, <2>2
  <2>4. all = [i \in Nat |-> IF i = 0 THEN {Source} ELSE Onward(es, all[i - 1])]
    <3>1. all = [i \in Nat |-> all[i]]
      OBVIOUS
    <3> HIDE DEF all
    <3> QED
      BY <2>3, <3>1
  <2> HIDE DEF all
  <2> QED
    BY <2>4 DEF Onward
<1>5. Rule(CHOOSE at : Rule(at))
  <2> HIDE DEF Rule, all
  <2> QED
    BY <1>4
<1> DEFINE c == CHOOSE at : Rule(at)
<1>6. \A k \in Nat : Exactly(es, k) = c[k]
  BY DEF Exactly
<1>7. c = [i \in Nat |-> IF i = 0 THEN {Source} ELSE UNION {After(es, n) : n \in c[i - 1]}]
  BY <1>5
<1> HIDE DEF c, Rule
<1>8. c[0] = {Source}
  BY <1>7
<1>9. ASSUME NEW k \in Nat PROVE c[k + 1] = Onward(es, c[k])
  <2>1. k + 1 \in Nat /\ k + 1 # 0 /\ (k + 1) - 1 = k
    OBVIOUS
  <2> QED
    BY <1>7, <2>1 DEF Onward
<1>10. \A k \in Nat : Exactly(es, k + 1) = Onward(es, Exactly(es, k))
  <2> TAKE k \in Nat
  <2>1. k + 1 \in Nat
    OBVIOUS
  <2> QED
    BY <1>6, <1>9, <2>1
<1> QED
  BY <1>6, <1>8, <1>10

\* Where walks lead are nodes.
LEMMA ExactlyNodes ==
    ASSUME NEW es, NEW k \in Nat
    PROVE  Exactly(es, k) \subseteq Nodes
<1>1. CASE k = 0
  BY <1>1, ExactlyIs, TraversalAssumption
<1>2. CASE k # 0
  <2>1. k - 1 \in Nat /\ (k - 1) + 1 = k
    BY <1>2
  <2>2. Exactly(es, k) = Onward(es, Exactly(es, k - 1))
    BY <2>1, ExactlyIs
  <2> QED
    BY <2>2 DEF Onward, After
<1> QED
  BY <1>1, <1>2

LEMMA OneMore ==
    ASSUME NEW es, NEW k \in Nat, NEW n \in Exactly(es, k), NEW m \in After(es, n)
    PROVE  m \in Exactly(es, k + 1)
  BY ExactlyIs DEF Onward

LEMMA OneLess ==
    ASSUME NEW es, NEW k \in Nat, NEW m \in Exactly(es, k + 1)
    PROVE  \E n \in Exactly(es, k) : m \in After(es, n)
<1>1. Exactly(es, k + 1) = Onward(es, Exactly(es, k))
  BY ExactlyIs
<1> QED
  BY <1>1 DEF Onward

LEMMA ExactlyGrows ==
    ASSUME NEW es, NEW fs, es \subseteq fs
    PROVE  \A k \in Nat : Exactly(es, k) \subseteq Exactly(fs, k)
<1> DEFINE T == {k \in Nat : Exactly(es, k) \subseteq Exactly(fs, k)}
<1>1. 0 \in T
  BY ExactlyIs
<1>2. ASSUME NEW k \in Nat, k \in T PROVE k + 1 \in T
  <2>1. ASSUME NEW m \in Exactly(es, k + 1) PROVE m \in Exactly(fs, k + 1)
    <3>1. PICK n \in Exactly(es, k) : m \in After(es, n)
      BY OneLess
    <3>2. n \in Exactly(fs, k) /\ m \in After(fs, n)
      BY <1>2, <3>1 DEF After
    <3> QED
      BY <3>2, OneMore
  <2> QED
    BY <2>1
<1>3. \A k \in Nat : k \in T
  <2> HIDE DEF T
  <2> QED
    BY <1>1, <1>2, Induction
<1> QED
  BY <1>3

LEMMA InWithin ==
    ASSUME NEW es, NEW first, NEW last, NEW n
    PROVE  n \in Within(es, first, last) <=> \E k \in first..last : n \in Exactly(es, k)
  BY DEF Within

LEMMA WithinGrows ==
    ASSUME NEW es, NEW fs, es \subseteq fs, NEW first \in Nat, NEW last \in Int
    PROVE  Within(es, first, last) \subseteq Within(fs, first, last)
<1>1. \A k \in first..last : Exactly(es, k) \subseteq Exactly(fs, k)
  <2>1. \A k \in first..last : k \in Nat
    OBVIOUS
  <2> QED
    BY <2>1, ExactlyGrows
<1> QED
  BY <1>1, InWithin

LEMMA WithinNodes ==
    ASSUME NEW es, NEW first \in Nat, NEW last \in Int
    PROVE  Within(es, first, last) \subseteq Nodes
<1>1. \A k \in first..last : k \in Nat
  OBVIOUS
<1> QED
  BY <1>1, InWithin, ExactlyNodes

\* A set that has the first of these, and goes on from what it has, has all.
LEMMA LevelsIncluded ==
    ASSUME NEW es, NEW V, NEW first \in Nat, NEW last \in Int,
           Exactly(es, first) \subseteq V,
           \A k \in Nat : first <= k /\ k < last =>
               \A n \in V : n \in Exactly(es, k) => After(es, n) \subseteq V
    PROVE  Within(es, first, last) \subseteq V
<1> DEFINE T == {i \in Nat : first + i <= last => Exactly(es, first + i) \subseteq V}
<1>1. 0 \in T
  OBVIOUS
<1>2. ASSUME NEW i \in Nat, i \in T PROVE i + 1 \in T
  <2>1. SUFFICES ASSUME first + (i + 1) <= last, NEW m \in Exactly(es, first + (i + 1))
                 PROVE  m \in V
    OBVIOUS
  <2>2. first + i \in Nat /\ (first + i) + 1 = first + (i + 1) /\ first + i < last /\ first <= first + i
    BY <2>1
  <2>3. PICK n \in Exactly(es, first + i) : m \in After(es, n)
    BY <2>1, <2>2, OneLess
  <2>4. n \in V
    BY <1>2, <2>2, <2>3
  <2> QED
    BY <2>2, <2>3, <2>4
<1>3. \A i \in Nat : i \in T
  <2> HIDE DEF T
  <2> QED
    BY <1>1, <1>2, Induction
<1>4. ASSUME NEW k \in first..last PROVE Exactly(es, k) \subseteq V
  <2>1. k - first \in Nat /\ first + (k - first) = k /\ k <= last
    OBVIOUS
  <2> QED
    BY <1>3, <2>1
<1> QED
  BY <1>4, InWithin

LEMMA SizeFacts == IsFiniteSet(Nodes) /\ Size \in Nat
  BY TraversalAssumption, FS_CardinalityType DEF Size

\* At some length that is at most the number of nodes nothing new is reached.
LEMMA GrowthEnds ==
    ASSUME NEW es
    PROVE  \E j \in 0..Size : Exactly(es, j + 1) \subseteq Within(es, 1, j)
<1> DEFINE R(k) == Within(es, 1, k)
           T == {k \in Nat : k <= Size + 1 => Cardinality(R(k)) >= k}
<1>1. SUFFICES ASSUME \A j \in 0..Size : ~(Exactly(es, j + 1) \subseteq R(j)) PROVE FALSE
  OBVIOUS
<1>2. \A k \in Nat : R(k) \subseteq Nodes /\ IsFiniteSet(R(k)) /\ Cardinality(R(k)) \in Nat
  <2> TAKE k \in Nat
  <2>1. R(k) \subseteq Nodes
    BY WithinNodes
  <2> HIDE DEF R
  <2> QED
    BY <2>1, SizeFacts, FS_Subset, FS_CardinalityType
<1>3. 0 \in T
  <2>1. Cardinality(R(0)) \in Nat
    BY <1>2
  <2> QED
    BY <2>1
<1>4. ASSUME NEW k \in Nat, k \in T PROVE k + 1 \in T
  <2>1. SUFFICES ASSUME k + 1 <= Size + 1 PROVE Cardinality(R(k + 1)) >= k + 1
    OBVIOUS
  <2>2. k \in 0..Size /\ k <= Size + 1 /\ k + 1 \in Nat
    BY <2>1, SizeFacts
  <2>3. PICK x \in Exactly(es, k + 1) : x \notin R(k)
    BY <1>1, <2>2
  <2>4. R(k) \in SUBSET R(k + 1) /\ x \in R(k + 1)
    <3>1. \A i \in 1..k : i \in 1..(k + 1)
      OBVIOUS
    <3>2. k + 1 \in 1..(k + 1)
      OBVIOUS
    <3> QED
      BY <2>3, <3>1, <3>2, InWithin
  <2>5. Cardinality(R(k)) < Cardinality(R(k + 1))
    <3>1. IsFiniteSet(R(k + 1))
      BY <1>2, <2>2
    <3> HIDE DEF R
    <3> QED
      BY <2>3, <2>4, <3>1, Smaller
  <2>6. Cardinality(R(k)) >= k /\ Cardinality(R(k)) \in Nat /\ Cardinality(R(k + 1)) \in Nat
    BY <1>2, <1>4, <2>2
  <2> HIDE DEF R
  <2> QED
    BY <2>5, <2>6
<1>5. \A k \in Nat : k \in T
  <2> HIDE DEF T
  <2> QED
    BY <1>3, <1>4, Induction
<1>6. Cardinality(R(Size + 1)) >= Size + 1 /\ Size + 1 \in Nat
  BY <1>5, SizeFacts
<1>7. Cardinality(R(Size + 1)) <= Size
  <2>1. R(Size + 1) \subseteq Nodes
    BY <1>2, <1>6
  <2> HIDE DEF R
  <2> QED
    BY <2>1, SizeFacts, FS_Subset DEF Size
<1>8. Cardinality(R(Size + 1)) \in Nat /\ Size \in Nat
  BY <1>2, <1>6, SizeFacts
<1> HIDE DEF R
<1> QED
  BY <1>6, <1>7, <1>8

\* What a walk reaches, one of no more edges than there are nodes does.
LEMMA SizeIsEnough ==
    ASSUME NEW es, NEW k \in Nat
    PROVE  /\ k >= 1 => Exactly(es, k) \subseteq Within(es, 1, Size)
           /\ Exactly(es, k) \subseteq Within(es, 0, Size)
<1>1. PICK j \in 0..Size : Exactly(es, j + 1) \subseteq Within(es, 1, j)
  BY GrowthEnds
<1> DEFINE R == Within(es, 1, j)
<1>2. j \in Nat /\ j <= Size /\ Size \in Nat
  BY <1>1, SizeFacts
<1>3. ASSUME NEW n \in R PROVE After(es, n) \subseteq R
  <2>1. PICK i \in 1..j : n \in Exactly(es, i)
    BY <1>3, InWithin
  <2>2. SUFFICES ASSUME NEW m \in After(es, n) PROVE m \in R
    OBVIOUS
  <2>3. i \in Nat /\ (i + 1 \in 1..j \/ i + 1 = j + 1)
    BY <1>2, <2>1
  <2>4. m \in Exactly(es, i + 1)
    BY <2>1, <2>2, <2>3, OneMore
  <2>5. CASE i + 1 \in 1..j
    BY <2>4, <2>5, InWithin
  <2>6. CASE i + 1 = j + 1
    BY <1>1, <2>4, <2>6
  <2> QED
    BY <2>3, <2>5, <2>6
<1>4. Exactly(es, 1) \subseteq R
  <2>1. CASE j = 0
    BY <1>1, <2>1
  <2>2. CASE j # 0
    <3>1. 1 \in 1..j
      BY <1>2, <2>2
    <3> QED
      BY <3>1, InWithin
  <2> QED
    BY <2>1, <2>2
<1>5. Within(es, 1, k) \subseteq R
  <2> HIDE DEF R
  <2> QED
    BY <1>3, <1>4, LevelsIncluded
<1>6. R \subseteq Within(es, 1, Size)
  <2>1. \A i \in 1..j : i \in 1..Size
    BY <1>2
  <2> QED
    BY <2>1, InWithin
<1>7. Within(es, 1, Size) \subseteq Within(es, 0, Size)
  <2>1. \A i \in 1..Size : i \in 0..Size
    BY <1>2
  <2> QED
    BY <2>1, InWithin
<1>8. k >= 1 => Exactly(es, k) \subseteq Within(es, 1, Size)
  <2>1. k >= 1 => k \in 1..k
    OBVIOUS
  <2>2. k >= 1 => Exactly(es, k) \subseteq Within(es, 1, k)
    BY <2>1, InWithin
  <2> HIDE DEF R
  <2> QED
    BY <1>5, <1>6, <2>2
<1>9. k = 0 => Exactly(es, k) \subseteq Within(es, 0, Size)
  <2>1. 0 \in 0..Size
    BY <1>2
  <2> QED
    BY <2>1, InWithin
<1> QED
  BY <1>7, <1>8, <1>9

\* What goes on from what it has, has all that is reached.
LEMMA ReachedIncluded ==
    ASSUME NEW es, NEW V, \A n \in V : After(es, n) \subseteq V
    PROVE  /\ After(es, Source) \subseteq V => Within(es, 1, Size) \subseteq V
           /\ Source \in V => Within(es, 0, Size) \subseteq V
<1>1. Exactly(es, 0) = {Source} /\ Exactly(es, 1) = After(es, Source)
  <2>1. Exactly(es, 0) = {Source} /\ Exactly(es, 0 + 1) = Onward(es, Exactly(es, 0))
    BY ExactlyIs
  <2> QED
    BY <2>1 DEF Onward
<1>2. Size \in Int
  BY SizeFacts
<1> QED
  BY <1>1, <1>2, LevelsIncluded
-----------------------------------------------------------------------------
\* Sequences and their elements.
LEMMA Elements ==
    ASSUME NEW S, NEW s \in Seq(S)
    PROVE  /\ ToSet(s) \subseteq S
           /\ \A x : x \in ToSet(s) <=> \E i \in 1..Len(s) : s[i] = x
           /\ s = << >> <=> ToSet(s) = {}
  BY DEF ToSet

LEMMA ElementsAfterTail ==
    ASSUME NEW S, NEW s \in Seq(S), s # << >>
    PROVE  /\ Tail(s) \in Seq(S) /\ Head(s) \in S /\ Head(s) = s[1]
           /\ Len(s) >= 1 /\ Len(Tail(s)) = Len(s) - 1
           /\ \A i \in 1..(Len(s) - 1) : Tail(s)[i] = s[i + 1]
           /\ ToSet(s) = {Head(s)} \cup ToSet(Tail(s))
           /\ IsInjective(s) => IsInjective(Tail(s)) /\ Head(s) \notin ToSet(Tail(s))
<1>1. /\ Tail(s) \in Seq(S) /\ Head(s) \in S /\ Head(s) = s[1]
      /\ Len(s) >= 1 /\ Len(Tail(s)) = Len(s) - 1
      /\ \A i \in 1..(Len(s) - 1) : Tail(s)[i] = s[i + 1]
  OBVIOUS
<1>2. DOMAIN s = 1..Len(s) /\ DOMAIN Tail(s) = 1..(Len(s) - 1) /\ Len(s) \in Nat
  BY <1>1
<1>3. ToSet(Tail(s)) = {s[i] : i \in 2..Len(s)}
  <2>1. \A i \in 1..(Len(s) - 1) : i + 1 \in 2..Len(s)
    BY <1>2
  <2>2. \A i \in 2..Len(s) : i - 1 \in 1..(Len(s) - 1) /\ (i - 1) + 1 = i
    BY <1>2
  <2>3. ASSUME NEW i \in DOMAIN Tail(s) PROVE \E j \in 2..Len(s) : Tail(s)[i] = s[j]
    <3>1. i \in 1..(Len(s) - 1) /\ i + 1 \in 2..Len(s)
      BY <1>2, <2>1
    <3> QED
      BY <1>1, <3>1
  <2>4. ASSUME NEW j \in 2..Len(s) PROVE \E i \in DOMAIN Tail(s) : Tail(s)[i] = s[j]
    <3>1. j - 1 \in DOMAIN Tail(s) /\ j - 1 \in 1..(Len(s) - 1) /\ (j - 1) + 1 = j
      BY <1>2, <2>2
    <3>2. Tail(s)[j - 1] = s[(j - 1) + 1]
      BY <1>1, <3>1
    <3> QED
      BY <3>1, <3>2
  <2> DEFINE t == Tail(s)
  <2>5. (\A i \in DOMAIN t : \E j \in 2..Len(s) : t[i] = s[j]) /\ (\A j \in 2..Len(s) : \E i \in DOMAIN t : t[i] = s[j])
    BY <2>3, <2>4
  <2> HIDE DEF t
  <2>6. ToSet(t) = {s[i] : i \in 2..Len(s)}
    BY <2>5 DEF ToSet
  <2> QED
    BY <2>6 DEF t
<1>4. ToSet(s) = {Head(s)} \cup ToSet(Tail(s))
  <2>1. \A i \in 1..Len(s) : i = 1 \/ i \in 2..Len(s)
    BY <1>2
  <2>2. \A i \in 2..Len(s) : i \in 1..Len(s)
    BY <1>2
  <2>3. 1 \in 1..Len(s)
    BY <1>1, <1>2
  <2> QED
    BY <1>1, <1>2, <1>3, <2>1, <2>2, <2>3 DEF ToSet
<1>5. ASSUME IsInjective(s) PROVE IsInjective(Tail(s)) /\ Head(s) \notin ToSet(Tail(s))
  <2>1. ASSUME NEW i \in DOMAIN Tail(s), NEW j \in DOMAIN Tail(s), Tail(s)[i] = Tail(s)[j]
        PROVE  i = j
    <3>1. i + 1 \in DOMAIN s /\ j + 1 \in DOMAIN s /\ i \in Int /\ j \in Int
      BY <1>2
    <3>2. s[i + 1] = s[j + 1]
      BY <1>1, <1>2, <2>1
    <3>3. i + 1 = j + 1
      BY <1>5, <3>1, <3>2 DEF IsInjective
    <3> QED
      BY <3>1, <3>3
  <2>2. \A i \in 2..Len(s) : i \in DOMAIN s /\ 1 \in DOMAIN s /\ i # 1
    BY <1>1, <1>2
  <2>3. \A i \in 2..Len(s) : s[i] # s[1]
    BY <1>5, <2>2 DEF IsInjective
  <2> QED
    BY <1>1, <1>3, <2>1, <2>3 DEF IsInjective
<1> QED
  BY <1>1, <1>4, <1>5

LEMMA ElementsOfConcat ==
    ASSUME NEW S, NEW s \in Seq(S), NEW t \in Seq(S)
    PROVE  /\ s \o t \in Seq(S) /\ Len(s \o t) = Len(s) + Len(t)
           /\ \A i \in 1..Len(s) : (s \o t)[i] = s[i]
           /\ \A i \in 1..Len(t) : (s \o t)[Len(s) + i] = t[i]
           /\ \A i \in 1..Len(s \o t) : i <= Len(s) \/ i - Len(s) \in 1..Len(t)
           /\ ToSet(s \o t) = ToSet(s) \cup ToSet(t)
<1>1. s \o t \in Seq(S) /\ Len(s \o t) = Len(s) + Len(t) /\ Len(s) \in Nat /\ Len(t) \in Nat
  OBVIOUS
<1>2. \A i \in 1..Len(s) : (s \o t)[i] = s[i]
  OBVIOUS
<1>3. \A i \in 1..Len(t) : (s \o t)[Len(s) + i] = t[i]
  OBVIOUS
<1>4. \A i \in 1..Len(s \o t) : i \in 1..Len(s) \/ (i - Len(s) \in 1..Len(t) /\ Len(s) + (i - Len(s)) = i)
  BY <1>1
<1>5. \A i \in 1..Len(s) : i \in 1..Len(s \o t)
  BY <1>1
<1>6. \A i \in 1..Len(t) : Len(s) + i \in 1..Len(s \o t)
  BY <1>1
<1>7. ASSUME NEW x PROVE x \in ToSet(s \o t) <=> x \in ToSet(s) \/ x \in ToSet(t)
  <2>1. \A y \in {s, t, s \o t} : x \in ToSet(y) <=> \E i \in 1..Len(y) : y[i] = x
    BY <1>1, Elements
  <2>2. ASSUME x \in ToSet(s \o t) PROVE x \in ToSet(s) \/ x \in ToSet(t)
    <3>1. PICK i \in 1..Len(s \o t) : (s \o t)[i] = x
      BY <2>1, <2>2
    <3>2. CASE i \in 1..Len(s)
      BY <1>2, <2>1, <3>1, <3>2
    <3>3. CASE i - Len(s) \in 1..Len(t) /\ Len(s) + (i - Len(s)) = i
      BY <1>3, <2>1, <3>1, <3>3
    <3> QED
      BY <1>4, <3>2, <3>3
  <2>3. ASSUME x \in ToSet(s) PROVE x \in ToSet(s \o t)
    BY <1>2, <1>5, <2>1, <2>3
  <2>4. ASSUME x \in ToSet(t) PROVE x \in ToSet(s \o t)
    BY <1>3, <1>6, <2>1, <2>4
  <2> QED
    BY <2>2, <2>3, <2>4
<1>8. \A i \in 1..Len(s \o t) : i <= Len(s) \/ i - Len(s) \in 1..Len(t)
  BY <1>4
<1> QED
  BY <1>1, <1>2, <1>3, <1>7, <1>8

LEMMA ElementsOfAppend ==
    ASSUME NEW S, NEW s \in Seq(S), NEW x \in S
    PROVE  /\ Append(s, x) \in Seq(S) /\ Len(Append(s, x)) = Len(s) + 1
           /\ Last(Append(s, x)) = x /\ Append(s, x)[Len(s) + 1] = x
           /\ \A i \in 1..Len(s) : Append(s, x)[i] = s[i]
           /\ ToSet(Append(s, x)) = ToSet(s) \cup {x}
           /\ IsInjective(s) /\ x \notin ToSet(s) => IsInjective(Append(s, x))
<1>1. /\ Append(s, x) \in Seq(S) /\ Len(Append(s, x)) = Len(s) + 1 /\ Len(s) \in Nat
      /\ Append(s, x)[Len(s) + 1] = x
      /\ \A i \in 1..Len(s) : Append(s, x)[i] = s[i]
  OBVIOUS
<1> DEFINE a == Append(s, x)
<1>2. DOMAIN a = 1..(Len(s) + 1) /\ DOMAIN s = 1..Len(s) /\ Len(a) = Len(s) + 1
  BY <1>1
<1>3. \A i \in DOMAIN a : i \in DOMAIN s \/ i = Len(s) + 1
  BY <1>1, <1>2
<1>4. \A i \in DOMAIN s : i \in DOMAIN a
  BY <1>1, <1>2
<1>5. Len(s) + 1 \in DOMAIN a
  BY <1>1, <1>2
<1>6. Last(a) = x
  BY <1>1, <1>2 DEF Last
<1>7. (\A i \in DOMAIN s : a[i] = s[i]) /\ a[Len(s) + 1] = x
  BY <1>1, <1>2
<1> HIDE DEF a
<1>8. ToSet(a) = ToSet(s) \cup {x}
  BY <1>3, <1>4, <1>5, <1>7 DEF ToSet
<1>9. ASSUME IsInjective(s), x \notin ToSet(s) PROVE IsInjective(a)
  BY <1>3, <1>7, <1>9 DEF IsInjective, ToSet
<1> QED
  BY <1>1, <1>6, <1>8, <1>9 DEF a

LEMMA ElementsOfFront ==
    ASSUME NEW S, NEW s \in Seq(S), s # << >>
    PROVE  /\ Front(s) \in Seq(S) /\ Len(Front(s)) = Len(s) - 1
           /\ \A i \in 1..(Len(s) - 1) : Front(s)[i] = s[i]
<1>1. Len(s) \in Nat /\ Len(s) >= 1
  OBVIOUS
<1>2. Front(s) = SubSeq(s, 1, Len(s) - 1)
  BY DEF Front
<1>3. SubSeq(s, 1, Len(s) - 1) \in Seq(S)
  BY <1>1, SubSeqProperties
<1>4. Len(SubSeq(s, 1, Len(s) - 1)) = Len(s) - 1
  BY <1>1
<1>5. \A i \in 1..(Len(s) - 1) : SubSeq(s, 1, Len(s) - 1)[i] = s[i]
  BY <1>1
<1> QED
  BY <1>2, <1>3, <1>4, <1>5

LEMMA InjectiveConcat ==
    ASSUME NEW S, NEW s \in Seq(S), NEW t \in Seq(S), IsInjective(s), IsInjective(t),
           ToSet(s) \cap ToSet(t) = {}
    PROVE  IsInjective(s \o t)
<1> DEFINE c == s \o t
<1>1. /\ Len(s) \in Nat /\ Len(t) \in Nat /\ Len(c) = Len(s) + Len(t) /\ DOMAIN c = 1..Len(c)
      /\ DOMAIN s = 1..Len(s) /\ DOMAIN t = 1..Len(t)
  OBVIOUS
<1>2. \A i \in DOMAIN c : \/ i \in DOMAIN s /\ c[i] = s[i]
                          \/ i - Len(s) \in DOMAIN t /\ c[i] = t[i - Len(s)]
  <2>1. \A i \in DOMAIN c : i \in 1..Len(s) \/ (i - Len(s) \in 1..Len(t) /\ Len(s) + (i - Len(s)) = i)
    BY <1>1
  <2>2. (\A i \in 1..Len(s) : c[i] = s[i]) /\ \A i \in 1..Len(t) : c[Len(s) + i] = t[i]
    BY ElementsOfConcat
  <2> HIDE DEF c
  <2>3. ASSUME NEW i \in DOMAIN c, i - Len(s) \in 1..Len(t), Len(s) + (i - Len(s)) = i
        PROVE  c[i] = t[i - Len(s)]
    BY <2>2, <2>3
  <2> QED
    BY <1>1, <2>1, <2>2, <2>3
<1> HIDE DEF c
<1>3. ASSUME NEW i \in DOMAIN c, NEW j \in DOMAIN c, c[i] = c[j] PROVE i = j
  <2>1. CASE i \in DOMAIN s /\ c[i] = s[i] /\ j \in DOMAIN s /\ c[j] = s[j]
    BY <1>3, <2>1 DEF IsInjective
  <2>2. CASE i - Len(s) \in DOMAIN t /\ c[i] = t[i - Len(s)] /\ j - Len(s) \in DOMAIN t /\ c[j] = t[j - Len(s)]
    <3>1. i - Len(s) = j - Len(s)
      BY <1>3, <2>2 DEF IsInjective
    <3>2. i \in Int /\ j \in Int
      BY <1>1
    <3> QED
      BY <1>1, <3>1, <3>2
  <2>3. CASE i \in DOMAIN s /\ c[i] = s[i] /\ j - Len(s) \in DOMAIN t /\ c[j] = t[j - Len(s)]
    BY <1>3, <2>3 DEF ToSet
  <2>4. CASE j \in DOMAIN s /\ c[j] = s[j] /\ i - Len(s) \in DOMAIN t /\ c[i] = t[i - Len(s)]
    BY <1>3, <2>4 DEF ToSet
  <2> QED
    BY <1>2, <2>1, <2>2, <2>3, <2>4
<1>4. IsInjective(c)
  BY <1>3 DEF IsInjective
<1> QED
  BY <1>4 DEF c

\* An order of a finite set has each of its elements once.
LEMMA OrderOf ==
    ASSUME NEW S, IsFiniteSet(S), NEW s \in SetToSeqs(S)
    PROVE  s \in Seq(S) /\ IsInjective(s) /\ ToSet(s) = S
<1> DEFINE n == Cardinality(S)
<1>1. n \in Nat
  BY FS_CardinalityType
<1>2. s \in [1..n -> S] /\ \A i, j \in 1..n : i # j => s[i] # s[j]
  BY DEF SetToSeqs
<1> HIDE DEF n
<1>3. s \in Seq(S) /\ Len(s) = n /\ DOMAIN s = 1..n
  BY <1>1, <1>2, FunctionIsSeq
<1>4. s \in Injection(1..n, S)
  BY <1>2 DEF Injection, IsInjective
<1>5. IsFiniteSet(1..n) /\ Cardinality(1..n) = n
  BY <1>1, OneTo
<1>6. s \in Surjection(1..n, S)
  BY <1>1, <1>4, <1>5, FS_Injection DEF n
<1>7. ToSet(s) = S
  BY <1>3, <1>6 DEF ToSet, Surjection
<1>8. IsInjective(s)
  BY <1>2, <1>3 DEF IsInjective
<1> QED
  BY <1>3, <1>7, <1>8

LEMMA OrderIs ==
    ASSUME NEW S \in SUBSET Nodes, NEW s \in SetToSeqs(S)
    PROVE  s \in Seq(Nodes) /\ IsInjective(s) /\ ToSet(s) = S
<1>1. IsFiniteSet(S)
  BY TraversalAssumption, FS_Subset
<1>2. s \in Seq(S) /\ IsInjective(s) /\ ToSet(s) = S
  BY <1>1, OrderOf
<1>3. s \in Seq(Nodes)
  BY <1>2
<1> QED
  BY <1>2, <1>3

\* m comes once in s, if it does.
Once(s, m) == \A i, j \in DOMAIN s : s[i] = m /\ s[j] = m => i = j

LEMMA OnceAfterTail ==
    ASSUME NEW S, NEW s \in Seq(S), s # << >>, NEW m, Once(s, m)
    PROVE  Once(Tail(s), m) /\ (m = Head(s) => m \notin ToSet(Tail(s)))
<1>1. /\ Head(s) = s[1] /\ Len(s) \in Nat /\ Len(s) >= 1
      /\ DOMAIN s = 1..Len(s) /\ DOMAIN Tail(s) = 1..(Len(s) - 1)
      /\ \A i \in 1..(Len(s) - 1) : Tail(s)[i] = s[i + 1]
  <2>1. Tail(s) \in Seq(S) /\ Len(Tail(s)) = Len(s) - 1
    BY ElementsAfterTail
  <2>2. DOMAIN Tail(s) = 1..(Len(s) - 1)
    BY <2>1
  <2> QED
    BY <2>2, ElementsAfterTail
<1>2. \A i \in 1..(Len(s) - 1) : i + 1 \in 1..Len(s) /\ i + 1 # 1 /\ i \in Int
  BY <1>1
<1>3. 1 \in DOMAIN s
  BY <1>1
<1>4. ASSUME NEW i \in DOMAIN Tail(s), NEW j \in DOMAIN Tail(s), Tail(s)[i] = m, Tail(s)[j] = m
      PROVE  i = j
  <2>1. i + 1 \in DOMAIN s /\ j + 1 \in DOMAIN s /\ s[i + 1] = m /\ s[j + 1] = m
    BY <1>1, <1>2, <1>4
  <2>2. i + 1 = j + 1
    BY <2>1 DEF Once
  <2>3. i \in Int /\ j \in Int
    BY <1>1, <1>2
  <2> QED
    BY <2>2, <2>3
<1>5. ASSUME m = Head(s), NEW i \in DOMAIN Tail(s), Tail(s)[i] = m PROVE FALSE
  <2>1. i + 1 \in DOMAIN s /\ s[i + 1] = m /\ s[1] = m /\ i + 1 # 1
    BY <1>1, <1>2, <1>5
  <2> QED
    BY <1>3, <2>1 DEF Once
<1> QED
  BY <1>4, <1>5 DEF Once, ToSet

LEMMA OnceAppended ==
    ASSUME NEW S, NEW s \in Seq(S), NEW x \in S, NEW m, Once(s, m), m = x => x \notin ToSet(s)
    PROVE  Once(Append(s, x), m)
<1> DEFINE a == Append(s, x)
<1>1. /\ Len(s) \in Nat /\ DOMAIN s = 1..Len(s) /\ DOMAIN a = 1..(Len(s) + 1)
      /\ a[Len(s) + 1] = x /\ \A i \in 1..Len(s) : a[i] = s[i]
  OBVIOUS
<1>2. \A i \in DOMAIN a : i \in DOMAIN s \/ i = Len(s) + 1
  BY <1>1
<1> HIDE DEF a
<1>3. ASSUME NEW i \in DOMAIN a, NEW j \in DOMAIN a, a[i] = m, a[j] = m PROVE i = j
  BY <1>1, <1>2, <1>3 DEF Once, ToSet
<1> QED
  BY <1>3 DEF Once, a

\* How often a neighbour is listed.
LEMMA TimesIs ==
    ASSUME NEW n \in Nodes, NEW m \in Nodes
    PROVE  Times(n, m) \in Nat \ {0}
<1>1. <<n, m>> \in Nodes \X Nodes
  OBVIOUS
<1> QED
  BY <1>1, TraversalAssumption DEF Times

\* A list names every node of the set, and once those that are to be named once.
LEMMA ListedIs ==
    ASSUME NEW n \in Nodes, NEW S \in SUBSET Nodes, NEW s \in Listed(n, S)
    PROVE  /\ s \in Seq(Nodes) /\ ToSet(s) = S
           /\ \A m : Times(n, m) = 1 => Once(s, m)
           /\ (\A m \in S : Times(n, m) = 1) => IsInjective(s)
<1> DEFINE D == UNION {{m} \X (1..Times(n, m)) : m \in S}
<1>1. \A m \in S : Times(n, m) \in Nat /\ 1 \in 1..Times(n, m)
  BY TimesIs
<1>2. IsFiniteSet(D)
  <2> DEFINE g == [m \in S |-> {m} \X (1..Times(n, m))]
             Q == {{m} \X (1..Times(n, m)) : m \in S}
  <2>1. IsFiniteSet(S)
    BY TraversalAssumption, FS_Subset
  <2>2. g \in Surjection(S, Q)
    BY DEF Surjection
  <2>3. ASSUME NEW m \in S PROVE IsFiniteSet({m} \X (1..Times(n, m)))
    BY <1>1, OneTo, FS_Singleton, FS_Product
  <2>4. \A T \in Q : IsFiniteSet(T)
    BY <2>3
  <2>5. IsFiniteSet(Q)
    <3> HIDE DEF g, Q
    <3> QED
      BY <2>1, <2>2, FS_Surjection
  <2> HIDE DEF Q
  <2>6. IsFiniteSet(UNION Q)
    BY <2>4, <2>5, FS_UNION
  <2> QED
    BY <2>6 DEF Q
<1>3. PICK order \in SetToSeqs(D) : s = [i \in DOMAIN order |-> order[i][1]]
  BY DEF Listed
<1>4. \A x \in D : x[1] \in S /\ x = <<x[1], x[2]>> /\ x[2] \in 1..Times(n, x[1])
  OBVIOUS
<1>5. \A m \in S : <<m, 1>> \in D
  BY <1>1
<1> HIDE DEF D
<1>6. order \in Seq(D) /\ IsInjective(order) /\ ToSet(order) = D
  BY <1>2, OrderOf
<1>7. /\ Len(order) \in Nat /\ DOMAIN order = 1..Len(order) /\ DOMAIN s = 1..Len(order)
      /\ \A i \in 1..Len(order) : order[i] \in D /\ s[i] = order[i][1]
  BY <1>3, <1>6
<1>8. s \in [1..Len(order) -> Nodes]
  BY <1>3, <1>4, <1>7
<1>9. s \in Seq(Nodes)
  BY <1>7, <1>8, FunctionIsSeq
<1>10. ToSet(s) = S
  <2>1. ToSet(s) \subseteq S
    BY <1>4, <1>7 DEF ToSet
  <2>2. ASSUME NEW m \in S PROVE m \in ToSet(s)
    <3>1. PICK i \in DOMAIN order : order[i] = <<m, 1>>
      BY <1>5, <1>6 DEF ToSet
    <3>2. s[i] = m
      BY <1>7, <3>1
    <3> QED
      BY <1>7, <3>2 DEF ToSet
  <2> QED
    BY <2>1, <2>2
<1>11. ASSUME NEW m, Times(n, m) = 1, NEW i \in DOMAIN s, NEW j \in DOMAIN s, s[i] = m, s[j] = m
       PROVE  i = j
  <2>1. order[i] \in D /\ order[j] \in D /\ order[i][1] = m /\ order[j][1] = m
    BY <1>7, <1>11
  <2>2. order[i][2] \in 1..1 /\ order[j][2] \in 1..1
    BY <1>4, <1>11, <2>1
  <2>3. order[i][2] = 1 /\ order[j][2] = 1
    BY <2>2
  <2>4. order[i] = order[j]
    BY <1>4, <2>1, <2>3
  <2> QED
    BY <1>6, <1>7, <2>4 DEF IsInjective
<1>12. \A m : Times(n, m) = 1 => Once(s, m)
  BY <1>11 DEF Once
<1>13. ASSUME \A m \in S : Times(n, m) = 1 PROVE IsInjective(s)
  <2>1. ASSUME NEW i \in DOMAIN s, NEW j \in DOMAIN s, s[i] = s[j] PROVE i = j
    <3>1. s[i] \in S
      BY <1>10 DEF ToSet
    <3> QED
      BY <1>11, <1>13, <2>1, <3>1
  <2> QED
    BY <2>1 DEF IsInjective
<1> QED
  BY <1>9, <1>10, <1>12, <1>13
-----------------------------------------------------------------------------
\* Queues of paths.
NonEmpty == Seq(Nodes) \ {<< >>}

\* Where the paths of q end.
Tips(q) == {Last(p) : p \in ToSet(q)}

\* No path of q is shorter than one before it, nor longer than the first by two.
InLevels(q) ==
    \A i, j \in 1..Len(q) : i <= j => Len(q[i]) <= Len(q[j]) /\ Len(q[j]) <= Len(q[1]) + 1

LEMMA PathFacts ==
    ASSUME NEW p \in NonEmpty
    PROVE  /\ p \in Seq(Nodes) /\ Len(p) \in Nat /\ Len(p) >= 1
           /\ Last(p) \in Nodes /\ Last(p) = p[Len(p)] /\ p[1] \in Nodes
           /\ Last(p) \in ToSet(p)
           /\ \A m \in Nodes : /\ Append(p, m) \in NonEmpty /\ Last(Append(p, m)) = m
                               /\ Len(Append(p, m)) = Len(p) + 1
<1>1. p \in Seq(Nodes) /\ p # << >>
  BY DEF NonEmpty
<1>2. Len(p) \in Nat /\ Len(p) >= 1 /\ DOMAIN p = 1..Len(p)
  BY <1>1
<1>3. Len(p) \in DOMAIN p /\ 1 \in DOMAIN p
  BY <1>2
<1>4. \A i \in DOMAIN p : p[i] \in Nodes
  BY <1>1
<1>5. Last(p) = p[Len(p)]
  BY DEF Last
<1>6. Last(p) \in ToSet(p)
  BY <1>3, <1>5 DEF ToSet
<1>7. ASSUME NEW m \in Nodes
      PROVE  Append(p, m) \in NonEmpty /\ Last(Append(p, m)) = m /\ Len(Append(p, m)) = Len(p) + 1
  <2>1. Append(p, m) \in Seq(Nodes) /\ Len(Append(p, m)) = Len(p) + 1 /\ Last(Append(p, m)) = m
    BY <1>1, ElementsOfAppend
  <2>2. Append(p, m) # << >>
    BY <1>1
  <2> QED
    BY <2>1, <2>2 DEF NonEmpty
<1> QED
  BY <1>1, <1>2, <1>3, <1>4, <1>5, <1>6, <1>7

LEMMA LevelsMean ==
    ASSUME NEW q \in Seq(NonEmpty), q # << >>, InLevels(q), NEW p \in ToSet(q)
    PROVE  Len(Head(q)) <= Len(p) /\ Len(p) <= Len(Head(q)) + 1
<1>1. PICK i \in 1..Len(q) : q[i] = p
  BY Elements
<1>2. Head(q) = q[1] /\ Len(q) >= 1 /\ Len(q) \in Nat
  BY ElementsAfterTail
<1>3. 1 \in 1..Len(q) /\ 1 <= i
  BY <1>1, <1>2
<1> QED
  BY <1>1, <1>2, <1>3 DEF InLevels

LEMMA QueueDrop ==
    ASSUME NEW q \in Seq(NonEmpty), q # << >>
    PROVE  /\ Head(q) \in NonEmpty /\ Tail(q) \in Seq(NonEmpty)
           /\ ToSet(q) = {Head(q)} \cup ToSet(Tail(q))
           /\ Tips(q) = {Last(Head(q))} \cup Tips(Tail(q))
           /\ InLevels(q) => InLevels(Tail(q))
<1>1. /\ Tail(q) \in Seq(NonEmpty) /\ Head(q) \in NonEmpty /\ Head(q) = q[1]
      /\ Len(q) >= 1 /\ Len(Tail(q)) = Len(q) - 1 /\ Len(q) \in Nat
      /\ \A i \in 1..(Len(q) - 1) : Tail(q)[i] = q[i + 1]
      /\ ToSet(q) = {Head(q)} \cup ToSet(Tail(q))
  BY ElementsAfterTail
<1>2. Tips(q) = {Last(Head(q))} \cup Tips(Tail(q))
  BY <1>1 DEF Tips
<1>3. ASSUME InLevels(q) PROVE InLevels(Tail(q))
  <2>1. SUFFICES ASSUME NEW i \in 1..(Len(q) - 1), NEW j \in 1..(Len(q) - 1), i <= j
                 PROVE  /\ Len(Tail(q)[i]) <= Len(Tail(q)[j])
                        /\ Len(Tail(q)[j]) <= Len(Tail(q)[1]) + 1
    BY <1>1 DEF InLevels
  <2>2. /\ i + 1 \in 1..Len(q) /\ j + 1 \in 1..Len(q) /\ 1 \in 1..Len(q) /\ 2 \in 1..Len(q)
        /\ i + 1 <= j + 1 /\ 1 <= 2 /\ 1 \in 1..(Len(q) - 1) /\ 1 + 1 = 2
    BY <1>1, <2>1
  <2>3. Tail(q)[i] = q[i + 1] /\ Tail(q)[j] = q[j + 1] /\ Tail(q)[1] = q[2]
    BY <1>1, <2>1, <2>2
  <2>4. Len(q[i + 1]) <= Len(q[j + 1]) /\ Len(q[j + 1]) <= Len(q[1]) + 1 /\ Len(q[1]) <= Len(q[2])
    BY <1>3, <2>2 DEF InLevels
  <2>5. q[1] \in NonEmpty /\ q[2] \in NonEmpty /\ q[j + 1] \in NonEmpty
    BY <2>2
  <2>6. Len(q[1]) \in Nat /\ Len(q[2]) \in Nat /\ Len(q[j + 1]) \in Nat
    BY <2>5, PathFacts
  <2>7. Len(q[j + 1]) <= Len(q[2]) + 1
    BY <2>4, <2>6
  <2> QED
    BY <2>3, <2>4, <2>7
<1> QED
  BY <1>1, <1>2, <1>3
LEMMA LevelsAppended ==
    ASSUME NEW t \in Seq(NonEmpty), NEW u \in Seq(NonEmpty), NEW h \in Nat, InLevels(t),
           \A i \in 1..Len(t) : h <= Len(t[i]) /\ Len(t[i]) <= h + 1,
           \A i \in 1..Len(u) : Len(u[i]) = h + 1
    PROVE  InLevels(t \o u)
<1> DEFINE r == t \o u
<1>1. /\ Len(r) = Len(t) + Len(u) /\ Len(t) \in Nat /\ Len(u) \in Nat /\ r \in Seq(NonEmpty)
      /\ \A i \in 1..Len(t) : r[i] = t[i]
      /\ \A i \in 1..Len(u) : r[Len(t) + i] = u[i]
  <2>1. Len(t) \in Nat /\ Len(u) \in Nat
    OBVIOUS
  <2> QED
    BY <2>1, ElementsOfConcat
<1> HIDE DEF r
<1>2. ASSUME NEW i \in 1..Len(r), i > Len(t) PROVE Len(r[i]) = h + 1
  <2>1. i - Len(t) \in 1..Len(u) /\ Len(t) + (i - Len(t)) = i
    BY <1>1, <1>2
  <2>2. r[i] = u[i - Len(t)]
    BY <1>1, <2>1
  <2> QED
    BY <2>1, <2>2
<1>3. ASSUME NEW i \in 1..Len(r) PROVE h <= Len(r[i]) /\ Len(r[i]) <= h + 1 /\ Len(r[i]) \in Nat
  <2>1. CASE i <= Len(t)
    <3>1. i \in 1..Len(t)
      BY <1>1, <2>1
    <3>2. r[i] = t[i] /\ t[i] \in NonEmpty
      BY <1>1, <3>1
    <3>3. h <= Len(t[i]) /\ Len(t[i]) <= h + 1
      BY <3>1
    <3> QED
      BY <3>2, <3>3, PathFacts
  <2>2. CASE i > Len(t)
    BY <1>2, <2>2
  <2> QED
    BY <1>1, <2>1, <2>2
<1>4. ASSUME NEW i \in 1..Len(r), NEW j \in 1..Len(r), i <= j
      PROVE  Len(r[i]) <= Len(r[j]) /\ Len(r[j]) <= Len(r[1]) + 1
  <2>1. 1 \in 1..Len(r)
    BY <1>1, <1>4
  <2>2. /\ h <= Len(r[1]) /\ Len(r[1]) \in Nat
        /\ Len(r[i]) <= h + 1 /\ Len(r[i]) \in Nat
        /\ Len(r[j]) <= h + 1 /\ Len(r[j]) \in Nat
    BY <1>3, <2>1
  <2>3. CASE j > Len(t)
    BY <1>2, <2>2, <2>3
  <2>4. CASE j <= Len(t)
    <3>1. i \in 1..Len(t) /\ j \in 1..Len(t)
      BY <1>1, <1>4, <2>4
    <3>2. Len(t[i]) <= Len(t[j])
      BY <1>4, <3>1 DEF InLevels
    <3>3. r[i] = t[i] /\ r[j] = t[j]
      BY <1>1, <3>1
    <3> QED
      BY <2>2, <3>2, <3>3
  <2> QED
    BY <1>1, <2>3, <2>4
<1>5. InLevels(r)
  BY <1>4 DEF InLevels
<1> QED
  BY <1>5 DEF r

\* The first path gives its place to those that go on from it.
Further(q, order) == Tail(q) \o [i \in DOMAIN order |-> Append(Head(q), order[i])]

LEMMA QueueStep ==
    ASSUME NEW q \in Seq(NonEmpty), q # << >>, NEW F \in SUBSET Nodes, NEW order \in SetToSeqs(F)
    PROVE  /\ Further(q, order) \in Seq(NonEmpty)
           /\ ToSet(Further(q, order)) = ToSet(Tail(q)) \cup {Append(Head(q), m) : m \in F}
           /\ Tips(Further(q, order)) = Tips(Tail(q)) \cup F
           /\ InLevels(q) => InLevels(Further(q, order))
<1> DEFINE p == Head(q)
           t == Tail(q)
           u == [i \in DOMAIN order |-> Append(p, order[i])]
<1>1. p \in NonEmpty /\ t \in Seq(NonEmpty) /\ Further(q, order) = t \o u
  BY QueueDrop DEF Further
<1>2. order \in Seq(Nodes) /\ ToSet(order) = F
  BY OrderIs
<1>3. Len(order) \in Nat /\ DOMAIN order = 1..Len(order) /\ \A i \in DOMAIN order : order[i] \in Nodes
  BY <1>2
<1>4. u \in [1..Len(order) -> NonEmpty]
  BY <1>1, <1>3, PathFacts
<1>5. u \in Seq(NonEmpty) /\ Len(u) = Len(order) /\ \A i \in 1..Len(order) : u[i] = Append(p, order[i])
  <2>1. \A i \in 1..Len(order) : u[i] = Append(p, order[i])
    BY <1>3
  <2> HIDE DEF u
  <2> QED
    BY <1>3, <1>4, <2>1, FunctionIsSeq
<1>6. ToSet(u) = {Append(p, m) : m \in F}
  BY <1>2, <1>3 DEF ToSet
<1>7. ASSUME InLevels(q) PROVE InLevels(t) /\ \A x \in ToSet(t) : Len(p) <= Len(x) /\ Len(x) <= Len(p) + 1
  BY <1>7, QueueDrop, LevelsMean
<1> HIDE DEF p, t, u
<1>8. t \o u \in Seq(NonEmpty) /\ ToSet(t \o u) = ToSet(t) \cup ToSet(u)
  BY <1>1, <1>5, ElementsOfConcat
<1>9. Tips(t \o u) = Tips(t) \cup F
  <2>1. \A m \in F : Last(Append(p, m)) = m
    BY <1>1, PathFacts
  <2>2. {Last(x) : x \in ToSet(u)} = F
    <3>1. \A x \in ToSet(u) : \E m \in F : x = Append(p, m)
      BY <1>6
    <3>2. \A m \in F : Append(p, m) \in ToSet(u)
      BY <1>6
    <3> QED
      BY <2>1, <3>1, <3>2
  <2> QED
    BY <1>8, <2>2 DEF Tips
<1>10. ASSUME InLevels(q) PROVE InLevels(t \o u)
  <2>1. \A i \in 1..Len(u) : Len(u[i]) = Len(p) + 1
    <3>1. \A m \in Nodes : Len(Append(p, m)) = Len(p) + 1
      BY <1>1, PathFacts
    <3> QED
      BY <1>3, <1>5, <3>1
  <2>2. \A i \in 1..Len(t) : t[i] \in ToSet(t)
    BY <1>1, Elements
  <2>3. Len(p) \in Nat
    BY <1>1, PathFacts
  <2> QED
    BY <1>1, <1>5, <1>7, <1>10, <2>1, <2>2, <2>3, LevelsAppended
<1> QED
  BY <1>1, <1>6, <1>8, <1>9, <1>10 DEF p, t
-----------------------------------------------------------------------------
\* What every search keeps.
Loops == {"impact", "chains", "shortest", "nearest", "traverse"}

Shapes ==
    /\ given \subseteq edges /\ edges \subseteq Nodes \X Nodes
    /\ alg \notin Stored => edges = given
    /\ target \in Nodes
    /\ alg \notin {"shortest", "paths"} => target = Source
    /\ alg \notin {"paths", "cycles", "dag"} => stack = << >>
    /\ alg \in Loops => queue \in Seq(NonEmpty)
    /\ ended \in BOOLEAN

LEMMA NodesAfter ==
    ASSUME NEW es, NEW n
    PROVE  After(es, n) \subseteq Nodes /\ Before(es, n) \subseteq Nodes
  BY DEF After, Before

LEMMA FreshNodes ==
    ASSUME NEW p
    PROVE  Fresh(p) \subseteq Nodes /\ Fresh(p) \subseteq After(edges, Last(p))
  BY DEF Fresh, After

LEMMA ShapesInitially == ASSUME TraversalInit PROVE Shapes
<1>1. <<Source>> \in NonEmpty
  <2>1. Source \in Nodes
    BY TraversalAssumption
  <2> QED
    BY <2>1 DEF NonEmpty
<1>2. << <<Source>> >> \in Seq(NonEmpty)
  BY <1>1
<1>3. given \subseteq Nodes \X Nodes
  BY TraversalAssumption DEF TraversalInit
<1>4. alg \in Loops => queue \in Seq(NonEmpty)
  BY <1>2 DEF TraversalInit, Loops
<1>5. target \in Nodes /\ (alg \notin {"shortest", "paths"} => target = Source)
  BY TraversalAssumption DEF TraversalInit
<1>6. alg \notin {"paths", "cycles", "dag"} => stack = << >>
  BY DEF TraversalInit
<1> QED
  BY <1>3, <1>4, <1>5, <1>6 DEF TraversalInit, Shapes

\* What each of them may do.
LEMMA Moves ==
    ASSUME Shapes, TraversalNext
    PROVE  /\ alg \in {"impact", "chains"} => TraceDownstream \/ EndLoop
           /\ alg = "shortest" => FindShortest \/ EndLoop
           /\ alg = "nearest" => FindNearest \/ EndLoop
           /\ alg = "traverse" => Traverse \/ EndLoop \/ AddEdge
           /\ alg = "dag" => BuildDag \/ Return
           /\ alg = "depth" => LongestPath \/ NextLevel \/ EndLevels \/ AddEdge
           /\ alg = "count" => NeighborCount \/ NextLevel \/ EndLevels \/ AddEdge
           /\ alg = "paths" => FindPaths \/ FindPathToItself \/ Return \/ AddEdge
           /\ alg = "cycles" => DetectCycles \/ Return
<1>1. Return => alg \in {"paths", "cycles", "dag"}
  BY DEF Return, Shapes
<1>2. AddEdge => alg \in Stored
  BY DEF AddEdge
<1>3. EndLoop => alg \in Loops
  BY DEF EndLoop, Loops
<1>4. /\ TraceDownstream => alg \in {"impact", "chains"}
      /\ FindShortest => alg = "shortest"
      /\ FindNearest => alg = "nearest"
      /\ Traverse => alg = "traverse"
      /\ FindPaths \/ FindPathToItself => alg = "paths"
      /\ DetectCycles => alg = "cycles"
      /\ BuildDag => alg = "dag"
      /\ LongestPath => alg = "depth"
      /\ NeighborCount => alg = "count"
      /\ NextLevel \/ EndLevels => alg \in {"depth", "count"}
  BY DEF TraceDownstream, FindShortest, FindNearest, Traverse, FindPaths, FindPathToItself,
         DetectCycles, BuildDag, LongestPath, NeighborCount, NextLevel, EndLevels
<1> QED
  BY <1>1, <1>2, <1>3, <1>4 DEF TraversalNext, Step, Stored, Loops

LEMMA SearchFixed ==
    ASSUME [TraversalNext]_traversalVars
    PROVE  /\ alg' = alg /\ target' = target /\ given' = given
           /\ edges' = edges \/ (AddEdge /\ ~UNCHANGED edges)
<1>1. CASE UNCHANGED traversalVars
  BY <1>1 DEF traversalVars
<1>2. CASE TraversalNext
  BY <1>2 DEF TraversalNext, Step, TraceDownstream, FindShortest, FindNearest, Traverse, FindPaths,
         FindPathToItself, DetectCycles, BuildDag, LongestPath, NeighborCount, NextLevel, EndLevels,
         Return, EndLoop, AddEdge, Pop, InCall
<1> QED
  BY <1>1, <1>2

\* A step of a loop: the first path leaves the queue, others may follow.
LEMMA Expanded ==
    ASSUME Shapes, alg \in Loops, queue # << >>,
           NEW order \in Orders(Head(queue)), Expand(Head(queue), order)
    PROVE  /\ Head(queue) \in NonEmpty /\ queue' \in Seq(NonEmpty)
           /\ order \in Seq(Nodes) /\ ToSet(order) = Fresh(Head(queue))
           /\ ToSet(queue) = {Head(queue)} \cup ToSet(Tail(queue))
           /\ ToSet(queue') = ToSet(Tail(queue))
                                  \cup {Append(Head(queue), m) : m \in Fresh(Head(queue))}
           /\ Tips(queue') = Tips(Tail(queue)) \cup Fresh(Head(queue))
           /\ Tips(queue) = {Last(Head(queue))} \cup Tips(Tail(queue))
           /\ InLevels(queue) => InLevels(queue')
           /\ visited' = visited \cup {Mark(Head(queue), n) : n \in Fresh(Head(queue))}
<1>1. queue \in Seq(NonEmpty) /\ Fresh(Head(queue)) \in SUBSET Nodes
  BY FreshNodes DEF Shapes
<1>2. order \in SetToSeqs(Fresh(Head(queue)))
  BY DEF Orders
<1>3. queue' = Further(queue, order)
  BY DEF Expand, Queued, Further
<1>4. order \in Seq(Nodes) /\ ToSet(order) = Fresh(Head(queue))
  BY <1>1, <1>2, OrderIs
<1>5. /\ queue' \in Seq(NonEmpty)
      /\ ToSet(queue') = ToSet(Tail(queue)) \cup {Append(Head(queue), m) : m \in Fresh(Head(queue))}
      /\ Tips(queue') = Tips(Tail(queue)) \cup Fresh(Head(queue))
      /\ InLevels(queue) => InLevels(queue')
  BY <1>1, <1>2, <1>3, QueueStep
<1>6. /\ Head(queue) \in NonEmpty
      /\ ToSet(queue) = {Head(queue)} \cup ToSet(Tail(queue))
      /\ Tips(queue) = {Last(Head(queue))} \cup Tips(Tail(queue))
  BY <1>1, QueueDrop
<1> QED
  BY <1>4, <1>5, <1>6 DEF Expand

LEMMA ShapesStep ==
    ASSUME Shapes, [TraversalNext]_traversalVars
    PROVE  Shapes'
<1>1. CASE UNCHANGED traversalVars
  BY <1>1 DEF traversalVars, Shapes, Stored, Loops
<1>2. CASE TraversalNext
  <2>1. alg' = alg /\ target' = target /\ given' = given
    BY SearchFixed
  <2>2. /\ given \subseteq edges' /\ edges' \subseteq Nodes \X Nodes
        /\ alg \notin Stored => edges' = edges
    <3>1. CASE edges' = edges
      BY <3>1 DEF Shapes
    <3>2. CASE AddEdge
      <4>1. PICK e \in Nodes \X Nodes : edges' = edges \cup {e}
        BY <3>2 DEF AddEdge
      <4> QED
        BY <3>2, <4>1 DEF Shapes, AddEdge
    <3> QED
      BY <3>1, <3>2, SearchFixed
  <2>3. alg \notin {"paths", "cycles", "dag"} => stack' = stack
    BY <1>2, Moves DEF Shapes, TraceDownstream, FindShortest, FindNearest, Traverse, LongestPath,
       NeighborCount, NextLevel, EndLevels, EndLoop, AddEdge, Pop, TraversalNext, Step, FindPaths,
       FindPathToItself, DetectCycles, BuildDag, Return
  <2>4. ASSUME alg \in Loops PROVE queue' \in Seq(NonEmpty)
    <3>1. queue \in Seq(NonEmpty)
      BY <2>4 DEF Shapes
    <3>2. \/ TraceDownstream \/ FindShortest \/ FindNearest \/ Traverse
          \/ UNCHANGED queue
      BY <1>2, <2>4, Moves DEF Loops, EndLoop, AddEdge
    <3>3. ASSUME TraceDownstream \/ FindShortest \/ FindNearest \/ Traverse
          PROVE  \/ UNCHANGED queue
                 \/ queue # << >> /\ queue' = Tail(queue)
                 \/ queue # << >> /\ \E order \in Orders(Head(queue)) : Expand(Head(queue), order)
      BY <3>3 DEF TraceDownstream, FindShortest, FindNearest, Traverse, Drop, Pop
    <3>4. CASE queue # << >> /\ queue' = Tail(queue)
      BY <3>1, <3>4, QueueDrop
    <3>5. CASE queue # << >> /\ \E order \in Orders(Head(queue)) : Expand(Head(queue), order)
      BY <2>4, <3>5, Expanded
    <3> QED
      BY <3>1, <3>2, <3>3, <3>4, <3>5
  <2>5. ended' \in BOOLEAN
    BY <1>2 DEF Shapes, TraversalNext, Step, TraceDownstream, FindShortest, FindNearest, Traverse,
       FindPaths, FindPathToItself, DetectCycles, BuildDag, LongestPath, NeighborCount, NextLevel,
       EndLevels, Return, EndLoop, AddEdge, Pop, InCall
  <2> QED
    BY <2>1, <2>2, <2>3, <2>4, <2>5 DEF Shapes, Stored, Loops
<1> QED
  BY <1>1, <1>2
LEMMA OneInQueue ==
    /\ Tips(<< <<Source>> >>) = {Source} /\ ToSet(<< <<Source>> >>) = {<<Source>>}
    /\ InLevels(<< <<Source>> >>) /\ ToSet(<< >>) = {} /\ Tips(<< >>) = {}
    /\ <<Source>> \in NonEmpty /\ Last(<<Source>>) = Source /\ Len(<<Source>>) = 1
<1>1. ToSet(<< <<Source>> >>) = {<<Source>>} /\ ToSet(<< >>) = {}
  BY DEF ToSet
<1>2. Last(<<Source>>) = Source /\ Len(<<Source>>) = 1
  BY DEF Last
<1>3. InLevels(<< <<Source>> >>)
  <2>1. \A i \in 1..Len(<< <<Source>> >>) : << <<Source>> >>[i] = <<Source>>
    OBVIOUS
  <2>2. << <<Source>> >>[1] = <<Source>>
    OBVIOUS
  <2> QED
    BY <1>2, <2>1, <2>2 DEF InLevels
<1>4. <<Source>> \in NonEmpty
  BY TraversalAssumption DEF NonEmpty
<1> QED
  BY <1>1, <1>2, <1>3, <1>4 DEF Tips

\* A queue that waits for nothing is empty.
LEMMA NoTips ==
    ASSUME NEW q \in Seq(NonEmpty)
    PROVE  q = << >> <=> Tips(q) = {}
  BY Elements DEF Tips

-----------------------------------------------------------------------------
\* What a change affects: all that was found waits in the queue, or what comes
\* after it was found too; what was marked was found.
Noted(x, n) == IF alg = "chains" THEN <<x, n>> \in visited ELSE n \in visited

Effects ==
    alg \in {"impact", "chains"} =>
        /\ found \in Seq(Nodes)
        /\ Tips(queue) \subseteq {Source} \cup ToSet(found)
        /\ ToSet(found) \subseteq Within(edges, 1, Size)
        /\ \A n \in {Source} \cup ToSet(found) :
              n \in Tips(queue) \/ After(edges, n) \subseteq ToSet(found)
        /\ \A x, n \in Nodes : Noted(x, n) => n \in ToSet(found)
        /\ ended => queue = << >>

LEMMA MarkIs ==
    ASSUME NEW p \in NonEmpty, NEW n
    PROVE  (alg = "chains" => Mark(p, n) = <<Last(p), n>>) /\ (alg # "chains" => Mark(p, n) = n)
  BY DEF Mark

LEMMA EffectsInitially == ASSUME TraversalInit PROVE Effects
  BY OneInQueue DEF TraversalInit, Effects, Noted

\* Where one more step leads from what was reached is reached.
LEMMA ReachedGrows ==
    ASSUME NEW es, NEW n \in {Source} \cup Within(es, 1, Size), NEW m \in After(es, n)
    PROVE  m \in Within(es, 1, Size)
<1>1. PICK k \in Nat : n \in Exactly(es, k)
  <2>1. CASE n = Source
    BY <2>1, ExactlyIs
  <2>2. CASE n \in Within(es, 1, Size)
    BY <2>2, InWithin
  <2> QED
    BY <2>1, <2>2
<1>2. m \in Exactly(es, k + 1) /\ k + 1 \in Nat /\ k + 1 >= 1
  BY <1>1, OneMore
<1> QED
  BY <1>2, SizeIsEnough

LEMMA EffectsStep ==
    ASSUME Shapes, Effects, [TraversalNext]_traversalVars
    PROVE  Effects'
<1>1. CASE UNCHANGED traversalVars
  BY <1>1 DEF traversalVars, Effects, Noted
<1>2. CASE TraversalNext
  <2> SUFFICES ASSUME alg \in {"impact", "chains"} PROVE Effects'
    BY SearchFixed DEF Effects
  <2>1. alg' = alg /\ edges' = edges
    BY SearchFixed DEF AddEdge, Stored
  <2>2. CASE EndLoop
    BY <2>1, <2>2 DEF EndLoop, Exhausted, Effects, Noted
  <2>3. CASE TraceDownstream
    <3> DEFINE p == Head(queue)
               n == Last(p)
               F == Fresh(p)
    <3>1. queue # << >> /\ alg \in Loops /\ ended' = ended /\ ~ended
      BY <2>3 DEF TraceDownstream, Pop, Loops
    <3>2. PICK order \in Orders(p) : Expand(p, order) /\ found' = found \o order
      BY <2>3 DEF TraceDownstream
    <3>3. /\ p \in NonEmpty /\ order \in Seq(Nodes) /\ ToSet(order) = F
          /\ Tips(queue') = Tips(Tail(queue)) \cup F
          /\ Tips(queue) = {n} \cup Tips(Tail(queue))
          /\ visited' = visited \cup {Mark(p, m) : m \in F}
      BY <3>1, <3>2, Expanded
    <3>4. found \in Seq(Nodes)
      BY DEF Effects
    <3>5. found' \in Seq(Nodes) /\ ToSet(found') = ToSet(found) \cup F
      BY <3>2, <3>3, <3>4, ElementsOfConcat
    <3>6. n \in Nodes
      BY <3>3, PathFacts
    <3>7. n \in {Source} \cup ToSet(found)
      BY <3>3 DEF Effects
    <3>8. After(edges, n) \subseteq ToSet(found')
      <4>1. ASSUME NEW m \in After(edges, n), m \notin F PROVE m \in ToSet(found)
        <5>1. Mark(p, m) \in visited /\ m \in Nodes
          BY <4>1 DEF Fresh, After
        <5>2. Noted(n, m)
          BY <3>3, <5>1, MarkIs DEF Noted
        <5> QED
          BY <3>6, <5>1, <5>2 DEF Effects
      <4> QED
        BY <3>5, <4>1
    <3>9. F \subseteq Within(edges, 1, Size)
      <4>1. F \subseteq After(edges, n)
        BY FreshNodes
      <4>2. n \in {Source} \cup Within(edges, 1, Size)
        BY <3>7 DEF Effects
      <4> QED
        BY <4>1, <4>2, ReachedGrows
    <3>10. ASSUME NEW x \in Nodes, NEW m \in Nodes, Noted(x, m)' PROVE m \in ToSet(found')
      <4>1. Noted(x, m) \/ m \in F
        <5>1. CASE alg = "chains"
          <6>1. <<x, m>> \in visited \/ \E k \in F : <<x, m>> = <<n, k>>
            BY <2>1, <3>3, <3>10, <5>1, MarkIs DEF Noted
          <6> QED
            BY <5>1, <6>1 DEF Noted
        <5>2. CASE alg # "chains"
          BY <2>1, <3>3, <3>10, <5>2, MarkIs DEF Noted
        <5> QED
          BY <5>1, <5>2
      <4> QED
        BY <3>5, <4>1 DEF Effects
    <3> HIDE DEF p, n, F
    <3>11. Tips(queue') \subseteq {Source} \cup ToSet(found')
      BY <3>3, <3>5 DEF Effects
    <3>12. ToSet(found') \subseteq Within(edges, 1, Size)
      BY <3>5, <3>9 DEF Effects
    <3>13. \A m \in {Source} \cup ToSet(found') :
               m \in Tips(queue') \/ After(edges, m) \subseteq ToSet(found')
      BY <3>3, <3>5, <3>8 DEF Effects
    <3> QED
      BY <2>1, <3>1, <3>5, <3>10, <3>11, <3>12, <3>13 DEF Effects
  <2> QED
    BY <1>2, <2>2, <2>3, Moves
<1> QED
  BY <1>1, <1>2

\* The searches of what a change affects reach just what depends on it.
LEMMA EffectsExact ==
    ASSUME Shapes, Effects, ended, alg \in {"impact", "chains"}
    PROVE  /\ ToSet(found) = Within(edges, 1, Size)
           /\ Affected = Within(edges, 1, Size) \cap Changed
<1>1. Tips(queue) = {}
  BY OneInQueue DEF Effects
<1>2. \A n \in {Source} \cup ToSet(found) : After(edges, n) \subseteq ToSet(found)
  BY <1>1 DEF Effects
<1>3. Within(edges, 1, Size) \subseteq ToSet(found)
  BY <1>2, ReachedIncluded
<1> QED
  BY <1>3 DEF Effects, Affected
-----------------------------------------------------------------------------
\* Shortest paths: those of the queue are shortest ones to what was visited,
\* in the order of their lengths; what comes after a node that waits no more was
\* visited, or is beyond the depth.
ShortestPath(es, p) ==
    /\ p \in NonEmpty /\ p[1] = Source
    /\ \A i \in 1..(Len(p) - 1) : <<p[i], p[i + 1]>> \in es
    /\ IsInjective(p)
    /\ Last(p) \in Exactly(es, Len(p) - 1)
    /\ Last(p) \notin Within(es, 0, Len(p) - 2)

Far(n) == alg = "nearest" /\ n \notin Within(edges, 0, NearestDepth)

Shortest ==
    alg \in {"shortest", "nearest"} =>
        /\ \A p \in ToSet(queue) : ShortestPath(edges, p) /\ ToSet(p) \subseteq visited
        /\ InLevels(queue)
        /\ Source \in visited /\ visited \subseteq Nodes
        /\ \A n \in visited : n \in Tips(queue) \/ After(edges, n) \subseteq visited \/ Far(n)
        /\ found \in Seq(NonEmpty) /\ \A p \in ToSet(found) : ShortestPath(edges, p)

ToTarget ==
    alg = "shortest" =>
        /\ target \in visited => target \in Tips(queue)
        /\ \A p \in ToSet(found) : Last(p) = target
        /\ ended => queue = << >> \/ found # << >>

Nearest ==
    alg = "nearest" =>
        /\ \A p \in ToSet(found) : Len(p) <= NearestDepth + 1
        /\ \A n \in visited : n \in Tips(queue) \/ Far(n) \/ n \in Tips(found)
        /\ ended => queue = << >> \/ Len(found) = ResultLimit

LEMMA ShortestInitially == ASSUME TraversalInit PROVE Shortest /\ ToTarget /\ Nearest
<1> SUFFICES ASSUME alg \in {"shortest", "nearest"} PROVE Shortest /\ ToTarget /\ Nearest
  BY DEF Shortest, ToTarget, Nearest
<1>1. queue = << <<Source>> >> /\ visited = {Source} /\ found = << >> /\ ended = FALSE
  BY DEF TraversalInit
<1>2. ShortestPath(edges, <<Source>>)
  <2>1. Last(<<Source>>) \in Exactly(edges, 0)
    BY ExactlyIs, OneInQueue
  <2>2. Within(edges, 0, 1 - 2) = {}
    BY DEF Within
  <2>3. IsInjective(<<Source>>)
    BY DEF IsInjective
  <2> QED
    BY <2>1, <2>2, <2>3, OneInQueue DEF ShortestPath
<1>3. ToSet(<<Source>>) = {Source}
  BY DEF ToSet
<1>4. Source \in Nodes /\ << >> \in Seq(NonEmpty)
  BY TraversalAssumption
<1> QED
  BY <1>1, <1>2, <1>3, <1>4, OneInQueue DEF Shortest, ToTarget, Nearest

\* What is nearer than the front of the queue was visited.
LEMMA NearerVisited ==
    ASSUME Shapes, Shortest, alg \in {"shortest", "nearest"}, queue # << >>,
           alg = "nearest" => Len(Head(queue)) <= NearestDepth + 1
    PROVE  Within(edges, 0, Len(Head(queue)) - 1) \subseteq visited
<1> DEFINE p == Head(queue)
           l == Len(p)
<1>1. queue \in Seq(NonEmpty) /\ p \in NonEmpty
  BY QueueDrop DEF Shapes, Loops
<1>2. l \in Nat /\ l >= 1 /\ NearestDepth \in Nat
  BY <1>1, PathFacts, TraversalAssumption
<1>3. Exactly(edges, 0) \subseteq visited
  BY ExactlyIs DEF Shortest
<1>4. ASSUME NEW k \in Nat, 0 <= k, k < l - 1, NEW n \in visited, n \in Exactly(edges, k)
      PROVE  After(edges, n) \subseteq visited
  <2>1. n \notin Tips(queue)
    <3> SUFFICES ASSUME NEW q \in ToSet(queue), Last(q) = n PROVE FALSE
      BY DEF Tips
    <3>1. Last(q) \notin Within(edges, 0, Len(q) - 2) /\ q \in NonEmpty
      BY DEF Shortest, ShortestPath
    <3>2. l <= Len(q) /\ Len(q) \in Nat
      BY <1>1, <3>1, LevelsMean, PathFacts DEF Shortest
    <3>3. k \in 0..(Len(q) - 2)
      BY <1>2, <1>4, <3>2
    <3> QED
      BY <1>4, <3>1, <3>3, InWithin
  <2>2. ~Far(n)
    <3> SUFFICES ASSUME alg = "nearest" PROVE n \in Within(edges, 0, NearestDepth)
      BY DEF Far
    <3>1. l <= NearestDepth + 1
      OBVIOUS
    <3>2. k \in 0..NearestDepth
      BY <1>2, <1>4, <3>1
    <3> QED
      BY <1>4, <3>2, InWithin
  <2> QED
    BY <2>1, <2>2 DEF Shortest
<1> HIDE DEF l
<1>5. Within(edges, 0, l - 1) \subseteq visited
  <2>1. l - 1 \in Int
    BY <1>2
  <2> QED
    BY <1>3, <1>4, <2>1, LevelsIncluded
<1> QED
  BY <1>5 DEF l

\* One step on to what is no nearer.
LEMMA ShortestGrows ==
    ASSUME NEW es, NEW p, ShortestPath(es, p), NEW m \in After(es, Last(p)), m \notin ToSet(p),
           m \notin Within(es, 0, Len(p) - 1)
    PROVE  ShortestPath(es, Append(p, m)) /\ ToSet(Append(p, m)) = ToSet(p) \cup {m}
<1> DEFINE r == Append(p, m)
<1>1. p \in NonEmpty /\ m \in Nodes
  BY DEF ShortestPath, After
<1>2. p \in Seq(Nodes) /\ Len(p) \in Nat /\ Len(p) >= 1 /\ Last(p) = p[Len(p)] /\ IsInjective(p)
  BY <1>1, PathFacts DEF ShortestPath
<1>3. /\ r \in NonEmpty /\ Last(r) = m /\ Len(r) = Len(p) + 1
  BY <1>1, PathFacts
<1>4. /\ r[Len(p) + 1] = m /\ \A i \in 1..Len(p) : r[i] = p[i]
      /\ ToSet(r) = ToSet(p) \cup {m} /\ IsInjective(r)
  BY <1>1, <1>2, ElementsOfAppend
<1> HIDE DEF r
<1>5. r[1] = Source
  <2>1. 1 \in 1..Len(p)
    BY <1>2
  <2> QED
    BY <1>4, <2>1 DEF ShortestPath
<1>6. ASSUME NEW i \in 1..(Len(r) - 1) PROVE <<r[i], r[i + 1]>> \in es
  <2>1. i \in 1..Len(p) /\ (i = Len(p) \/ (i \in 1..(Len(p) - 1) /\ i + 1 \in 1..Len(p)))
    BY <1>2, <1>3
  <2>2. CASE i = Len(p)
    BY <1>2, <1>4, <2>1, <2>2 DEF After
  <2>3. CASE i \in 1..(Len(p) - 1) /\ i + 1 \in 1..Len(p)
    BY <1>4, <2>1, <2>3 DEF ShortestPath
  <2> QED
    BY <2>1, <2>2, <2>3
<1>7. Last(r) \in Exactly(es, Len(r) - 1)
  <2>1. Last(p) \in Exactly(es, Len(p) - 1) /\ Len(p) - 1 \in Nat /\ (Len(p) - 1) + 1 = Len(r) - 1
    BY <1>2, <1>3 DEF ShortestPath
  <2>2. m \in Exactly(es, (Len(p) - 1) + 1)
    BY <2>1, OneMore
  <2> QED
    BY <1>3, <2>1, <2>2
<1>8. Len(r) - 2 = Len(p) - 1
  BY <1>2, <1>3
<1> QED
  BY <1>3, <1>4, <1>5, <1>6, <1>7, <1>8 DEF ShortestPath, r

LEMMA ShortestExpanded ==
    ASSUME Shapes, Shortest, alg \in {"shortest", "nearest"}, queue # << >>,
           NEW order \in Orders(Head(queue)), Expand(Head(queue), order),
           alg = "nearest" => Len(Head(queue)) <= NearestDepth + 1
    PROVE  /\ \A p \in ToSet(queue') : ShortestPath(edges, p) /\ ToSet(p) \subseteq visited'
           /\ InLevels(queue')
           /\ Source \in visited' /\ visited' \subseteq Nodes
           /\ \A n \in visited' :
                 n \in Tips(queue') \/ After(edges, n) \subseteq visited' \/ Far(n)
           /\ \A n \in visited' :
                 \/ n \in Tips(queue')
                 \/ n = Last(Head(queue))
                 \/ n \in visited /\ n \notin Tips(queue)
<1> DEFINE p == Head(queue)
           F == Fresh(p)
<1>1. alg \in Loops
  BY DEF Loops
<1>2. /\ p \in NonEmpty /\ queue \in Seq(NonEmpty)
      /\ ToSet(queue) = {p} \cup ToSet(Tail(queue))
      /\ ToSet(queue') = ToSet(Tail(queue)) \cup {Append(p, m) : m \in F}
      /\ Tips(queue') = Tips(Tail(queue)) \cup F
      /\ Tips(queue) = {Last(p)} \cup Tips(Tail(queue))
      /\ InLevels(queue')
      /\ visited' = visited \cup {Mark(p, n) : n \in F}
  BY <1>1, Expanded DEF Shortest, Shapes
<1>3. /\ F = After(edges, Last(p)) \ visited /\ visited' = visited \cup F
  <2>1. \A n : Mark(p, n) = n
    BY <1>2, MarkIs
  <2> QED
    BY <1>2, <2>1 DEF Fresh
<1>4. F \subseteq Nodes
  BY FreshNodes
<1>5. Within(edges, 0, Len(p) - 1) \subseteq visited
  BY NearerVisited
<1>6. ShortestPath(edges, p) /\ ToSet(p) \subseteq visited
  BY <1>2 DEF Shortest
<1> HIDE DEF p, F
<1>7. ASSUME NEW m \in F
      PROVE  ShortestPath(edges, Append(p, m)) /\ ToSet(Append(p, m)) \subseteq visited'
  <2>1. /\ m \in After(edges, Last(p)) /\ m \notin ToSet(p)
        /\ m \notin Within(edges, 0, Len(p) - 1) /\ m \in visited'
    BY <1>3, <1>5, <1>6, <1>7
  <2>2. ShortestPath(edges, Append(p, m)) /\ ToSet(Append(p, m)) = ToSet(p) \cup {m}
    BY <1>6, <2>1, ShortestGrows
  <2>3. visited \subseteq visited'
    BY <1>3
  <2> QED
    BY <1>6, <2>1, <2>2, <2>3
<1>8. ASSUME NEW x \in ToSet(queue') PROVE ShortestPath(edges, x) /\ ToSet(x) \subseteq visited'
  <2>1. CASE x \in ToSet(queue)
    <3>1. ShortestPath(edges, x) /\ ToSet(x) \subseteq visited
      BY <2>1 DEF Shortest
    <3> QED
      BY <1>3, <3>1
  <2>2. CASE \E m \in F : x = Append(p, m)
    BY <1>7, <2>2
  <2> QED
    BY <1>2, <2>1, <2>2
<1>9. ASSUME NEW n \in visited'
      PROVE  n \in Tips(queue') \/ After(edges, n) \subseteq visited' \/ Far(n)
  BY <1>2, <1>3 DEF Shortest
<1>10. ASSUME NEW n \in visited'
       PROVE  n \in Tips(queue') \/ n = Last(p) \/ (n \in visited /\ n \notin Tips(queue))
  BY <1>2, <1>3
<1>11. Source \in visited' /\ visited' \subseteq Nodes
  BY <1>3, <1>4 DEF Shortest
<1> QED
  BY <1>2, <1>8, <1>9, <1>10, <1>11 DEF p
LEMMA ShortestStep ==
    ASSUME Shapes, Shortest, ToTarget, [TraversalNext]_traversalVars
    PROVE  Shortest' /\ ToTarget'
<1>1. CASE UNCHANGED traversalVars
  BY <1>1 DEF traversalVars, Shortest, ToTarget, Far
<1>2. CASE TraversalNext /\ alg = "shortest"
  <2>1. alg' = alg /\ edges' = edges /\ target' = target
    BY <1>2, SearchFixed DEF AddEdge, Stored
  <2>2. \A n : Far(n)' = Far(n)
    BY <2>1 DEF Far
  <2>3. CASE EndLoop
    BY <1>2, <2>1, <2>2, <2>3 DEF EndLoop, Exhausted, Shortest, ToTarget
  <2>4. CASE FindShortest
    <3>1. queue # << >> /\ queue \in Seq(NonEmpty) /\ found \in Seq(NonEmpty)
      BY <1>2, <2>4 DEF FindShortest, Pop, Shapes, Loops, Shortest
    <3>2. CASE Last(Head(queue)) = target /\ found' = <<Head(queue)>> /\ UNCHANGED <<queue, visited>>
      <4>1. Head(queue) \in ToSet(queue) /\ Head(queue) \in NonEmpty
        BY <3>1, QueueDrop
      <4>2. found' \in Seq(NonEmpty) /\ ToSet(found') = {Head(queue)} /\ found' # << >>
        BY <3>2, <4>1 DEF ToSet
      <4>3. ShortestPath(edges, Head(queue))
        BY <1>2, <4>1 DEF Shortest
      <4>4. Shortest'
        BY <1>2, <2>1, <2>2, <3>2, <4>2, <4>3 DEF Shortest
      <4>5. ToTarget'
        BY <1>2, <2>1, <3>2, <4>2 DEF ToTarget
      <4> QED
        BY <4>4, <4>5
    <3>3. CASE /\ Last(Head(queue)) # target /\ UNCHANGED <<found, ended>>
               /\ \E order \in Orders(Head(queue)) : Expand(Head(queue), order)
      <4>1. PICK order \in Orders(Head(queue)) : Expand(Head(queue), order)
        BY <3>3
      <4>2. /\ \A p \in ToSet(queue') : ShortestPath(edges, p) /\ ToSet(p) \subseteq visited'
            /\ InLevels(queue')
            /\ Source \in visited' /\ visited' \subseteq Nodes
            /\ \A n \in visited' :
                  n \in Tips(queue') \/ After(edges, n) \subseteq visited' \/ Far(n)
            /\ \A n \in visited' :
                  \/ n \in Tips(queue')
                  \/ n = Last(Head(queue))
                  \/ n \in visited /\ n \notin Tips(queue)
        BY <1>2, <3>1, <4>1, ShortestExpanded
      <4>3. Shortest'
        BY <1>2, <2>1, <2>2, <3>3, <4>2 DEF Shortest
      <4>4. ~ended
        BY <2>4 DEF FindShortest, Pop
      <4>5. ToTarget'
        BY <1>2, <2>1, <3>3, <4>2, <4>4 DEF ToTarget
      <4> QED
        BY <4>3, <4>5
    <3> QED
      BY <2>4, <3>2, <3>3 DEF FindShortest
  <2> QED
    BY <1>2, <2>3, <2>4, Moves
<1>3. CASE TraversalNext /\ alg = "nearest"
  <2>1. alg' = alg /\ edges' = edges
    BY <1>3, SearchFixed DEF AddEdge, Stored
  <2>2. \A n : Far(n)' = Far(n)
    BY <2>1 DEF Far
  <2>3. ToTarget'
    BY <1>3, <2>1 DEF ToTarget
  <2>4. CASE EndLoop
    BY <1>3, <2>1, <2>2, <2>3, <2>4 DEF EndLoop, Shortest
  <2>5. CASE FindNearest
    <3> DEFINE p == Head(queue)
    <3>1. queue # << >> /\ queue \in Seq(NonEmpty) /\ found \in Seq(NonEmpty) /\ NearestDepth \in Nat
      BY <1>3, <2>5, TraversalAssumption DEF FindNearest, Pop, Shapes, Loops, Shortest
    <3>2. p \in ToSet(queue) /\ p \in NonEmpty /\ Len(p) \in Nat
      BY <3>1, QueueDrop, PathFacts
    <3>3. ShortestPath(edges, p)
      BY <1>3, <3>2 DEF Shortest
    <3>4. CASE Len(p) > NearestDepth + 1 /\ Drop
      <4>1. queue' = Tail(queue) /\ visited' = visited /\ found' = found
        BY <3>4 DEF Drop
      <4>2. /\ ToSet(queue) = {p} \cup ToSet(queue') /\ Tips(queue) = {Last(p)} \cup Tips(queue')
            /\ InLevels(queue')
        BY <1>3, <3>1, <4>1, QueueDrop DEF Shortest
      <4>3. Far(Last(p))
        <5>1. Last(p) \notin Within(edges, 0, Len(p) - 2)
          BY <3>3 DEF ShortestPath
        <5>2. \A k \in 0..NearestDepth : k \in 0..(Len(p) - 2)
          BY <3>1, <3>2, <3>4
        <5> QED
          BY <1>3, <5>1, <5>2, InWithin DEF Far
      <4> HIDE DEF p
      <4> QED
        BY <1>3, <2>1, <2>2, <2>3, <4>1, <4>2, <4>3 DEF Shortest
    <3>5. CASE /\ ~(Len(p) > NearestDepth + 1)
               /\ \E order \in Orders(p) : Expand(p, order)
               /\ found' = Append(found, p)
      <4>1. PICK order \in Orders(p) : Expand(p, order)
        BY <3>5
      <4>2. Len(p) <= NearestDepth + 1
        BY <3>1, <3>2, <3>5
      <4>3. /\ \A x \in ToSet(queue') : ShortestPath(edges, x) /\ ToSet(x) \subseteq visited'
            /\ InLevels(queue')
            /\ Source \in visited' /\ visited' \subseteq Nodes
            /\ \A n \in visited' :
                  n \in Tips(queue') \/ After(edges, n) \subseteq visited' \/ Far(n)
        BY <1>3, <3>1, <4>1, <4>2, ShortestExpanded
      <4>4. found' \in Seq(NonEmpty) /\ ToSet(found') = ToSet(found) \cup {p}
        BY <3>1, <3>2, <3>5, ElementsOfAppend
      <4> HIDE DEF p
      <4> QED
        BY <1>3, <2>1, <2>2, <2>3, <3>3, <4>3, <4>4 DEF Shortest
    <3> QED
      BY <2>5, <3>4, <3>5 DEF FindNearest
  <2> QED
    BY <1>3, <2>4, <2>5, Moves
<1>4. CASE alg \notin {"shortest", "nearest"}
  BY <1>4, SearchFixed DEF Shortest, ToTarget
<1> QED
  BY <1>1, <1>2, <1>3, <1>4

LEMMA NearestStep ==
    ASSUME Shapes, Shortest, Nearest, [TraversalNext]_traversalVars
    PROVE  Nearest'
<1>1. CASE UNCHANGED traversalVars
  BY <1>1 DEF traversalVars, Nearest, Far
<1>2. CASE TraversalNext /\ alg = "nearest"
  <2>1. alg' = alg /\ edges' = edges
    BY <1>2, SearchFixed DEF AddEdge, Stored
  <2>2. \A n : Far(n)' = Far(n)
    BY <2>1 DEF Far
  <2>3. CASE EndLoop
    BY <1>2, <2>1, <2>2, <2>3 DEF EndLoop, Exhausted, Nearest
  <2>4. CASE FindNearest
    <3> DEFINE p == Head(queue)
    <3>1. /\ queue # << >> /\ queue \in Seq(NonEmpty) /\ found \in Seq(NonEmpty) /\ NearestDepth \in Nat
          /\ ~ended /\ ended' = ended
      BY <1>2, <2>4, TraversalAssumption DEF FindNearest, Pop, Shapes, Loops, Shortest
    <3>2. p \in ToSet(queue) /\ p \in NonEmpty /\ Len(p) \in Nat
      BY <3>1, QueueDrop, PathFacts
    <3>3. ShortestPath(edges, p)
      BY <1>2, <3>2 DEF Shortest
    <3>4. CASE Len(p) > NearestDepth + 1 /\ Drop
      <4>1. queue' = Tail(queue) /\ visited' = visited /\ found' = found
        BY <3>4 DEF Drop
      <4>2. Tips(queue) = {Last(p)} \cup Tips(queue')
        BY <3>1, <4>1, QueueDrop
      <4>3. Far(Last(p))
        <5>1. Last(p) \notin Within(edges, 0, Len(p) - 2)
          BY <3>3 DEF ShortestPath
        <5>2. \A k \in 0..NearestDepth : k \in 0..(Len(p) - 2)
          BY <3>1, <3>2, <3>4
        <5> QED
          BY <1>2, <5>1, <5>2, InWithin DEF Far
      <4> HIDE DEF p
      <4> QED
        BY <1>2, <2>1, <2>2, <3>1, <4>1, <4>2, <4>3 DEF Nearest
    <3>5. CASE /\ ~(Len(p) > NearestDepth + 1)
               /\ \E order \in Orders(p) : Expand(p, order)
               /\ found' = Append(found, p)
      <4>1. PICK order \in Orders(p) : Expand(p, order)
        BY <3>5
      <4>2. Len(p) <= NearestDepth + 1
        BY <3>1, <3>2, <3>5
      <4>3. \A n \in visited' :
                  \/ n \in Tips(queue')
                  \/ n = Last(Head(queue))
                  \/ n \in visited /\ n \notin Tips(queue)
        BY <1>2, <3>1, <4>1, <4>2, ShortestExpanded
      <4>4. ToSet(found') = ToSet(found) \cup {p}
        BY <3>1, <3>2, <3>5, ElementsOfAppend
      <4>5. Tips(found') = Tips(found) \cup {Last(p)}
        BY <4>4 DEF Tips
      <4>6. \A n \in visited' : n \in Tips(queue') \/ Far(n) \/ n \in Tips(found')
        BY <1>2, <4>3, <4>5 DEF Nearest
      <4>7. \A x \in ToSet(found') : Len(x) <= NearestDepth + 1
        BY <1>2, <4>2, <4>4 DEF Nearest
      <4> HIDE DEF p
      <4> QED
        BY <1>2, <2>1, <2>2, <3>1, <4>6, <4>7 DEF Nearest
    <3> QED
      BY <2>4, <3>4, <3>5 DEF FindNearest
  <2> QED
    BY <1>2, <2>3, <2>4, Moves
<1>3. CASE alg # "nearest"
  BY <1>3, SearchFixed DEF Nearest
<1> QED
  BY <1>1, <1>2, <1>3
\* Paths of the result are among the simple paths of their length.
LEMMA ShortestIsSimple ==
    ASSUME NEW es, NEW p, ShortestPath(es, p), NEW k \in Nat, Len(p) <= k
    PROVE  p \in SimplePaths(es, k)
<1>1. p \in Seq(Nodes) /\ Len(p) \in Nat /\ Len(p) >= 1
  BY PathFacts DEF ShortestPath
<1>2. p \in [1..Len(p) -> Nodes] /\ Len(p) \in 1..k
  BY <1>1
<1> QED
  BY <1>2 DEF ShortestPath, SimplePaths

LEMMA InjectiveIsShort ==
    ASSUME NEW p \in NonEmpty, IsInjective(p)
    PROVE  Len(p) <= Size
<1>1. p \in Seq(Nodes) /\ Len(p) \in Nat
  BY PathFacts
<1>2. p \in [1..Len(p) -> Nodes] /\ DOMAIN p = 1..Len(p)
  BY <1>1
<1>3. p \in Injection(1..Len(p), Nodes)
  BY <1>2 DEF Injection, IsInjective
<1>4. IsFiniteSet(1..Len(p)) /\ Cardinality(1..Len(p)) = Len(p)
  BY <1>1, OneTo
<1>5. Cardinality(1..Len(p)) <= Cardinality(Nodes)
  BY <1>3, <1>4, SizeFacts, FS_Injection
<1> QED
  BY <1>4, <1>5 DEF Size

\* A path between metrics is found if there is one, and a shortest.
LEMMA ShortestExact ==
    ASSUME Shapes, Shortest, ToTarget, ended, alg = "shortest"
    PROVE  IF found = << >> THEN target \notin Within(edges, 0, Size)
           ELSE /\ found[1] \in SimplePaths(edges, Size)
                /\ Last(found[1]) = target
                /\ target \notin Within(edges, 0, Len(found[1]) - 2)
<1>1. CASE found = << >>
  <2>1. Tips(queue) = {}
    BY <1>1, OneInQueue DEF ToTarget
  <2>2. Source \in visited /\ \A n \in visited : After(edges, n) \subseteq visited
    BY <2>1 DEF Shortest, Far
  <2>3. Within(edges, 0, Size) \subseteq visited
    BY <2>2, ReachedIncluded
  <2> QED
    BY <1>1, <2>1, <2>3 DEF ToTarget
<1>2. CASE found # << >>
  <2>1. found \in Seq(NonEmpty)
    BY DEF Shortest
  <2>2. found[1] \in ToSet(found)
    <3>1. 1 \in 1..Len(found)
      BY <1>2, <2>1
    <3> QED
      BY <2>1, <3>1, Elements
  <2>3. ShortestPath(edges, found[1]) /\ Last(found[1]) = target
    BY <2>2 DEF Shortest, ToTarget
  <2>4. Len(found[1]) <= Size /\ Size \in Nat
    BY <2>3, InjectiveIsShort, SizeFacts DEF ShortestPath
  <2>5. found[1] \in SimplePaths(edges, Size)
    BY <2>3, <2>4, ShortestIsSimple
  <2>6. target \notin Within(edges, 0, Len(found[1]) - 2)
    BY <2>3 DEF ShortestPath
  <2> QED
    BY <1>2, <2>3, <2>5, <2>6
<1> QED
  BY <1>1, <1>2

\* The nearest paths are shortest ones to all there is in the given depth.
LEMMA NearestExact ==
    ASSUME Shapes, Shortest, Nearest, ended, alg = "nearest"
    PROVE  /\ ToSet(found) \subseteq SimplePaths(edges, NearestDepth + 1)
           /\ \A p \in ToSet(found) : Last(p) \notin Within(edges, 0, Len(p) - 2)
           /\ Len(found) < ResultLimit =>
                  {Last(p) : p \in ToSet(found)} = Within(edges, 0, NearestDepth)
<1>1. NearestDepth \in Nat /\ ResultLimit \in Nat /\ NearestDepth + 1 \in Nat
  BY TraversalAssumption
<1>2. \A p \in ToSet(found) : ShortestPath(edges, p) /\ Len(p) <= NearestDepth + 1
  BY DEF Shortest, Nearest
<1>3. ToSet(found) \subseteq SimplePaths(edges, NearestDepth + 1)
  BY <1>1, <1>2, ShortestIsSimple
<1>4. \A p \in ToSet(found) : Last(p) \notin Within(edges, 0, Len(p) - 2)
  BY <1>2 DEF ShortestPath
<1>5. ASSUME NEW p \in ToSet(found) PROVE Last(p) \in Within(edges, 0, NearestDepth)
  <2>1. Last(p) \in Exactly(edges, Len(p) - 1) /\ p \in NonEmpty /\ Len(p) <= NearestDepth + 1
    BY <1>2 DEF ShortestPath
  <2>2. Len(p) \in Nat /\ Len(p) >= 1
    BY <2>1, PathFacts
  <2>3. Len(p) - 1 \in 0..NearestDepth
    BY <1>1, <2>1, <2>2
  <2> QED
    BY <2>1, <2>3, InWithin
<1>6. ASSUME Len(found) < ResultLimit PROVE Within(edges, 0, NearestDepth) \subseteq Tips(found)
  <2>1. found \in Seq(NonEmpty)
    BY DEF Shortest
  <2>2. Len(found) # ResultLimit
    BY <1>1, <1>6, <2>1
  <2>3. Tips(queue) = {}
    BY <2>2, OneInQueue DEF Nearest
  <2>4. ASSUME NEW k \in Nat, 0 <= k, k < NearestDepth, NEW n \in visited, n \in Exactly(edges, k)
        PROVE  After(edges, n) \subseteq visited
    <3>1. k \in 0..NearestDepth
      BY <1>1, <2>4
    <3>2. ~Far(n)
      BY <2>4, <3>1, InWithin DEF Far
    <3> QED
      BY <2>3, <3>2 DEF Shortest
  <2>5. Exactly(edges, 0) \subseteq visited
    BY ExactlyIs DEF Shortest
  <2>6. Within(edges, 0, NearestDepth) \subseteq visited
    BY <1>1, <2>4, <2>5, LevelsIncluded
  <2> QED
    BY <2>3, <2>6 DEF Nearest, Far
<1> QED
  BY <1>3, <1>4, <1>5, <1>6 DEF Tips
-----------------------------------------------------------------------------
\* A traversal, while edges are added: a path of the queue leads where it was
\* when its edges were read, and not sooner than those given at the beginning do.
Reads(es, p) ==
    /\ Len(p) <= TraverseDepth + 1
    /\ Last(p) \in Exactly(es, Len(p) - 1)
    /\ Last(p) \notin Within(given, 1, Len(p) - 2)

Traverses ==
    alg = "traverse" =>
        /\ \A p \in ToSet(queue) : Reads(edges, p)
        /\ InLevels(queue)
        /\ found \in Seq(Nodes) /\ visited = ToSet(found)
        /\ visited \subseteq Within(edges, 1, TraverseDepth)
        /\ \/ queue = << <<Source>> >> \/ TraverseDepth = 0
           \/ After(given, Source) \subseteq visited
        /\ \A n \in visited : \/ n \in Tips(queue)
                              \/ After(given, n) \subseteq visited
                              \/ n \notin Within(given, 1, TraverseDepth - 1)
        /\ ended => queue = << >>

LEMMA TraversesInitially == ASSUME TraversalInit PROVE Traverses
<1>1. TraverseDepth \in Nat
  BY TraversalAssumption
<1>2. Source \in Exactly(edges, 0) /\ Within(given, 1, 1 - 2) = {}
  BY ExactlyIs DEF Within
<1>3. Reads(edges, <<Source>>)
  BY <1>1, <1>2, OneInQueue DEF Reads
<1> QED
  BY <1>3, OneInQueue DEF TraversalInit, Traverses

\* What the given edges lead to sooner than the front of the queue was visited.
LEMMA SoonerVisited ==
    ASSUME Shapes, Traverses, alg = "traverse", queue # << >>,
           Len(Head(queue)) <= TraverseDepth
    PROVE  Within(given, 1, Len(Head(queue)) - 1) \subseteq visited
<1> DEFINE p == Head(queue)
           l == Len(p)
<1>1. queue \in Seq(NonEmpty) /\ p \in NonEmpty
  BY QueueDrop DEF Shapes, Loops
<1>2. l \in Nat /\ l >= 1 /\ TraverseDepth \in Nat /\ l <= TraverseDepth
  BY <1>1, PathFacts, TraversalAssumption
<1>3. CASE l = 1
  <2>1. l - 1 = 0
    BY <1>3
  <2> HIDE DEF l
  <2>2. Within(given, 1, l - 1) = {}
    BY <2>1 DEF Within
  <2> QED
    BY <2>2 DEF l
<1>4. CASE l # 1
  <2>1. Exactly(given, 1) \subseteq visited
    <3>1. queue # << <<Source>> >>
      BY <1>4, OneInQueue
    <3>2. After(given, Source) \subseteq visited
      BY <1>2, <3>1 DEF Traverses
    <3>3. Exactly(given, 0) = {Source} /\ Exactly(given, 0 + 1) = Onward(given, Exactly(given, 0))
      BY ExactlyIs
    <3> QED
      BY <3>2, <3>3 DEF Onward
  <2>2. ASSUME NEW k \in Nat, 1 <= k, k < l - 1, NEW n \in visited, n \in Exactly(given, k)
        PROVE  After(given, n) \subseteq visited
    <3>1. n \notin Tips(queue)
      <4> SUFFICES ASSUME NEW q \in ToSet(queue), Last(q) = n PROVE FALSE
        BY DEF Tips
      <4>1. Last(q) \notin Within(given, 1, Len(q) - 2) /\ q \in NonEmpty
        BY <1>1, Elements DEF Traverses, Reads
      <4>2. l <= Len(q) /\ Len(q) \in Nat
        BY <1>1, <4>1, LevelsMean, PathFacts DEF Traverses
      <4>3. k \in 1..(Len(q) - 2)
        BY <1>2, <2>2, <4>2
      <4> QED
        BY <2>2, <4>1, <4>3, InWithin
    <3>2. n \in Within(given, 1, TraverseDepth - 1)
      <4>1. k \in 1..(TraverseDepth - 1)
        BY <1>2, <2>2
      <4> QED
        BY <2>2, <4>1, InWithin
    <3> QED
      BY <3>1, <3>2 DEF Traverses
  <2> HIDE DEF l
  <2>3. Within(given, 1, l - 1) \subseteq visited
    <3>1. l - 1 \in Int
      BY <1>2
    <3> QED
      BY <2>1, <2>2, <3>1, LevelsIncluded
  <2> QED
    BY <2>3 DEF l
<1> QED
  BY <1>3, <1>4

LEMMA ReadsStays ==
    ASSUME NEW es, NEW fs, es \subseteq fs, NEW p \in NonEmpty, Reads(es, p)
    PROVE  Reads(fs, p)
<1>1. Len(p) \in Nat /\ Len(p) >= 1
  BY PathFacts
<1>2. Len(p) - 1 \in Nat
  BY <1>1
<1>3. Exactly(es, Len(p) - 1) \subseteq Exactly(fs, Len(p) - 1)
  BY <1>2, ExactlyGrows
<1> QED
  BY <1>3 DEF Reads

LEMMA TraversesStep ==
    ASSUME Shapes, Traverses, [TraversalNext]_traversalVars
    PROVE  Traverses'
<1>1. CASE UNCHANGED traversalVars
  BY <1>1 DEF traversalVars, Traverses, Reads
<1>2. CASE TraversalNext /\ alg = "traverse"
  <2>1. alg' = alg /\ given' = given /\ (edges' = edges \/ AddEdge)
    BY SearchFixed
  <2>2. \A es, p : Reads(es, p)' = Reads(es, p)
    BY <2>1 DEF Reads
  <2>3. queue \in Seq(NonEmpty) /\ TraverseDepth \in Nat /\ given \subseteq edges
    BY <1>2, TraversalAssumption DEF Shapes, Loops
  <2>4. CASE AddEdge
    <3>1. edges \subseteq edges' /\ UNCHANGED <<queue, visited, found, ended>>
      BY <2>4 DEF AddEdge
    <3>2. \A p \in ToSet(queue) : Reads(edges', p)
      <4> TAKE p \in ToSet(queue)
      <4>1. p \in NonEmpty /\ Reads(edges, p)
        BY <1>2, <2>3, Elements DEF Traverses
      <4> QED
        BY <3>1, <4>1, ReadsStays
    <3>3. Within(edges, 1, TraverseDepth) \subseteq Within(edges', 1, TraverseDepth)
      BY <2>3, <3>1, WithinGrows
    <3> QED
      BY <1>2, <2>1, <3>1, <3>2, <3>3 DEF Traverses, Reads
  <2>5. CASE EndLoop
    <3>1. queue = << >> /\ UNCHANGED <<queue, visited, found, edges>>
      BY <1>2, <2>5 DEF EndLoop, Exhausted
    <3> QED
      BY <1>2, <2>1, <3>1 DEF Traverses, Reads
  <2>6. CASE Traverse
    <3> DEFINE p == Head(queue)
               F == Fresh(p)
    <3>1. queue # << >> /\ ~ended /\ ended' = ended /\ edges' = edges
      BY <2>6 DEF Traverse, Pop
    <3>2. p \in ToSet(queue) /\ p \in NonEmpty /\ Len(p) \in Nat /\ Len(p) >= 1
      BY <2>3, <3>1, QueueDrop, PathFacts
    <3>3. Reads(edges, p)
      BY <1>2, <3>2 DEF Traverses
    <3>4. CASE Len(p) > TraverseDepth /\ Drop
      <4>1. queue' = Tail(queue) /\ visited' = visited /\ found' = found
        BY <3>4 DEF Drop
      <4>2. /\ ToSet(queue) = {p} \cup ToSet(queue') /\ Tips(queue) = {Last(p)} \cup Tips(queue')
            /\ InLevels(queue')
        BY <1>2, <2>3, <3>1, <4>1, QueueDrop DEF Traverses
      <4>3. Len(p) - 2 = TraverseDepth - 1
        BY <2>3, <3>2, <3>3, <3>4 DEF Reads
      <4>4. Last(p) \notin Within(given, 1, TraverseDepth - 1)
        BY <3>3, <4>3 DEF Reads
      <4>5. queue = << <<Source>> >> => TraverseDepth = 0
        BY <2>3, <3>4, OneInQueue
      <4> HIDE DEF p
      <4>6. \A x \in ToSet(queue') : Reads(edges, x)
        BY <1>2, <4>2 DEF Traverses
      <4>7. TraverseDepth = 0 \/ After(given, Source) \subseteq visited
        BY <1>2, <4>5 DEF Traverses
      <4>8. \A n \in visited : \/ n \in Tips(queue')
                               \/ After(given, n) \subseteq visited
                               \/ n \notin Within(given, 1, TraverseDepth - 1)
        BY <1>2, <4>2, <4>4 DEF Traverses
      <4> QED
        BY <1>2, <2>1, <2>2, <3>1, <4>1, <4>2, <4>6, <4>7, <4>8 DEF Traverses
    <3>5. CASE /\ ~(Len(p) > TraverseDepth)
               /\ \E order \in Orders(p) : Expand(p, order) /\ found' = found \o order
      <4>1. PICK order \in Orders(p) : Expand(p, order) /\ found' = found \o order
        BY <3>5
      <4>2. Len(p) <= TraverseDepth
        BY <2>3, <3>2, <3>5
      <4>3. alg \in Loops
        BY <1>2 DEF Loops
      <4>4. /\ order \in Seq(Nodes) /\ ToSet(order) = F
            /\ ToSet(queue) = {p} \cup ToSet(Tail(queue))
            /\ ToSet(queue') = ToSet(Tail(queue)) \cup {Append(p, m) : m \in F}
            /\ Tips(queue') = Tips(Tail(queue)) \cup F
            /\ Tips(queue) = {Last(p)} \cup Tips(Tail(queue))
            /\ InLevels(queue')
            /\ visited' = visited \cup {Mark(p, n) : n \in F}
        BY <1>2, <3>1, <4>1, <4>3, Expanded DEF Traverses
      <4>5. F = After(edges, Last(p)) \ visited /\ visited' = visited \cup F /\ F \subseteq Nodes
        <5>1. \A n : Mark(p, n) = n
          BY <1>2, <3>2, MarkIs
        <5>2. F \subseteq Nodes
          BY FreshNodes
        <5> QED
          BY <4>4, <5>1, <5>2 DEF Fresh
      <4>6. Within(given, 1, Len(p) - 1) \subseteq visited
        BY <1>2, <3>1, <4>2, SoonerVisited
      <4>7. queue = << <<Source>> >> => Last(p) = Source
        BY OneInQueue
      <4> HIDE DEF p, F
      <4>8. \A m \in F : m \in Exactly(edges, Len(p)) /\ m \in Within(edges, 1, TraverseDepth)
        <5> TAKE m \in F
        <5>1. Len(p) - 1 \in Nat /\ (Len(p) - 1) + 1 = Len(p) /\ Len(p) \in 1..TraverseDepth
          BY <2>3, <3>2, <4>2
        <5>2. m \in Exactly(edges, (Len(p) - 1) + 1)
          BY <3>3, <4>5, <5>1, OneMore DEF Reads
        <5> QED
          BY <5>1, <5>2, InWithin
      <4>9. \A m \in F : Reads(edges, Append(p, m))
        <5> TAKE m \in F
        <5>1. Last(Append(p, m)) = m /\ Len(Append(p, m)) = Len(p) + 1
          BY <3>2, <4>5, PathFacts
        <5>2. (Len(p) + 1) - 1 = Len(p) /\ (Len(p) + 1) - 2 = Len(p) - 1 /\ Len(p) + 1 <= TraverseDepth + 1
          BY <2>3, <3>2, <4>2
        <5>3. m \notin Within(given, 1, Len(p) - 1)
          BY <4>5, <4>6
        <5> QED
          BY <4>8, <5>1, <5>2, <5>3 DEF Reads
      <4>10. \A x \in ToSet(queue') : Reads(edges, x)
        <5> TAKE x \in ToSet(queue')
        <5>1. CASE x \in ToSet(queue)
          BY <1>2, <5>1 DEF Traverses
        <5>2. CASE \E m \in F : x = Append(p, m)
          BY <4>9, <5>2
        <5> QED
          BY <4>4, <5>1, <5>2
      <4>11. found' \in Seq(Nodes) /\ ToSet(found') = visited'
        <5>1. found \in Seq(Nodes) /\ ToSet(found) = visited
          BY <1>2 DEF Traverses
        <5> QED
          BY <4>1, <4>4, <4>5, <5>1, ElementsOfConcat
      <4>12. visited' \subseteq Within(edges, 1, TraverseDepth)
        BY <1>2, <4>5, <4>8 DEF Traverses
      <4>13. After(given, Last(p)) \subseteq visited'
        <5>1. After(given, Last(p)) \subseteq After(edges, Last(p))
          BY <2>3 DEF After
        <5> QED
          BY <4>5, <5>1
      <4>14. TraverseDepth = 0 \/ After(given, Source) \subseteq visited'
        BY <1>2, <4>5, <4>7, <4>13 DEF Traverses
      <4>15. \A n \in visited' : \/ n \in Tips(queue')
                                 \/ After(given, n) \subseteq visited'
                                 \/ n \notin Within(given, 1, TraverseDepth - 1)
        BY <1>2, <4>4, <4>5, <4>13 DEF Traverses
      <4> QED
        BY <1>2, <2>1, <2>2, <3>1, <4>4, <4>10, <4>11, <4>12, <4>14, <4>15 DEF Traverses
    <3> QED
      BY <2>6, <3>4, <3>5 DEF Traverse
  <2> QED
    BY <1>2, <2>4, <2>5, <2>6, Moves
<1>3. CASE alg # "traverse"
  BY <1>3, SearchFixed DEF Traverses
<1> QED
  BY <1>1, <1>2, <1>3

\* A traversal misses nothing that was there when it began, and gives nothing
\* that is not there when it ends.
LEMMA TraverseExact ==
    ASSUME Shapes, Traverses, ended, alg = "traverse"
    PROVE  /\ Within(given, 1, TraverseDepth) \subseteq ToSet(found)
           /\ ToSet(found) \subseteq Within(edges, 1, TraverseDepth)
<1>1. TraverseDepth \in Nat /\ queue = << >> /\ visited = ToSet(found) /\ Tips(queue) = {}
  BY TraversalAssumption, OneInQueue DEF Traverses
<1>2. CASE TraverseDepth = 0
  <2>1. Within(given, 1, TraverseDepth) = {}
    BY <1>2 DEF Within
  <2> QED
    BY <2>1 DEF Traverses
<1>3. CASE TraverseDepth # 0
  <2>1. Exactly(given, 1) \subseteq visited
    <3>1. After(given, Source) \subseteq visited
      BY <1>1, <1>3 DEF Traverses
    <3>2. Exactly(given, 0) = {Source} /\ Exactly(given, 0 + 1) = Onward(given, Exactly(given, 0))
      BY ExactlyIs
    <3> QED
      BY <3>1, <3>2 DEF Onward
  <2>2. ASSUME NEW k \in Nat, 1 <= k, k < TraverseDepth, NEW n \in visited, n \in Exactly(given, k)
        PROVE  After(given, n) \subseteq visited
    <3>1. k \in 1..(TraverseDepth - 1)
      BY <1>1, <2>2
    <3>2. n \in Within(given, 1, TraverseDepth - 1)
      BY <2>2, <3>1, InWithin
    <3> QED
      BY <1>1, <3>2 DEF Traverses
  <2>3. Within(given, 1, TraverseDepth) \subseteq visited
    BY <1>1, <2>1, <2>2, LevelsIncluded
  <2> QED
    BY <1>1, <2>3 DEF Traverses
<1> QED
  BY <1>2, <1>3
-----------------------------------------------------------------------------
\* The graph of a metric: its dependencies are noted one by one, in one call.
Dependencies == IF DagDepth = 0 THEN {} ELSE {<<m, Source>> : m \in Before(edges, Source)}

Builds ==
    alg = "dag" =>
        /\ found \in Seq(Nodes \X Nodes) /\ IsInjective(found)
        /\ \/ stack = << >> /\ ToSet(found) = Dependencies
           \/ \E todo \in Seq(Nodes) :
                 /\ stack = <<[node |-> Source, todo |-> todo]>>
                 /\ ToSet(found) \cup {<<m, Source>> : m \in ToSet(todo)} = Dependencies
        /\ ended => stack = << >>

LEMMA BuildsInitially == ASSUME TraversalInit PROVE Builds
<1> SUFFICES ASSUME alg = "dag" PROVE Builds
  BY DEF Builds
<1> DEFINE first == IF DagDepth = 0 THEN {} ELSE Before(edges, Source)
<1>1. PICK order \in Listed(Source, first) : stack = <<[node |-> Source, todo |-> order]>>
  BY DEF TraversalInit
<1>2. first \in SUBSET Nodes /\ Source \in Nodes
  BY NodesAfter, TraversalAssumption
<1>3. Dependencies = {<<m, Source>> : m \in first}
  BY DEF Dependencies
<1> HIDE DEF first
<1>4. order \in Seq(Nodes) /\ ToSet(order) = first
  BY <1>2, ListedIs
<1>5. found = << >> /\ ended = FALSE
  BY DEF TraversalInit
<1>6. << >> \in Seq(Nodes \X Nodes) /\ IsInjective(<< >>) /\ ToSet(<< >>) = {}
  BY DEF IsInjective, ToSet
<1> QED
  BY <1>1, <1>3, <1>4, <1>5, <1>6 DEF Builds

\* The call of n, and no other.
Alone(n, todo) == <<[node |-> n, todo |-> todo]>>

WithTodo(c, todo) == [c EXCEPT ![Len(c)].todo = todo]

LEMMA OneCall ==
    ASSUME NEW n, NEW t
    PROVE  /\ Alone(n, t) # << >> /\ Len(Alone(n, t)) = 1 /\ Front(Alone(n, t)) = << >>
           /\ Last(Alone(n, t)).node = n /\ Last(Alone(n, t)).todo = t
           /\ \A u : WithTodo(Alone(n, t), u) = Alone(n, u)
<1> DEFINE f == [node |-> n, todo |-> t]
           c == Alone(n, t)
<1>1. Len(c) = 1 /\ c # << >> /\ c[1] = f /\ DOMAIN c = {1} /\ c = <<f>>
  BY DEF Alone
<1> HIDE DEF c
<1>2. Last(c) = f
  BY <1>1 DEF Last
<1>3. Front(c) = << >>
  BY <1>1 DEF Front
<1>4. ASSUME NEW u PROVE WithTodo(c, u) = Alone(n, u)
  <2> DEFINE g == [node |-> n, todo |-> u]
  <2>1. [f EXCEPT !.todo = u] = g
    OBVIOUS
  <2>2. [c EXCEPT ![Len(c)].todo = u] = [c EXCEPT ![1] = g]
    BY <1>1, <2>1
  <2>3. [c EXCEPT ![1] = g] = <<g>>
    BY <1>1
  <2> QED
    BY <2>2, <2>3 DEF WithTodo, Alone
<1>5. f.node = n /\ f.todo = t
  OBVIOUS
<1> QED
  BY <1>1, <1>2, <1>3, <1>4, <1>5 DEF c

LEMMA BuildsStep ==
    ASSUME Shapes, Builds, [TraversalNext]_traversalVars
    PROVE  Builds'
<1>1. CASE UNCHANGED traversalVars
  BY <1>1 DEF traversalVars, Builds, Dependencies
<1>2. CASE TraversalNext /\ alg = "dag"
  <2>1. alg' = alg /\ edges' = edges
    BY <1>2, SearchFixed DEF AddEdge, Stored
  <2>2. Dependencies' = Dependencies
    BY <2>1 DEF Dependencies
  <2>3. stack # << >> /\ ~ended
    BY <1>2, Moves DEF BuildDag, Return, InCall
  <2>4. PICK todo \in Seq(Nodes) :
           /\ stack = <<[node |-> Source, todo |-> todo]>>
           /\ ToSet(found) \cup {<<m, Source>> : m \in ToSet(todo)} = Dependencies
    BY <1>2, <2>3 DEF Builds
  <2>5. /\ Top.node = Source /\ Top.todo = todo /\ Len(stack) = 1 /\ Front(stack) = << >>
        /\ Skipped = <<[node |-> Source, todo |-> Tail(todo)]>>
    <3>1. stack = Alone(Source, todo)
      BY <2>4 DEF Alone
    <3>2. /\ Last(stack).node = Source /\ Last(stack).todo = todo /\ Len(stack) = 1
          /\ Front(stack) = << >> /\ WithTodo(stack, Tail(todo)) = Alone(Source, Tail(todo))
      BY <3>1, OneCall
    <3>3. Skipped = WithTodo(stack, Tail(Last(stack).todo))
      BY DEF Skipped, WithTodo, Top
    <3> QED
      BY <3>2, <3>3 DEF Top, Alone
  <2>6. found \in Seq(Nodes \X Nodes) /\ IsInjective(found)
    BY <1>2 DEF Builds
  <2>7. CASE Return
    <3>1. todo = << >> /\ stack' = << >> /\ found' = found
      BY <2>5, <2>7 DEF Return
    <3>2. ToSet(found) = Dependencies
      BY <2>4, <3>1, OneInQueue
    <3> QED
      BY <1>2, <2>1, <2>2, <2>6, <3>1, <3>2 DEF Builds
  <2>8. CASE BuildDag
    <3> DEFINE dep == Head(todo)
    <3>1. todo # << >> /\ ended' = ended
      BY <2>5, <2>8 DEF BuildDag, InCall
    <3>2. dep \in Nodes /\ Tail(todo) \in Seq(Nodes) /\ ToSet(todo) = {dep} \cup ToSet(Tail(todo))
      BY <2>4, <3>1, ElementsAfterTail
    <3>3. /\ stack' = Skipped
          /\ found' = IF <<dep, Source>> \in ToSet(found) THEN found ELSE Append(found, <<dep, Source>>)
      BY <2>5, <2>8 DEF BuildDag
    <3>4. <<dep, Source>> \in Nodes \X Nodes
      BY <3>2, TraversalAssumption
    <3>5. /\ found' \in Seq(Nodes \X Nodes) /\ ToSet(found') = ToSet(found) \cup {<<dep, Source>>}
          /\ IsInjective(found')
      <4> DEFINE e == <<dep, Source>>
      <4>1. e \in Nodes \X Nodes /\ found' = IF e \in ToSet(found) THEN found ELSE Append(found, e)
        BY <3>3, <3>4
      <4> HIDE DEF e
      <4>2. CASE e \in ToSet(found)
        BY <2>6, <4>1, <4>2 DEF e
      <4>3. CASE e \notin ToSet(found)
        <5>1. /\ found' \in Seq(Nodes \X Nodes) /\ ToSet(found') = ToSet(found) \cup {e}
              /\ IsInjective(found')
          BY <2>6, <4>1, <4>3, ElementsOfAppend
        <5> QED
          BY <5>1 DEF e
      <4> QED
        BY <4>2, <4>3
    <3> HIDE DEF dep
    <3>6. ToSet(found') \cup {<<m, Source>> : m \in ToSet(Tail(todo))} = Dependencies
      BY <2>4, <3>2, <3>5
    <3> QED
      BY <1>2, <2>1, <2>2, <2>3, <2>5, <3>1, <3>2, <3>3, <3>5, <3>6 DEF Builds
  <2> QED
    BY <1>2, <2>7, <2>8, Moves
<1>3. CASE alg # "dag"
  BY <1>3, SearchFixed DEF Builds
<1> QED
  BY <1>1, <1>2, <1>3

\* The graph of a metric has its dependencies, each once, and none of theirs.
LEMMA BuildsExact ==
    ASSUME Builds, ended, alg = "dag"
    PROVE  /\ ToSet(found) = IF DagDepth = 0 THEN {}
                             ELSE {<<m, Source>> : m \in Before(edges, Source)}
           /\ IsInjective(found)
  BY DEF Builds, Dependencies
-----------------------------------------------------------------------------
\* Searches by levels.
LEMMA DepthIs ==
    ASSUME [TraversalNext]_traversalVars, alg \in {"depth", "count"}
    PROVE  /\ UNCHANGED <<alg, given, target>>
           /\ edges' = edges \/ AddEdge
  BY SearchFixed

\* A count of neighbours: what is read by levels are the edges to a node.  All
\* that was found was read, or is read in this level or in the next.
Seen == {Source} \cup ToSet(found)

Back(es) == {<<e[2], e[1]>> : e \in es}

Counts ==
    alg = "count" =>
        /\ queue \in Seq(Nodes) /\ ahead \in Seq(Nodes) /\ found \in Seq(Nodes) /\ depth \in Nat
        /\ visited \cup ToSet(queue) \cup ToSet(ahead) = Seen
        /\ \A n \in visited : Before(given, n) \subseteq Seen
        /\ depth > 0 => Within(Back(given), 0, depth - 1) \subseteq visited \cup ToSet(queue)
        /\ ended => queue = << >> /\ (ahead = << >> \/ depth >= CountHops)

LEMMA BackIs ==
    ASSUME NEW es \in SUBSET (Nodes \X Nodes), NEW n
    PROVE  After(Back(es), n) = Before(es, n)
  BY DEF After, Before, Back

LEMMA CountsInitially == ASSUME TraversalInit PROVE Counts
<1>1. ToSet(<<Source>>) = {Source} /\ <<Source>> \in Seq(Nodes) /\ << >> \in Seq(Nodes)
  BY TraversalAssumption DEF ToSet
<1> SUFFICES ASSUME alg = "count" PROVE Counts
  BY DEF Counts
<1>2. queue = << >> /\ ahead = <<Source>> /\ found = << >> /\ depth = 0 /\ visited = {} /\ ended = FALSE
  BY DEF TraversalInit
<1>3. Seen = {Source}
  BY <1>2, OneInQueue DEF Seen
<1>4. visited \cup ToSet(queue) \cup ToSet(ahead) = Seen
  BY <1>1, <1>2, <1>3, OneInQueue
<1> QED
  BY <1>1, <1>2, <1>4 DEF Counts

LEMMA LevelSeen ==
    ASSUME Shapes, Counts, alg = "count", queue = << >>
    PROVE  Within(Back(given), 0, depth) \subseteq Seen
<1>1. given \in SUBSET (Nodes \X Nodes) /\ depth \in Nat
  BY DEF Shapes, Counts
<1>2. Exactly(Back(given), 0) \subseteq Seen
  BY ExactlyIs DEF Seen
<1>3. ASSUME NEW k \in Nat, 0 <= k, k < depth, NEW n \in Seen, n \in Exactly(Back(given), k)
      PROVE  After(Back(given), n) \subseteq Seen
  <2>1. k \in 0..(depth - 1) /\ depth > 0
    BY <1>1, <1>3
  <2>2. n \in Within(Back(given), 0, depth - 1)
    BY <1>3, <2>1, InWithin
  <2>3. n \in visited
    BY <2>1, <2>2, OneInQueue DEF Counts
  <2> QED
    BY <1>1, <2>3, BackIs DEF Counts
<1> QED
  BY <1>1, <1>2, <1>3, LevelsIncluded

LEMMA CountsStep ==
    ASSUME Shapes, Counts, [TraversalNext]_traversalVars
    PROVE  Counts'
<1>1. CASE UNCHANGED traversalVars
  BY <1>1 DEF traversalVars, Counts, Seen
<1>2. CASE TraversalNext /\ alg = "count"
  <2>1. alg' = alg /\ given' = given
    BY SearchFixed
  <2>2. /\ queue \in Seq(Nodes) /\ ahead \in Seq(Nodes) /\ found \in Seq(Nodes) /\ depth \in Nat
        /\ given \subseteq edges
    BY <1>2 DEF Counts, Shapes
  <2>3. CASE AddEdge
    BY <1>2, <2>1, <2>3 DEF AddEdge, Counts, Seen
  <2>4. CASE EndLevels
    BY <1>2, <2>1, <2>4 DEF EndLevels, LastLevel, Counts, Seen
  <2>5. CASE NextLevel
    <3>1. /\ queue = << >> /\ queue' = ahead /\ ahead' = << >> /\ depth' = depth + 1
          /\ visited' = visited /\ found' = found /\ ended' = ended /\ ~ended
      BY <2>5 DEF NextLevel
    <3>2. Within(Back(given), 0, depth) \subseteq Seen
      BY <1>2, <3>1, LevelSeen
    <3>3. visited \cup ToSet(ahead) = Seen
      BY <1>2, <3>1, OneInQueue DEF Counts
    <3>4. depth' \in Nat /\ depth' - 1 = depth /\ << >> \in Seq(Nodes)
      BY <2>2, <3>1
    <3>5. Seen' = Seen
      BY <3>1 DEF Seen
    <3>6. \A n \in visited : Before(given, n) \subseteq Seen
      BY <1>2 DEF Counts
    <3> QED
      BY <1>2, <2>1, <2>2, <3>1, <3>2, <3>3, <3>4, <3>5, <3>6, OneInQueue DEF Counts
  <2>6. CASE NeighborCount
    <3> DEFINE h == Head(queue)
    <3>1. queue # << >> /\ queue' = Tail(queue) /\ depth' = depth /\ ~ended /\ ended' = ended
      BY <2>6 DEF NeighborCount
    <3>2. h \in Nodes /\ Tail(queue) \in Seq(Nodes) /\ ToSet(queue) = {h} \cup ToSet(Tail(queue))
      BY <2>2, <3>1, ElementsAfterTail
    <3>3. CASE h \in visited /\ UNCHANGED <<visited, ahead, found>>
      <4>1. visited' \cup ToSet(queue') = visited \cup ToSet(queue) /\ Seen' = Seen
        BY <3>1, <3>2, <3>3 DEF Seen
      <4> HIDE DEF h
      <4> QED
        BY <1>2, <2>1, <3>1, <3>2, <3>3, <4>1 DEF Counts
    <3>4. CASE /\ h \notin visited /\ visited' = visited \cup {h}
               /\ \E neighbors \in Listed(h, Counted(h)) :
                      ahead' = ahead \o neighbors /\ found' = found \o neighbors
      <4>1. PICK neighbors \in Listed(h, Counted(h)) :
               ahead' = ahead \o neighbors /\ found' = found \o neighbors
        BY <3>4
      <4>2. Counted(h) = Before(edges, h) \ (visited \cup {h}) /\ Counted(h) \in SUBSET Nodes
        BY NodesAfter DEF Counted
      <4>3. neighbors \in Seq(Nodes) /\ ToSet(neighbors) = Counted(h)
        BY <3>2, <4>2, ListedIs
      <4>4. /\ ahead' \in Seq(Nodes) /\ ToSet(ahead') = ToSet(ahead) \cup Counted(h)
            /\ found' \in Seq(Nodes) /\ ToSet(found') = ToSet(found) \cup Counted(h)
        BY <2>2, <4>1, <4>3, ElementsOfConcat
      <4>5. Seen' = Seen \cup Counted(h)
        BY <4>4 DEF Seen
      <4>6. visited' \cup ToSet(queue') = visited \cup ToSet(queue)
        BY <3>1, <3>2, <3>4
      <4>7. visited \cup ToSet(queue) \cup ToSet(ahead) = Seen
        BY <1>2 DEF Counts
      <4>8. Before(given, h) \subseteq Seen'
        <5>1. Before(given, h) \subseteq Before(edges, h)
          BY <2>2 DEF Before
        <5>2. visited \cup {h} \subseteq Seen
          BY <3>2, <4>7
        <5> QED
          BY <4>2, <4>5, <5>1, <5>2
      <4>9. \A n \in visited : Before(given, n) \subseteq Seen'
        BY <1>2, <4>5 DEF Counts
      <4> HIDE DEF h
      <4>10. visited' \cup ToSet(queue') \cup ToSet(ahead') = Seen'
        BY <4>4, <4>5, <4>6, <4>7
      <4>11. \A n \in visited' : Before(given, n) \subseteq Seen'
        BY <3>4, <4>8, <4>9
      <4>12. depth' > 0 => Within(Back(given), 0, depth' - 1) \subseteq visited' \cup ToSet(queue')
        BY <1>2, <3>1, <4>6 DEF Counts
      <4> QED
        BY <1>2, <2>1, <2>2, <3>1, <3>2, <4>4, <4>10, <4>11, <4>12 DEF Counts
    <3> QED
      BY <2>6, <3>3, <3>4 DEF NeighborCount
  <2> QED
    BY <1>2, <2>3, <2>4, <2>5, <2>6, Moves
<1>3. CASE alg # "count"
  BY <1>3, SearchFixed DEF Counts
<1> QED
  BY <1>1, <1>2, <1>3

\* A count of neighbours misses none that was there when it began.
LEMMA CountExact ==
    ASSUME Shapes, Counts, ended, alg = "count"
    PROVE  LET back == {<<e[2], e[1]>> : e \in given}
           IN  Within(back, 1, CountHops) \ {Source} \subseteq ToSet(found)
<1>1. /\ given \in SUBSET (Nodes \X Nodes) /\ depth \in Nat /\ CountHops \in Nat
      /\ queue = << >> /\ ahead \in Seq(Nodes)
  BY TraversalAssumption DEF Shapes, Counts
<1>2. Within(Back(given), 1, CountHops) \subseteq Within(Back(given), 0, CountHops)
  <2>1. \A k \in 1..CountHops : k \in 0..CountHops
    OBVIOUS
  <2> QED
    BY <2>1, InWithin
<1>3. CASE depth >= CountHops
  <2>1. Within(Back(given), 0, CountHops) \subseteq Within(Back(given), 0, depth)
    <3>1. \A k \in 0..CountHops : k \in 0..depth
      BY <1>1, <1>3
    <3> QED
      BY <3>1, InWithin
  <2>2. Within(Back(given), 0, depth) \subseteq Seen
    BY <1>1, LevelSeen
  <2> QED
    BY <1>2, <2>1, <2>2 DEF Back, Seen
<1>4. CASE ahead = << >>
  <2>1. Seen = visited
    BY <1>1, <1>4, OneInQueue DEF Counts
  <2>2. \A n \in Seen : After(Back(given), n) \subseteq Seen
    BY <1>1, <2>1, BackIs DEF Counts
  <2>3. Exactly(Back(given), 0) \subseteq Seen
    BY ExactlyIs DEF Seen
  <2>4. Within(Back(given), 0, CountHops) \subseteq Seen
    BY <1>1, <2>2, <2>3, LevelsIncluded
  <2> QED
    BY <1>2, <2>4 DEF Back, Seen
<1> QED
  BY <1>3, <1>4 DEF Counts
-----------------------------------------------------------------------------
\* Chains of guarantors that never meet again: as many edges go on from what is
\* reached as lead to it, one to each, so none has two.
Reached(es) == Within(es, 0, Size)

Inner(es) == {e \in es : e[1] \in Reached(es)}

IsTree(es) == es \subseteq Nodes \X Nodes /\ Cardinality(Inner(es)) = Cardinality(Reached(es)) - 1

LEMMA InReached ==
    ASSUME NEW es, NEW k \in Nat, NEW n \in Exactly(es, k)
    PROVE  n \in Reached(es) /\ \A m \in After(es, n) : <<n, m>> \in Inner(es) /\ m \in Reached(es)
<1>1. n \in Reached(es)
  BY SizeIsEnough DEF Reached
<1>2. ASSUME NEW m \in After(es, n) PROVE m \in Reached(es)
  <2>1. m \in Exactly(es, k + 1) /\ k + 1 \in Nat
    BY OneMore
  <2> QED
    BY <2>1, SizeIsEnough DEF Reached
<1>3. \A m \in After(es, n) : <<n, m>> \in Inner(es)
  BY <1>1 DEF Inner, After
<1> QED
  BY <1>1, <1>2, <1>3

LEMMA SizesOfTree ==
    ASSUME NEW es, es \subseteq Nodes \X Nodes
    PROVE  /\ IsFiniteSet(Inner(es)) /\ Cardinality(Inner(es)) \in Nat
           /\ Source \in Reached(es) /\ IsFiniteSet(Reached(es)) /\ Cardinality(Reached(es)) \in Nat
           /\ IsFiniteSet(Reached(es) \ {Source})
           /\ Cardinality(Reached(es) \ {Source}) = Cardinality(Reached(es)) - 1
<1>1. IsFiniteSet(Nodes) /\ IsFiniteSet(Nodes \X Nodes)
  BY TraversalAssumption, FS_Product
<1>2. Inner(es) \subseteq Nodes \X Nodes /\ Reached(es) \subseteq Nodes
  BY WithinNodes, SizeFacts DEF Inner, Reached
<1>3. Source \in Reached(es)
  <2>1. Source \in Exactly(es, 0)
    BY ExactlyIs
  <2> QED
    BY <2>1, InReached
<1>4. IsFiniteSet(Inner(es)) /\ Cardinality(Inner(es)) \in Nat
  BY <1>1, <1>2, FS_Subset, FS_CardinalityType
<1>5. IsFiniteSet(Reached(es)) /\ Cardinality(Reached(es)) \in Nat
  BY <1>1, <1>2, FS_Subset, FS_CardinalityType
<1>6. IsFiniteSet(Reached(es) \ {Source}) /\ Cardinality(Reached(es) \ {Source}) = Cardinality(Reached(es)) - 1
  BY <1>3, <1>5, FS_RemoveElement
<1> QED
  BY <1>3, <1>4, <1>5, <1>6

LEMMA OneParent ==
    ASSUME NEW es, IsTree(es)
    PROVE  \A e, f \in Inner(es) : e[2] # Source /\ (e[2] = f[2] => e = f)
<1> DEFINE D == Reached(es) \ {Source}
           I == Inner(es)
           par(m) == CHOOSE e \in I : e[2] = m
           g == [m \in D |-> par(m)]
<1>1. es \subseteq Nodes \X Nodes /\ IsFiniteSet(I) /\ IsFiniteSet(D) /\ Cardinality(D) = Cardinality(I)
  BY SizesOfTree DEF IsTree
<1>2. ASSUME NEW m \in D PROVE \E e \in I : e[2] = m
  <2>1. PICK k \in 0..Size : m \in Exactly(es, k)
    BY InWithin DEF Reached
  <2>2. k # 0
    BY <2>1, ExactlyIs
  <2>3. k - 1 \in Nat /\ (k - 1) + 1 = k
    BY <2>1, <2>2
  <2>4. PICK n \in Exactly(es, k - 1) : m \in After(es, n)
    BY <2>1, <2>3, OneLess
  <2>5. <<n, m>> \in I
    BY <2>3, <2>4, InReached
  <2> QED
    BY <2>5
<1>3. \A m \in D : par(m) \in I /\ par(m)[2] = m
  BY <1>2
<1> HIDE DEF par, D, I
<1>4. g \in [D -> I] /\ \A m \in D : g[m] = par(m)
  BY <1>3
<1>5. g \in Injection(D, I)
  <2> HIDE DEF g
  <2>1. \A x, y \in D : g[x] = g[y] => x = y
    BY <1>3, <1>4
  <2> QED
    BY <1>4, <2>1 DEF Injection, IsInjective
<1> HIDE DEF g
<1>6. g \in Surjection(D, I)
  BY <1>1, <1>5, FS_Injection
<1>7. \A e \in I : \E m \in D : g[m] = e
  BY <1>6 DEF Surjection
<1>8. \A e \in I : e[2] \in D /\ e = par(e[2])
  BY <1>3, <1>4, <1>7
<1> QED
  BY <1>8 DEF D, I

\* A node of a tree is of one level.
LEMMA LevelsApart ==
    ASSUME NEW es, IsTree(es)
    PROVE  \A j, k \in Nat : \A n : n \in Exactly(es, j) /\ n \in Exactly(es, k) => j = k
<1> DEFINE T == {j \in Nat : \A k \in Nat : \A n : n \in Exactly(es, j) /\ n \in Exactly(es, k) => j = k}
<1>1. ASSUME NEW k \in Nat, Source \in Exactly(es, k) PROVE k = 0
  <2> SUFFICES ASSUME k # 0 PROVE FALSE
    OBVIOUS
  <2>1. k - 1 \in Nat /\ (k - 1) + 1 = k
    OBVIOUS
  <2>2. PICK n \in Exactly(es, k - 1) : Source \in After(es, n)
    BY <1>1, <2>1, OneLess
  <2>3. <<n, Source>> \in Inner(es)
    BY <2>1, <2>2, InReached
  <2> QED
    BY <2>3, OneParent
<1>2. 0 \in T
  BY <1>1, ExactlyIs
<1>3. ASSUME NEW j \in Nat, j \in T PROVE j + 1 \in T
  <2> SUFFICES ASSUME NEW k \in Nat, NEW m, m \in Exactly(es, j + 1), m \in Exactly(es, k)
               PROVE  j + 1 = k
    OBVIOUS
  <2>1. PICK n \in Exactly(es, j) : m \in After(es, n)
    BY OneLess
  <2>2. <<n, m>> \in Inner(es)
    BY <2>1, InReached
  <2>3. k # 0
    <3>1. m # Source
      BY <2>2, OneParent
    <3> QED
      BY <3>1, ExactlyIs
  <2>4. k - 1 \in Nat /\ (k - 1) + 1 = k
    BY <2>3
  <2>5. PICK o \in Exactly(es, k - 1) : m \in After(es, o)
    BY <2>4, OneLess
  <2>6. <<o, m>> \in Inner(es)
    BY <2>4, <2>5, InReached
  <2>7. n = o
    <3>1. <<n, m>> = <<o, m>>
      BY <2>2, <2>6, OneParent
    <3> QED
      BY <3>1
  <2>8. j = k - 1
    BY <1>3, <2>1, <2>4, <2>5, <2>7
  <2> QED
    BY <2>4, <2>8
<1>4. \A j \in Nat : j \in T
  <2> HIDE DEF T
  <2> QED
    BY <1>2, <1>3, Induction
<1> QED
  BY <1>4

\* Two nodes of a tree have no successor in common.
LEMMA OneWay ==
    ASSUME NEW es, IsTree(es), NEW j \in Nat, NEW x \in Exactly(es, j), NEW y \in Exactly(es, j),
           NEW m \in After(es, x), m \in After(es, y)
    PROVE  x = y
<1>1. <<x, m>> \in Inner(es) /\ <<y, m>> \in Inner(es)
  BY InReached
<1>2. <<x, m>> = <<y, m>>
  BY <1>1, OneParent
<1> QED
  BY <1>2
Tree ==
    /\ edges = given /\ IsTree(edges) /\ Cardinality(Inner(edges)) < MaxHops
    /\ \A x \in Inner(edges) : Rows[x] = 1

\* What is read is a level of the tree, each node once, and the next level has
\* what comes after the part of it that was read.
Levels(q, a, v, d) ==
    /\ IsInjective(q) /\ IsInjective(a)
    /\ d = 0 => q = << >>
    /\ ToSet(q) \cap v = {} /\ ToSet(q) \subseteq Exactly(edges, d)
    /\ v = Within(edges, 1, d) \ ToSet(q)
    /\ Exactly(edges, d) # {}
    /\ ToSet(a) = UNION {After(edges, n) : n \in Exactly(edges, d) \ ToSet(q)}

Depths ==
    alg = "depth" =>
        /\ queue \in Seq(Nodes) /\ ahead \in Seq(Nodes) /\ depth \in Nat
        /\ Tree => /\ Levels(queue, ahead, visited, depth)
                   /\ ended => queue = << >> /\ ahead = << >>

\* In such a tree a node names each of the next once.
LEMMA NamedOnce ==
    ASSUME Tree, alg = "depth", NEW k \in Nat, NEW n \in Exactly(edges, k), NEW m \in After(edges, n)
    PROVE  Times(n, m) = 1
<1>1. <<n, m>> \in Inner(edges)
  BY InReached
<1> QED
  BY <1>1 DEF Tree, Times

LEMMA DepthsInitially == ASSUME TraversalInit PROVE Depths
<1> SUFFICES ASSUME alg = "depth" PROVE Depths
  BY DEF Depths
<1>1. /\ queue = << >> /\ visited = {} /\ depth = 0 /\ ended = FALSE
      /\ ahead \in Listed(Source, After(edges, Source))
  BY DEF TraversalInit
<1>2. /\ ahead \in Seq(Nodes) /\ ToSet(ahead) = After(edges, Source)
      /\ (\A m \in After(edges, Source) : Times(Source, m) = 1) => IsInjective(ahead)
  BY <1>1, NodesAfter, TraversalAssumption, ListedIs
<1>3. Exactly(edges, 0) = {Source} /\ Within(edges, 1, 0) = {}
  BY ExactlyIs DEF Within
<1>4. IsInjective(<< >>) /\ << >> \in Seq(Nodes)
  BY DEF IsInjective
<1>5. ASSUME Tree PROVE Levels(<< >>, ahead, {}, 0)
  <2>1. 0 \in Nat /\ Source \in Exactly(edges, 0)
    BY <1>3
  <2>2. \A m \in After(edges, Source) : Times(Source, m) = 1
    BY <1>5, <2>1, NamedOnce
  <2> QED
    BY <1>2, <1>3, <1>4, <2>2, OneInQueue DEF Levels
<1> QED
  BY <1>1, <1>2, <1>4, <1>5 DEF Depths

\* The next node of the level is read.
LEMMA LevelsRead ==
    ASSUME Tree, alg = "depth", NEW q \in Seq(Nodes), NEW a \in Seq(Nodes), NEW v, NEW d \in Nat,
           Levels(q, a, v, d), q # << >>,
           NEW order \in Listed(Head(q), After(edges, Head(q)) \ (v \cup {Head(q)}))
    PROVE  /\ Head(q) \notin v
           /\ Tail(q) \in Seq(Nodes) /\ a \o order \in Seq(Nodes)
           /\ Levels(Tail(q), a \o order, v \cup {Head(q)}, d)
<1> DEFINE h == Head(q)
           w == v \cup {h}
<1>1. /\ h \in Nodes /\ Tail(q) \in Seq(Nodes) /\ ToSet(q) = {h} \cup ToSet(Tail(q))
      /\ IsInjective(Tail(q)) /\ h \notin ToSet(Tail(q))
  BY ElementsAfterTail DEF Levels
<1>2. h \notin v /\ h \in Exactly(edges, d) /\ d # 0 /\ IsTree(edges)
  BY <1>1 DEF Levels, Tree
<1>3. After(edges, h) \cap w = {}
  <2> SUFFICES ASSUME NEW m \in After(edges, h), m \in w PROVE FALSE
    OBVIOUS
  <2>1. m \in Exactly(edges, d + 1) /\ d + 1 \in Nat
    BY <1>2, OneMore
  <2>2. m \in Within(edges, 1, d) \/ m = h
    BY DEF Levels
  <2>3. PICK k \in Nat : k <= d /\ m \in Exactly(edges, k)
    <3>1. CASE m = h
      BY <1>2, <3>1
    <3>2. CASE m \in Within(edges, 1, d)
      <4>1. PICK k \in 1..d : m \in Exactly(edges, k)
        BY <3>2, InWithin
      <4> QED
        BY <4>1
    <3> QED
      BY <2>2, <3>1, <3>2
  <2>4. k = d + 1
    BY <1>2, <2>1, <2>3, LevelsApart
  <2> QED
    BY <2>3, <2>4
<1>4. /\ order \in Seq(Nodes) /\ IsInjective(order) /\ ToSet(order) = After(edges, h)
  <2>1. After(edges, h) \ w = After(edges, h) /\ After(edges, h) \in SUBSET Nodes
    BY <1>3, NodesAfter
  <2>2. \A m \in After(edges, h) : Times(h, m) = 1
    BY <1>2, NamedOnce
  <2>3. order \in Listed(h, After(edges, h))
    BY <2>1
  <2> QED
    BY <1>1, <2>1, <2>2, <2>3, ListedIs
<1>5. a \o order \in Seq(Nodes) /\ ToSet(a \o order) = ToSet(a) \cup After(edges, h)
  BY <1>4, ElementsOfConcat
<1>6. ToSet(a) \cap After(edges, h) = {}
  <2> SUFFICES ASSUME NEW m \in ToSet(a), m \in After(edges, h) PROVE FALSE
    OBVIOUS
  <2>1. PICK n \in Exactly(edges, d) \ ToSet(q) : m \in After(edges, n)
    BY DEF Levels
  <2>2. n = h
    BY <1>2, <2>1, OneWay
  <2> QED
    BY <1>1, <2>1, <2>2
<1>7. IsInjective(a \o order)
  BY <1>4, <1>6, InjectiveConcat DEF Levels
<1>8. h \in Within(edges, 1, d)
  <2>1. d \in 1..d
    BY <1>2
  <2> QED
    BY <1>2, <2>1, InWithin
<1> HIDE DEF h
<1>9. w = Within(edges, 1, d) \ ToSet(Tail(q))
  BY <1>1, <1>8 DEF Levels
<1>10. ToSet(a \o order) = UNION {After(edges, n) : n \in Exactly(edges, d) \ ToSet(Tail(q))}
  <2>1. Exactly(edges, d) \ ToSet(Tail(q)) = (Exactly(edges, d) \ ToSet(q)) \cup {h}
    BY <1>1, <1>2
  <2> QED
    BY <1>5, <2>1 DEF Levels
<1>11. ToSet(Tail(q)) \cap w = {} /\ ToSet(Tail(q)) \subseteq Exactly(edges, d)
  BY <1>1 DEF Levels
<1>12. Levels(Tail(q), a \o order, w, d)
  BY <1>1, <1>2, <1>7, <1>9, <1>10, <1>11 DEF Levels
<1> QED
  BY <1>1, <1>2, <1>5, <1>12 DEF h

\* The next level is begun.
LEMMA LevelsOn ==
    ASSUME IsTree(edges), NEW a \in Seq(Nodes), NEW v, NEW d \in Nat,
           Levels(<< >>, a, v, d), a # << >>
    PROVE  Levels(a, << >>, v, d + 1)
<1>1. ToSet(a) = Exactly(edges, d + 1)
  <2>1. Exactly(edges, d + 1) = Onward(edges, Exactly(edges, d))
    BY ExactlyIs
  <2>2. ToSet(a) = UNION {After(edges, n) : n \in Exactly(edges, d)}
    BY OneInQueue DEF Levels
  <2> QED
    BY <2>1, <2>2 DEF Onward
<1>2. v = Within(edges, 1, d)
  BY OneInQueue DEF Levels
<1>3. \A n : n \in Within(edges, 1, d + 1) <=> n \in Within(edges, 1, d) \/ n \in Exactly(edges, d + 1)
  <2>1. \A k : k \in 1..(d + 1) <=> k \in 1..d \/ k = d + 1
    OBVIOUS
  <2> QED
    BY <2>1, InWithin
<1>4. Within(edges, 1, d) \cap Exactly(edges, d + 1) = {}
  <2> SUFFICES ASSUME NEW m \in Within(edges, 1, d), m \in Exactly(edges, d + 1) PROVE FALSE
    OBVIOUS
  <2>1. PICK k \in 1..d : m \in Exactly(edges, k)
    BY InWithin
  <2>2. k \in Nat /\ d + 1 \in Nat /\ k # d + 1
    BY <2>1
  <2> QED
    BY <2>1, <2>2, LevelsApart
<1>5. v = Within(edges, 1, d + 1) \ ToSet(a) /\ ToSet(a) \cap v = {}
  BY <1>1, <1>2, <1>3, <1>4
<1>6. Exactly(edges, d + 1) # {}
  BY <1>1, Elements
<1>7. ToSet(<< >>) = UNION {After(edges, n) : n \in Exactly(edges, d + 1) \ ToSet(a)}
  BY <1>1, OneInQueue
<1>8. IsInjective(a) /\ IsInjective(<< >>) /\ d + 1 # 0
  BY DEF Levels, IsInjective
<1> QED
  BY <1>1, <1>5, <1>6, <1>7, <1>8 DEF Levels

\* The bound on the nodes that are read is beyond a tree of fewer edges.
LEMMA FewVisited ==
    ASSUME Tree, NEW q, NEW a, NEW v, NEW d \in Nat, Levels(q, a, v, d)
    PROVE  ~(Cardinality(v) >= MaxHops)
<1>1. IsTree(edges) /\ Cardinality(Inner(edges)) < MaxHops /\ MaxHops \in Nat
  BY TraversalAssumption DEF Tree
<1>2. v \subseteq Reached(edges) \ {Source}
  <2> SUFFICES ASSUME NEW n \in v PROVE n \in Reached(edges) /\ n # Source
    OBVIOUS
  <2>1. PICK k \in 1..d : n \in Exactly(edges, k)
    BY InWithin DEF Levels
  <2>2. k \in Nat /\ k # 0 /\ 0 \in Nat
    BY <2>1
  <2>3. n # Source
    BY <1>1, <2>1, <2>2, LevelsApart, ExactlyIs
  <2> QED
    BY <2>1, <2>2, <2>3, InReached
<1>3. /\ IsFiniteSet(Reached(edges) \ {Source}) /\ Cardinality(Inner(edges)) \in Nat
      /\ Cardinality(Reached(edges) \ {Source}) = Cardinality(Inner(edges))
  BY <1>1, SizesOfTree DEF IsTree
<1>4. Cardinality(v) <= Cardinality(Inner(edges)) /\ Cardinality(v) \in Nat
  BY <1>2, <1>3, FS_Subset, FS_CardinalityType
<1> QED
  BY <1>1, <1>3, <1>4

LEMMA DepthsStep ==
    ASSUME Shapes, Depths, [TraversalNext]_traversalVars
    PROVE  Depths'
<1>1. CASE UNCHANGED traversalVars
  BY <1>1 DEF traversalVars, Depths, Tree, Levels
<1>2. CASE TraversalNext /\ alg = "depth"
  <2>1. alg' = alg /\ given' = given
    BY SearchFixed
  <2>2. queue \in Seq(Nodes) /\ ahead \in Seq(Nodes) /\ depth \in Nat /\ << >> \in Seq(Nodes)
    BY <1>2 DEF Depths
  <2>3. ASSUME edges' = edges
        PROVE  Tree' = Tree /\ \A q, a, v, d : Levels(q, a, v, d)' = Levels(q, a, v, d)
    BY <2>1, <2>3 DEF Tree, Levels
  <2>4. CASE AddEdge
    <3>1. ~Tree'
      <4>1. given \subseteq edges /\ edges \subseteq edges' /\ edges' # edges
        BY <2>4 DEF AddEdge, Shapes
      <4> QED
        BY <2>1, <4>1 DEF Tree
    <3>2. UNCHANGED <<queue, ahead, depth>>
      BY <2>4 DEF AddEdge
    <3> QED
      BY <1>2, <2>1, <2>2, <3>1, <3>2 DEF Depths
  <2>5. CASE EndLevels
    <3>1. /\ queue = << >> /\ LastLevel /\ ended' = TRUE
          /\ UNCHANGED <<queue, ahead, visited, depth, edges>>
      BY <2>5 DEF EndLevels
    <3>2. ASSUME Tree PROVE ahead = << >> /\ Levels(queue, ahead, visited, depth)
      <4>1. Levels(queue, ahead, visited, depth)
        BY <1>2, <3>2 DEF Depths
      <4>2. ~(Cardinality(visited) >= MaxHops)
        BY <2>2, <3>2, <4>1, FewVisited
      <4> QED
        BY <1>2, <3>1, <4>1, <4>2 DEF LastLevel
    <3> QED
      BY <1>2, <2>1, <2>2, <2>3, <3>1, <3>2 DEF Depths
  <2>6. CASE NextLevel
    <3>1. /\ queue = << >> /\ ahead # << >> /\ queue' = ahead /\ ahead' = << >>
          /\ depth' = depth + 1 /\ visited' = visited /\ edges' = edges /\ ended' = ended /\ ~ended
      BY <2>6 DEF NextLevel, LastLevel
    <3>2. depth + 1 \in Nat
      BY <2>2
    <3>3. ASSUME Tree PROVE Levels(ahead, << >>, visited, depth + 1)
      <4>1. Levels(<< >>, ahead, visited, depth) /\ IsTree(edges)
        BY <1>2, <3>1, <3>3 DEF Depths, Tree
      <4> QED
        BY <2>2, <3>1, <4>1, LevelsOn
    <3> QED
      BY <1>2, <2>1, <2>2, <2>3, <3>1, <3>2, <3>3 DEF Depths
  <2>7. CASE LongestPath
    <3>1. queue # << >> /\ ~ended /\ ended' = ended /\ edges' = edges
      BY <2>7 DEF LongestPath
    <3>2. CASE Head(queue) \in visited /\ depth' = depth + 1 /\ queue' = << >> /\ UNCHANGED <<ahead, visited>>
      <4>1. ASSUME Tree PROVE FALSE
        <5>1. Levels(queue, ahead, visited, depth)
          BY <1>2, <4>1 DEF Depths
        <5>2. Head(queue) \in ToSet(queue)
          BY <2>2, <3>1, ElementsAfterTail
        <5> QED
          BY <3>2, <5>1, <5>2 DEF Levels
      <4> QED
        BY <1>2, <2>1, <2>2, <2>3, <3>1, <3>2, <4>1 DEF Depths
    <3>3. CASE /\ Head(queue) \notin visited
               /\ visited' = visited \cup {Head(queue)} /\ queue' = Tail(queue)
               /\ \E order \in Listed(Head(queue), After(edges, Head(queue)) \ visited') :
                      ahead' = ahead \o order
               /\ UNCHANGED depth
      <4>1. PICK order \in Listed(Head(queue), After(edges, Head(queue)) \ visited') : ahead' = ahead \o order
        BY <3>3
      <4>2. queue' \in Seq(Nodes) /\ ahead' \in Seq(Nodes)
        <5>1. After(edges, Head(queue)) \ visited' \in SUBSET Nodes
          BY NodesAfter
        <5>2. order \in Seq(Nodes)
          BY <2>2, <3>1, <4>1, <5>1, ElementsAfterTail, ListedIs
        <5> QED
          BY <2>2, <3>1, <3>3, <4>1, <5>2, ElementsAfterTail, ElementsOfConcat
      <4>3. ASSUME Tree PROVE Levels(queue', ahead', visited', depth)
        <5>1. Levels(queue, ahead, visited, depth)
          BY <1>2, <4>3 DEF Depths
        <5>2. order \in Listed(Head(queue), After(edges, Head(queue)) \ (visited \cup {Head(queue)}))
          BY <3>3
        <5>3. Levels(Tail(queue), ahead \o order, visited \cup {Head(queue)}, depth)
          BY <1>2, <2>2, <3>1, <4>3, <5>1, <5>2, LevelsRead
        <5> QED
          BY <3>3, <4>1, <5>3
      <4> QED
        BY <1>2, <2>1, <2>2, <2>3, <3>1, <3>3, <4>2, <4>3 DEF Depths
    <3> QED
      BY <2>7, <3>2, <3>3 DEF LongestPath
  <2> QED
    BY <1>2, <2>4, <2>5, <2>6, <2>7, Moves
<1>3. CASE alg # "depth"
  BY <1>3, SearchFixed DEF Depths
<1> QED
  BY <1>1, <1>2, <1>3

\* A chain of guarantors has the depth of its longest path.
LEMMA DepthExact ==
    ASSUME Shapes, Depths, ended, alg = "depth"
    PROVE  LET reached == Within(edges, 0, Size)
               inner == {e \in edges : e[1] \in reached}
           IN  /\ edges = given
               /\ Cardinality(inner) = Cardinality(reached) - 1
               /\ Cardinality(inner) < MaxHops
               /\ \A x \in inner : Rows[x] = 1
               => Exactly(edges, depth) # {} /\ Exactly(edges, depth + 1) = {}
<1> SUFFICES ASSUME Tree PROVE Exactly(edges, depth) # {} /\ Exactly(edges, depth + 1) = {}
  BY DEF Tree, IsTree, Inner, Reached, Shapes
<1>1. Levels(<< >>, << >>, visited, depth) /\ depth \in Nat
  BY DEF Depths
<1>2. Exactly(edges, depth + 1) = Onward(edges, Exactly(edges, depth))
  BY <1>1, ExactlyIs
<1>3. {} = UNION {After(edges, n) : n \in Exactly(edges, depth)}
  BY <1>1, OneInQueue DEF Levels
<1> QED
  BY <1>1, <1>2, <1>3 DEF Levels, Onward
-----------------------------------------------------------------------------
\* Recursions: a path that is sought, of those by es.
Frame == [node : Nodes, todo : Seq(Nodes)]

Frames == Seq(Frame)

Longest == IF alg = "paths" THEN PathDepth ELSE CycleDepth + 1

IsWanted(es, p) ==
    /\ p \in Seq(Nodes) /\ Len(p) \in 2..Longest
    /\ p[1] = Source /\ Last(p) = target
    /\ \A i \in 1..(Len(p) - 1) : <<p[i], p[i + 1]>> \in es
    /\ \A i, j \in 1..(Len(p) - 1) : p[i] = p[j] => i = j
    /\ alg = "cycles" => Len(p) > 2
    /\ alg = "paths" => \A i \in 1..(Len(p) - 1) : p[i] # target

\* p goes along the first i calls.
Along(st, p, i) == i < Len(p) /\ \A j \in 1..i : st[j].node = p[j]

\* p leaves the calls for a node that one of them has yet to look at.
Pending(st, p) == \E i \in 1..Len(st) : Along(st, p, i) /\ p[i + 1] \in ToSet(st[i].todo)

\* p goes through the node that is looked at now.
Through(st, p) == Along(st, p, Len(st)) /\ p[Len(st) + 1] = Head(st[Len(st)].todo)

\* Every node of p lists the next once.
Single(p) == \A i \in 1..(Len(p) - 1) : Times(p[i], p[i + 1]) = 1

\* The calls are on a simple path.
Chain(st) ==
    /\ st \in Frames
    /\ \A i, j \in 1..Len(st) : st[i].node = st[j].node => i = j
    /\ st # << >> => st[1].node = Source
    /\ \A i \in 1..(Len(st) - 1) :
          /\ <<st[i].node, st[i + 1].node>> \in edges
          /\ Times(st[i].node, st[i + 1].node) = 1 => st[i + 1].node \notin ToSet(st[i].todo)
    /\ \A i \in 1..Len(st) : /\ ToSet(st[i].todo) \subseteq After(edges, st[i].node)
                             /\ \A m : Times(st[i].node, m) = 1 => Once(st[i].todo, m)
    /\ alg = "paths" => /\ \A i \in 1..Len(st) : st[i].node # target
                        /\ Len(st) < PathDepth \/ \A i \in 1..Len(st) : st[i].todo = << >>
    /\ alg = "cycles" => Len(st) <= CycleDepth \/ Len(st) = 1

\* The last call goes on with its next node.
Next1(st) == WithTodo(st, Tail(st[Len(st)].todo))

LEMMA FrameFacts ==
    ASSUME NEW st \in Frames
    PROVE  /\ Len(st) \in Nat /\ DOMAIN st = 1..Len(st)
           /\ \A i \in 1..Len(st) : st[i].node \in Nodes /\ st[i].todo \in Seq(Nodes)
           /\ st # << >> <=> Len(st) >= 1
<1>1. Len(st) \in Nat /\ DOMAIN st = 1..Len(st) /\ (st # << >> <=> Len(st) >= 1)
  BY DEF Frames
<1>2. \A i \in 1..Len(st) : st[i] \in Frame
  BY DEF Frames
<1>3. \A f \in Frame : f.node \in Nodes /\ f.todo \in Seq(Nodes)
  BY DEF Frame
<1> QED
  BY <1>1, <1>2, <1>3

LEMMA NextIs ==
    ASSUME NEW st \in Frames, st # << >>, st[Len(st)].todo # << >>
    PROVE  /\ Next1(st) \in Frames /\ Len(Next1(st)) = Len(st) /\ Next1(st) # << >>
           /\ \A i \in 1..Len(st) : Next1(st)[i].node = st[i].node
           /\ \A i \in 1..Len(st) : i # Len(st) => Next1(st)[i] = st[i]
           /\ Next1(st)[Len(st)].todo = Tail(st[Len(st)].todo)
<1> DEFINE l == Len(st)
           todo == Tail(st[l].todo)
           f == [st[l] EXCEPT !.todo = todo]
<1>1. l \in Nat /\ l \in 1..l /\ DOMAIN st = 1..l
  BY FrameFacts
<1>2. st[l] \in Frame
  BY <1>1 DEF Frames
<1>3. todo \in Seq(Nodes)
  BY <1>2 DEF Frame
<1>4. f \in Frame /\ f.node = st[l].node /\ f.todo = todo
  BY <1>2, <1>3 DEF Frame
<1>5. Next1(st) = [st EXCEPT ![l] = f]
  BY DEF Next1, WithTodo
<1> HIDE DEF f, todo
<1>6. Next1(st) \in Frames /\ Len(Next1(st)) = l
  BY <1>1, <1>4, <1>5 DEF Frames
<1>7. \A i \in 1..l : Next1(st)[i] = IF i = l THEN f ELSE st[i]
  BY <1>1, <1>5
<1>8. Next1(st) # << >>
  BY <1>1, <1>6, FrameFacts
<1> QED
  BY <1>1, <1>4, <1>6, <1>7, <1>8 DEF todo

LEMMA NextPending ==
    ASSUME NEW st, Chain(st), st # << >>, st[Len(st)].todo # << >>
    PROVE  /\ Chain(Next1(st))
           /\ \A p : Pending(Next1(st), p) => Pending(st, p)
           /\ \A p : Single(p) /\ Pending(Next1(st), p) => ~Through(st, p)
           /\ \A p : Pending(st, p) => Pending(Next1(st), p) \/ Through(st, p)
           /\ \A p : Through(st, p) => Pending(st, p)
           /\ Head(st[Len(st)].todo) \in After(edges, st[Len(st)].node)
           /\ Times(st[Len(st)].node, Head(st[Len(st)].todo)) = 1 =>
                  Head(st[Len(st)].todo) \notin ToSet(Next1(st)[Len(st)].todo)
<1> DEFINE l == Len(st)
           h == Head(st[l].todo)
           r == Next1(st)
<1>1. /\ st \in Frames /\ l \in Nat /\ l \in 1..l
      /\ \A i \in 1..l : st[i].node \in Nodes /\ st[i].todo \in Seq(Nodes)
  BY FrameFacts DEF Chain
<1>2. /\ r \in Frames /\ Len(r) = l /\ r # << >>
      /\ \A i \in 1..l : r[i].node = st[i].node
      /\ \A i \in 1..l : i # l => r[i] = st[i]
      /\ r[l].todo = Tail(st[l].todo)
  BY <1>1, NextIs
<1>3. /\ ToSet(st[l].todo) = {h} \cup ToSet(r[l].todo)
      /\ Times(st[l].node, h) = 1 => h \notin ToSet(r[l].todo)
      /\ \A m : Times(st[l].node, m) = 1 => Once(r[l].todo, m)
  <2>1. st[l].todo \in Seq(Nodes) /\ r[l].todo = Tail(st[l].todo)
    BY <1>1, <1>2
  <2>2. ToSet(st[l].todo) = {h} \cup ToSet(r[l].todo)
    BY <2>1, ElementsAfterTail
  <2>3. \A m : Times(st[l].node, m) = 1 => Once(st[l].todo, m)
    BY <1>1 DEF Chain
  <2>4. ASSUME NEW m, Times(st[l].node, m) = 1
        PROVE  Once(r[l].todo, m) /\ (m = h => m \notin ToSet(r[l].todo))
    BY <2>1, <2>3, <2>4, OnceAfterTail
  <2> QED
    BY <2>2, <2>4
<1>4. \A i \in 1..l : ToSet(r[i].todo) \subseteq ToSet(st[i].todo)
  BY <1>2, <1>3
<1>5. h \in After(edges, st[l].node)
  BY <1>1, <1>3 DEF Chain
<1> HIDE DEF h, r
<1>6. Chain(r)
  <2>1. r[1].node = Source
    <3>1. 1 \in 1..l
      BY <1>1
    <3> QED
      BY <1>2, <3>1 DEF Chain
  <2>2. \A i \in 1..(l - 1) : i \in 1..l /\ i + 1 \in 1..l /\ i # l
    BY <1>1
  <2>3. \A i \in 1..(l - 1) :
           /\ <<r[i].node, r[i + 1].node>> \in edges
           /\ Times(r[i].node, r[i + 1].node) = 1 => r[i + 1].node \notin ToSet(r[i].todo)
    BY <1>2, <2>2 DEF Chain
  <2>4. \A i \in 1..l : /\ ToSet(r[i].todo) \subseteq After(edges, r[i].node)
                        /\ \A m : Times(r[i].node, m) = 1 => Once(r[i].todo, m)
    <3> SUFFICES ASSUME NEW i \in 1..l
                 PROVE  /\ ToSet(r[i].todo) \subseteq After(edges, r[i].node)
                        /\ \A m : Times(r[i].node, m) = 1 => Once(r[i].todo, m)
      OBVIOUS
    <3>1. /\ ToSet(st[i].todo) \subseteq After(edges, st[i].node)
          /\ \A m : Times(st[i].node, m) = 1 => Once(st[i].todo, m)
      BY DEF Chain
    <3>2. r[i].node = st[i].node /\ ToSet(r[i].todo) \subseteq ToSet(st[i].todo)
      BY <1>2, <1>4
    <3>3. CASE i = l
      BY <1>3, <3>1, <3>2, <3>3
    <3>4. CASE i # l
      <4>1. r[i] = st[i]
        BY <1>2, <3>4
      <4> QED
        BY <3>1, <4>1
    <3> QED
      BY <3>3, <3>4
  <2>5. \A i, j \in 1..l : r[i].node = r[j].node => i = j
    BY <1>2 DEF Chain
  <2>6. alg = "paths" => l < PathDepth /\ \A i \in 1..l : r[i].node # target
    BY <1>1, <1>2 DEF Chain
  <2> QED
    BY <1>2, <2>1, <2>3, <2>4, <2>5, <2>6 DEF Chain
<1>7. \A p, i : i \in 1..l => (Along(r, p, i) <=> Along(st, p, i))
  <2> SUFFICES ASSUME NEW p, NEW i \in 1..l PROVE Along(r, p, i) <=> Along(st, p, i)
    OBVIOUS
  <2>1. \A j \in 1..i : j \in 1..l
    BY <1>1
  <2> QED
    BY <1>2, <2>1 DEF Along
<1>8. ASSUME NEW p, Pending(r, p) PROVE Pending(st, p) /\ (Single(p) => ~Through(st, p))
  <2>1. PICK i \in 1..l : Along(r, p, i) /\ p[i + 1] \in ToSet(r[i].todo)
    BY <1>2, <1>8 DEF Pending
  <2>2. Pending(st, p)
    BY <1>4, <1>7, <2>1 DEF Pending
  <2> SUFFICES ASSUME Single(p), Along(st, p, l), p[l + 1] = h PROVE FALSE
    BY <2>2 DEF Through, h
  <2>3. i \in 1..(Len(p) - 1) /\ p[i] = st[i].node
    <3>1. Len(p) \in Nat \/ Len(p) \notin Nat
      OBVIOUS
    <3> QED
      BY <1>1, <2>1 DEF Along
  <2>4. Times(st[i].node, p[i + 1]) = 1
    BY <2>3 DEF Single
  <2>5. CASE i = l
    BY <1>3, <2>1, <2>4, <2>5
  <2>6. CASE i # l
    <3>1. i \in 1..(l - 1) /\ i + 1 \in 1..l
      BY <1>1, <2>6
    <3>2. p[i + 1] = st[i + 1].node
      BY <3>1 DEF Along
    <3> QED
      BY <1>2, <2>1, <2>4, <2>6, <3>1, <3>2 DEF Chain
  <2> QED
    BY <2>5, <2>6
<1>9. ASSUME NEW p, Pending(st, p) PROVE Pending(r, p) \/ Through(st, p)
  <2>1. PICK i \in 1..l : Along(st, p, i) /\ p[i + 1] \in ToSet(st[i].todo)
    BY <1>9 DEF Pending
  <2>2. CASE i = l
    BY <1>2, <1>3, <1>7, <2>1, <2>2 DEF Through, Pending, h
  <2>3. CASE i # l
    BY <1>2, <1>7, <2>1, <2>3 DEF Pending
  <2> QED
    BY <2>2, <2>3
<1>10. ASSUME NEW p, Through(st, p) PROVE Pending(st, p)
  BY <1>1, <1>3, <1>10 DEF Through, Pending, h
<1> QED
  BY <1>3, <1>5, <1>6, <1>8, <1>9, <1>10 DEF h, r

\* A call of n, that goes on from the last one.
Called(st, n, order) == Append(st, [node |-> n, todo |-> order])

LEMMA CalledPending ==
    ASSUME NEW st, Chain(st), st # << >>, NEW n \in After(edges, st[Len(st)].node),
           Times(st[Len(st)].node, n) = 1 => n \notin ToSet(st[Len(st)].todo),
           \A i \in 1..Len(st) : st[i].node # n,
           NEW order \in Listed(n, After(edges, n)),
           alg = "paths" => n # target /\ Len(st) + 1 < PathDepth,
           alg = "cycles" => Len(st) + 1 <= CycleDepth
    PROVE  /\ Chain(Called(st, n, order))
           /\ Len(Called(st, n, order)) = Len(st) + 1
           /\ \A i \in 1..Len(st) : Called(st, n, order)[i] = st[i]
           /\ Called(st, n, order)[Len(st) + 1].node = n
           /\ \A p \in Seq(Nodes) : Pending(Called(st, n, order), p) =>
                        \/ Pending(st, p)
                        \/ Along(st, p, Len(st)) /\ p[Len(st) + 1] = n
           /\ \A p : Pending(st, p) => Pending(Called(st, n, order), p)
           /\ \A p : /\ Along(st, p, Len(st)) /\ p[Len(st) + 1] = n /\ Len(st) + 1 < Len(p)
                     /\ p[Len(st) + 2] \in After(edges, n)
                     => Pending(Called(st, n, order), p)
<1> DEFINE l == Len(st)
           f == [node |-> n, todo |-> order]
           r == Called(st, n, order)
<1>1. /\ st \in Frames /\ l \in Nat /\ l \in 1..l /\ l >= 1
      /\ \A i \in 1..l : st[i].node \in Nodes /\ st[i].todo \in Seq(Nodes)
  BY FrameFacts DEF Chain
<1>2. /\ order \in Seq(Nodes) /\ ToSet(order) = After(edges, n) /\ n \in Nodes
      /\ \A m : Times(n, m) = 1 => Once(order, m)
  <2>1. n \in Nodes /\ After(edges, n) \in SUBSET Nodes
    BY NodesAfter DEF After
  <2> QED
    BY <2>1, ListedIs
<1>3. f \in Frame /\ f.node = n /\ f.todo = order
  BY <1>2 DEF Frame
<1>4. r = Append(st, f)
  BY DEF Called
<1> HIDE DEF f, r
<1>5. /\ r \in Frames /\ Len(r) = l + 1 /\ r[l + 1] = f
      /\ \A i \in 1..l : r[i] = st[i]
  BY <1>1, <1>3, <1>4 DEF Frames
<1>6. \A i \in 1..(l + 1) : i \in 1..l \/ i = l + 1
  BY <1>1
<1>7. Chain(r)
  <2>1. r[1].node = Source
    <3>1. 1 \in 1..l
      BY <1>1
    <3> QED
      BY <1>5, <3>1 DEF Chain
  <2>2. \A i \in 1..(l + 1) : /\ ToSet(r[i].todo) \subseteq After(edges, r[i].node)
                              /\ \A m : Times(r[i].node, m) = 1 => Once(r[i].todo, m)
    <3>1. ASSUME NEW i \in 1..l
          PROVE  /\ ToSet(st[i].todo) \subseteq After(edges, st[i].node)
                 /\ \A m : Times(st[i].node, m) = 1 => Once(st[i].todo, m)
      BY DEF Chain
    <3>2. /\ ToSet(f.todo) \subseteq After(edges, f.node)
          /\ \A m : Times(f.node, m) = 1 => Once(f.todo, m)
      BY <1>2, <1>3
    <3> QED
      BY <1>5, <1>6, <3>1, <3>2
  <2>3. \A i, j \in 1..(l + 1) : r[i].node = r[j].node => i = j
    BY <1>3, <1>5, <1>6 DEF Chain
  <2>4. ASSUME NEW i \in 1..l
        PROVE  /\ <<r[i].node, r[i + 1].node>> \in edges
               /\ Times(r[i].node, r[i + 1].node) = 1 => r[i + 1].node \notin ToSet(r[i].todo)
    <3>1. CASE i = l
      BY <1>3, <1>5, <3>1 DEF After
    <3>2. CASE i # l
      <4>1. i \in 1..(l - 1) /\ i + 1 \in 1..l
        BY <1>1, <3>2
      <4> QED
        BY <1>5, <4>1 DEF Chain
    <3> QED
      BY <3>1, <3>2
  <2>5. \A i \in 1..(Len(r) - 1) : i \in 1..l
    BY <1>1, <1>5
  <2>6. alg = "paths" => Len(r) < PathDepth /\ \A i \in 1..(l + 1) : r[i].node # target
    BY <1>3, <1>5, <1>6 DEF Chain
  <2> QED
    BY <1>5, <2>1, <2>2, <2>3, <2>4, <2>5, <2>6 DEF Chain
<1>8. \A p, i : i \in 1..l => (Along(r, p, i) <=> Along(st, p, i))
  <2> SUFFICES ASSUME NEW p, NEW i \in 1..l PROVE Along(r, p, i) <=> Along(st, p, i)
    OBVIOUS
  <2>1. \A j \in 1..i : j \in 1..l
    BY <1>1
  <2> QED
    BY <1>5, <2>1 DEF Along
<1>9. ASSUME NEW p PROVE Along(r, p, l + 1) <=> l + 1 < Len(p) /\ (\A j \in 1..l : st[j].node = p[j]) /\ p[l + 1] = n
  <2>1. \A j \in 1..l : j \in 1..(l + 1)
    BY <1>1
  <2>2. l + 1 \in 1..(l + 1)
    BY <1>1
  <2> QED
    BY <1>3, <1>5, <1>6, <2>1, <2>2 DEF Along
<1>10. ASSUME NEW p \in Seq(Nodes), Pending(r, p) PROVE Pending(st, p) \/ (Along(st, p, l) /\ p[l + 1] = n)
  <2>1. PICK i \in 1..(l + 1) : Along(r, p, i) /\ p[i + 1] \in ToSet(r[i].todo)
    BY <1>5, <1>10 DEF Pending
  <2>2. CASE i \in 1..l
    BY <1>5, <1>8, <2>1, <2>2 DEF Pending
  <2>3. CASE i = l + 1
    <3>1. l + 1 < Len(p) /\ (\A j \in 1..l : st[j].node = p[j]) /\ p[l + 1] = n
      BY <1>9, <2>1, <2>3
    <3>2. Len(p) \in Nat
      OBVIOUS
    <3>3. l < Len(p)
      BY <1>1, <3>1, <3>2
    <3> QED
      BY <3>1, <3>3 DEF Along
  <2> QED
    BY <1>6, <2>2, <2>3
<1>11. ASSUME NEW p, Pending(st, p) PROVE Pending(r, p)
  <2>1. PICK i \in 1..l : Along(st, p, i) /\ p[i + 1] \in ToSet(st[i].todo)
    BY <1>11 DEF Pending
  <2>2. i \in 1..(l + 1)
    BY <1>1
  <2> QED
    BY <1>5, <1>8, <2>1, <2>2 DEF Pending
<1>12. ASSUME NEW p, Along(st, p, l), p[l + 1] = n, l + 1 < Len(p), p[l + 2] \in After(edges, n)
       PROVE  Pending(r, p)
  <2>1. Along(r, p, l + 1)
    BY <1>9, <1>12 DEF Along
  <2>2. l + 1 \in 1..(l + 1) /\ (l + 1) + 1 = l + 2
    BY <1>1
  <2> QED
    BY <1>2, <1>3, <1>5, <1>12, <2>1, <2>2 DEF Pending
<1> QED
  BY <1>3, <1>5, <1>7, <1>10, <1>11, <1>12 DEF r

\* The last call returns.
LEMMA ReturnPending ==
    ASSUME NEW st, Chain(st), st # << >>, st[Len(st)].todo = << >>
    PROVE  /\ Chain(Front(st)) /\ Len(Front(st)) = Len(st) - 1
           /\ \A i \in 1..(Len(st) - 1) : Front(st)[i] = st[i]
           /\ \A p : Pending(Front(st), p) <=> Pending(st, p)
<1> DEFINE l == Len(st)
           r == Front(st)
<1>1. /\ st \in Frames /\ l \in Nat /\ l \in 1..l /\ l >= 1
  BY FrameFacts DEF Chain
<1>2. r \in Frames /\ Len(r) = l - 1 /\ \A i \in 1..(l - 1) : r[i] = st[i]
  BY <1>1, ElementsOfFront DEF Frames
<1> HIDE DEF r
<1>3. \A i \in 1..(l - 1) : i \in 1..l /\ i # l
  BY <1>1
<1>4. Chain(r)
  <2>1. r # << >> => r[1].node = Source
    <3>1. r # << >> => 1 \in 1..(l - 1)
      BY <1>2, FrameFacts
    <3> QED
      BY <1>2, <3>1 DEF Chain
  <2>2. \A i \in 1..((l - 1) - 1) : i \in 1..(l - 1) /\ i + 1 \in 1..(l - 1)
    BY <1>1
  <2>3. \A i \in 1..((l - 1) - 1) :
           /\ <<r[i].node, r[i + 1].node>> \in edges
           /\ Times(r[i].node, r[i + 1].node) = 1 => r[i + 1].node \notin ToSet(r[i].todo)
    BY <1>2, <2>2 DEF Chain
  <2>4. \A i, j \in 1..(l - 1) : r[i].node = r[j].node => i = j
    BY <1>2, <1>3 DEF Chain
  <2>5. \A i \in 1..(l - 1) : /\ ToSet(r[i].todo) \subseteq After(edges, r[i].node)
                              /\ \A m : Times(r[i].node, m) = 1 => Once(r[i].todo, m)
    BY <1>2, <1>3 DEF Chain
  <2>6. ASSUME alg = "paths"
        PROVE  /\ \A i \in 1..(l - 1) : r[i].node # target
               /\ l - 1 < PathDepth \/ \A i \in 1..(l - 1) : r[i].todo = << >>
    <3>1. l < PathDepth => l - 1 < PathDepth
      BY <1>1, TraversalAssumption
    <3> QED
      BY <1>2, <1>3, <2>6, <3>1 DEF Chain
  <2>7. ASSUME alg = "cycles" PROVE l - 1 <= CycleDepth
    BY <1>1, <2>7, TraversalAssumption DEF Chain
  <2> QED
    BY <1>2, <2>1, <2>3, <2>4, <2>5, <2>6, <2>7 DEF Chain
<1>5. \A p, i : i \in 1..(l - 1) => (Along(r, p, i) <=> Along(st, p, i))
  <2> SUFFICES ASSUME NEW p, NEW i \in 1..(l - 1) PROVE Along(r, p, i) <=> Along(st, p, i)
    OBVIOUS
  <2>1. \A j \in 1..i : j \in 1..(l - 1)
    BY <1>1
  <2> QED
    BY <1>2, <2>1 DEF Along
<1>6. ASSUME NEW p PROVE Pending(r, p) <=> Pending(st, p)
  <2>1. ASSUME Pending(st, p) PROVE Pending(r, p)
    <3>1. PICK i \in 1..l : Along(st, p, i) /\ p[i + 1] \in ToSet(st[i].todo)
      BY <2>1 DEF Pending
    <3>2. i # l
      BY <3>1, OneInQueue
    <3>3. i \in 1..(l - 1)
      BY <1>1, <3>2
    <3> QED
      BY <1>2, <1>5, <3>1, <3>3 DEF Pending
  <2>2. ASSUME Pending(r, p) PROVE Pending(st, p)
    <3>1. PICK i \in 1..(l - 1) : Along(r, p, i) /\ p[i + 1] \in ToSet(r[i].todo)
      BY <1>2, <2>2 DEF Pending
    <3> QED
      BY <1>2, <1>3, <1>5, <3>1 DEF Pending
  <2> QED
    BY <2>1, <2>2
<1> QED
  BY <1>2, <1>4, <1>6 DEF r
-----------------------------------------------------------------------------
\* Where a path that goes through the next node ends.
Deep == alg = "cycles" \/ (alg = "paths" /\ target # Source)

LEMMA WantedFacts ==
    ASSUME NEW es, NEW p, IsWanted(es, p)
    PROVE  /\ p \in Seq(Nodes) /\ Len(p) \in Nat /\ Len(p) >= 2 /\ Len(p) <= Longest
           /\ p[1] = Source /\ p[Len(p)] = target
<1>1. Longest \in Nat
  BY TraversalAssumption DEF Longest
<1> QED
  BY <1>1 DEF IsWanted, Last

LEMMA ThroughTarget ==
    ASSUME Shapes, Deep, NEW st, Chain(st), st # << >>, NEW es, NEW p, IsWanted(es, p), Through(st, p),
           Head(st[Len(st)].todo) = target
    PROVE  Len(p) = Len(st) + 1
<1> DEFINE l == Len(st)
<1>1. l \in Nat /\ l >= 1
  BY FrameFacts DEF Chain
<1>2. Len(p) \in Nat /\ l < Len(p) /\ p[l + 1] = target /\ p[1] = Source
  BY WantedFacts DEF Through, Along
<1> SUFFICES ASSUME l + 1 # Len(p) PROVE FALSE
  OBVIOUS
<1>3. l + 1 \in 1..(Len(p) - 1) /\ 1 \in 1..(Len(p) - 1) /\ l + 1 # 1
  BY <1>1, <1>2
<1>4. CASE alg = "paths"
  BY <1>2, <1>3, <1>4 DEF IsWanted
<1>5. CASE alg = "cycles"
  <2>1. p[l + 1] = p[1]
    BY <1>2, <1>5 DEF Shapes
  <2> QED
    BY <1>3, <2>1 DEF IsWanted
<1> QED
  BY <1>4, <1>5 DEF Deep

LEMMA ThroughOther ==
    ASSUME NEW st, Chain(st), NEW es, NEW p, IsWanted(es, p), Through(st, p),
           Head(st[Len(st)].todo) # target
    PROVE  Len(st) + 1 < Len(p)
<1>1. Len(st) \in Nat
  BY FrameFacts DEF Chain
<1>2. Len(p) \in Nat /\ Len(st) < Len(p) /\ p[Len(st) + 1] # target /\ p[Len(p)] = target
  BY WantedFacts DEF Through, Along
<1>3. Len(st) + 1 # Len(p)
  BY <1>2
<1> QED
  BY <1>1, <1>2, <1>3

\* None goes through a node that is on the path.
LEMMA ThroughVisited ==
    ASSUME Shapes, Deep, NEW st, Chain(st), st # << >>, NEW k \in 1..Len(st),
           Head(st[Len(st)].todo) = st[k].node,
           alg = "cycles" => st[k].node # Source \/ Len(st) = 1,
           NEW es, NEW p, IsWanted(es, p), Through(st, p)
    PROVE  FALSE
<1> DEFINE l == Len(st)
<1>1. l \in Nat /\ l >= 1
  BY FrameFacts DEF Chain
<1>2. Len(p) \in Nat /\ l < Len(p) /\ p[l + 1] = p[k]
  BY WantedFacts DEF Through, Along
<1>3. CASE st[k].node = target
  <2>1. alg = "cycles" /\ l = 1
    BY <1>3 DEF Deep, Chain, Shapes
  <2>2. Len(p) = l + 1
    BY <1>3, ThroughTarget
  <2>3. Len(p) > 2
    BY <2>1 DEF IsWanted
  <2> QED
    BY <2>1, <2>2, <2>3
<1>4. CASE st[k].node # target
  <2>1. l + 1 < Len(p)
    BY <1>4, ThroughOther
  <2>2. l + 1 \in 1..(Len(p) - 1) /\ k \in 1..(Len(p) - 1) /\ k # l + 1
    BY <1>1, <1>2, <2>1
  <2> QED
    BY <1>2, <2>2 DEF IsWanted
<1> QED
  BY <1>3, <1>4

\* Numbers about the length of a path.
LEMMA Neighbours ==
    ASSUME NEW l \in Nat, NEW i \in 1..l, i # l
    PROVE  i \in 1..(l - 1) /\ i + 1 \in 1..l
  OBVIOUS

LEMMA NotOver ==
    ASSUME NEW l \in Nat, NEW d \in Nat, l >= 1
    PROVE  (~(l >= d) => l + 1 <= d) /\ (~(l > 1) => l = 1)
  OBVIOUS

\* The path that is found goes through the target, and no other does.
LEMMA FoundIs ==
    ASSUME Shapes, Deep, NEW st, Chain(st), st # << >>, st[Len(st)].todo # << >>,
           Head(st[Len(st)].todo) = target, alg = "cycles" => Len(st) > 1,
           NEW q, q = Append([i \in DOMAIN st |-> st[i].node], target)
    PROVE  /\ IsWanted(edges, q) /\ Through(st, q)
           /\ \A es, p : IsWanted(es, p) /\ Through(st, p) => p = q
<1> DEFINE l == Len(st)
           r == [i \in DOMAIN st |-> st[i].node]
<1>1. /\ l \in Nat /\ l >= 1 /\ DOMAIN st = 1..l /\ l \in 1..l
      /\ \A i \in 1..l : st[i].node \in Nodes /\ st[i].todo \in Seq(Nodes)
  BY FrameFacts DEF Chain
<1>2. target \in Nodes /\ (alg = "cycles" => target = Source)
  BY DEF Shapes
<1>3. target \in After(edges, st[l].node)
  BY NextPending
<1>4. r \in Seq(Nodes) /\ Len(r) = l /\ \A i \in 1..l : r[i] = st[i].node
  <2>1. r \in [1..l -> Nodes] /\ \A i \in 1..l : r[i] = st[i].node
    BY <1>1
  <2> HIDE DEF r
  <2> QED
    BY <1>1, <2>1, FunctionIsSeq
<1>5. q = Append(r, target)
  OBVIOUS
<1> HIDE DEF r
<1>6. /\ q \in Seq(Nodes) /\ Len(q) = l + 1 /\ Last(q) = target /\ q[l + 1] = target
      /\ \A i \in 1..l : q[i] = st[i].node
  <2>1. \A i \in 1..Len(r) : Append(r, target)[i] = r[i]
    BY <1>2, <1>4, ElementsOfAppend
  <2>2. /\ Append(r, target) \in Seq(Nodes) /\ Len(Append(r, target)) = Len(r) + 1
        /\ Last(Append(r, target)) = target /\ Append(r, target)[Len(r) + 1] = target
    BY <1>2, <1>4, ElementsOfAppend
  <2> QED
    BY <1>4, <1>5, <2>1, <2>2
<1>7. q[1] = Source
  <2>1. 1 \in 1..l
    BY <1>1
  <2> QED
    BY <1>6, <2>1 DEF Chain
<1>8. Len(q) \in 2..Longest
  <2>1. l + 1 <= Longest
    <3>1. CASE alg = "paths"
      <4>1. l < PathDepth
        BY <1>1, <3>1 DEF Chain
      <4>2. PathDepth \in Nat
        BY TraversalAssumption
      <4> QED
        BY <1>1, <3>1, <4>1, <4>2 DEF Longest
    <3>2. CASE alg = "cycles"
      <4>1. l <= CycleDepth
        BY <1>1, <3>2 DEF Chain
      <4>2. CycleDepth \in Nat
        BY TraversalAssumption
      <4> QED
        BY <1>1, <3>2, <4>1, <4>2 DEF Longest
    <3> QED
      BY <3>1, <3>2 DEF Deep
  <2>2. Longest \in Nat
    BY TraversalAssumption DEF Longest
  <2> QED
    BY <1>1, <1>6, <2>1, <2>2
<1>9. \A i \in 1..(Len(q) - 1) : i \in 1..l
  BY <1>1, <1>6
<1>10. ASSUME NEW i \in 1..l PROVE <<q[i], q[i + 1]>> \in edges
  <2>1. CASE i = l
    <3>1. <<st[l].node, target>> \in edges
      BY <1>3 DEF After
    <3>2. q[l] = st[l].node /\ q[l + 1] = target
      BY <1>1, <1>6
    <3> QED
      BY <2>1, <3>1, <3>2
  <2>2. CASE i # l
    <3>1. i \in 1..(l - 1) /\ i + 1 \in 1..l
      BY <1>1, <2>2, Neighbours
    <3> QED
      BY <1>6, <3>1 DEF Chain
  <2> QED
    BY <2>1, <2>2
<1>11. \A i, j \in 1..l : q[i] = q[j] => i = j
  BY <1>6 DEF Chain
<1>12. alg = "cycles" => Len(q) > 2
  BY <1>1, <1>6
<1>13. alg = "paths" => \A i \in 1..l : q[i] # target
  BY <1>6 DEF Chain
<1>14. IsWanted(edges, q)
  BY <1>6, <1>7, <1>8, <1>9, <1>10, <1>11, <1>12, <1>13 DEF IsWanted
<1>15. Through(st, q)
  <2>1. l < Len(q)
    BY <1>1, <1>6
  <2> QED
    BY <1>6, <2>1 DEF Through, Along
<1>16. ASSUME NEW es, NEW p, IsWanted(es, p), Through(st, p) PROVE p = q
  <2>1. p \in Seq(Nodes) /\ Len(p) = l + 1
    BY <1>16, ThroughTarget, WantedFacts
  <2>2. (\A i \in 1..l : p[i] = st[i].node) /\ p[l + 1] = target
    BY <1>16 DEF Through, Along
  <2>3. \A i \in 1..(l + 1) : i \in 1..l \/ i = l + 1
    BY <1>1
  <2>4. \A i \in 1..(l + 1) : p[i] = q[i]
    BY <1>6, <2>2, <2>3
  <2>5. q \in Seq(Nodes) /\ Len(q) = l + 1
    BY <1>6
  <2> QED
    BY <2>1, <2>4, <2>5, SeqEqual
<1> QED
  BY <1>14, <1>15, <1>16

-----------------------------------------------------------------------------
\* What was found are paths that are sought; one whose nodes list the next once
\* is found once; one that is there from the beginning was found or is pending.
Pursues(st, v, f) ==
    /\ Chain(st)
    /\ v = {st[i].node : i \in 1..Len(st)}
    /\ f \in Seq(Seq(Nodes)) /\ \A p : Single(p) => Once(f, p)
    /\ \A p \in ToSet(f) : IsWanted(edges, p) /\ (Single(p) => ~Pending(st, p))
    /\ \A p : IsWanted(given, p) => p \in ToSet(f) \/ Pending(st, p)

LEMMA PursuesSkip ==
    ASSUME NEW st, NEW v, NEW f, Pursues(st, v, f), st # << >>, st[Len(st)].todo # << >>,
           \A p : IsWanted(given, p) => ~Through(st, p)
    PROVE  Pursues(Next1(st), v, f)
<1>1. Chain(st)
  BY DEF Pursues
<1>2. /\ Chain(Next1(st))
      /\ \A p : Pending(Next1(st), p) => Pending(st, p)
      /\ \A p : Single(p) /\ Pending(Next1(st), p) => ~Through(st, p)
      /\ \A p : Pending(st, p) => Pending(Next1(st), p) \/ Through(st, p)
  BY <1>1, NextPending
<1>3. v = {Next1(st)[i].node : i \in 1..Len(Next1(st))}
  <2>1. Len(Next1(st)) = Len(st) /\ \A i \in 1..Len(st) : Next1(st)[i].node = st[i].node
    BY <1>1, NextIs DEF Chain
  <2> QED
    BY <2>1 DEF Pursues
<1> QED
  BY <1>2, <1>3 DEF Pursues

LEMMA PursuesFound ==
    ASSUME NEW st, NEW v, NEW f, Pursues(st, v, f), st # << >>, st[Len(st)].todo # << >>,
           NEW q, IsWanted(edges, q), Through(st, q),
           \A p : IsWanted(given, p) /\ Through(st, p) => p = q
    PROVE  Pursues(Next1(st), v, Append(f, q))
<1>1. Chain(st)
  BY DEF Pursues
<1>2. /\ Chain(Next1(st))
      /\ \A p : Pending(Next1(st), p) => Pending(st, p)
      /\ \A p : Single(p) /\ Pending(Next1(st), p) => ~Through(st, p)
      /\ \A p : Pending(st, p) => Pending(Next1(st), p) \/ Through(st, p)
      /\ \A p : Through(st, p) => Pending(st, p)
  BY <1>1, NextPending
<1>3. v = {Next1(st)[i].node : i \in 1..Len(Next1(st))}
  <2>1. Len(Next1(st)) = Len(st) /\ \A i \in 1..Len(st) : Next1(st)[i].node = st[i].node
    BY <1>1, NextIs DEF Chain
  <2> QED
    BY <2>1 DEF Pursues
<1>4. q \in Seq(Nodes) /\ (Single(q) => q \notin ToSet(f))
  BY <1>2 DEF Pursues, IsWanted
<1>5. /\ Append(f, q) \in Seq(Seq(Nodes)) /\ ToSet(Append(f, q)) = ToSet(f) \cup {q}
      /\ \A p : Single(p) => Once(Append(f, q), p)
  <2> DEFINE S == Seq(Nodes)
  <2>1. f \in Seq(S) /\ q \in S /\ \A p : Single(p) => Once(f, p)
    BY <1>4 DEF Pursues
  <2> HIDE DEF S
  <2>2. Append(f, q) \in Seq(S) /\ ToSet(Append(f, q)) = ToSet(f) \cup {q}
    BY <2>1, ElementsOfAppend
  <2>3. ASSUME NEW p, Single(p) PROVE Once(Append(f, q), p)
    BY <1>4, <2>1, <2>3, OnceAppended
  <2> QED
    BY <2>2, <2>3 DEF S
<1>6. \A p \in ToSet(Append(f, q)) : IsWanted(edges, p) /\ (Single(p) => ~Pending(Next1(st), p))
  BY <1>2, <1>5 DEF Pursues
<1>7. \A p : IsWanted(given, p) => p \in ToSet(Append(f, q)) \/ Pending(Next1(st), p)
  BY <1>2, <1>5 DEF Pursues
<1> QED
  BY <1>2, <1>3, <1>5, <1>6, <1>7 DEF Pursues

LEMMA PursuesCall ==
    ASSUME Shapes, NEW st, NEW v, NEW f, Pursues(st, v, f), st # << >>, st[Len(st)].todo # << >>,
           NEW n, n = Head(st[Len(st)].todo), n \notin v,
           NEW order \in Listed(n, After(edges, n)), n # target,
           alg = "paths" => Len(st) + 1 < PathDepth,
           alg = "cycles" => Len(st) + 1 <= CycleDepth
    PROVE  Pursues(Called(Next1(st), n, order), v \cup {n}, f)
<1> DEFINE l == Len(st)
           r == Next1(st)
           c == Called(r, n, order)
<1>1. Chain(st) /\ v = {st[i].node : i \in 1..l} /\ given \subseteq edges
  BY DEF Pursues, Shapes
<1>2. /\ Chain(r)
      /\ \A p : Pending(r, p) => Pending(st, p)
      /\ \A p : Single(p) /\ Pending(r, p) => ~Through(st, p)
      /\ \A p : Pending(st, p) => Pending(r, p) \/ Through(st, p)
      /\ \A p : Through(st, p) => Pending(st, p)
      /\ n \in After(edges, st[l].node)
      /\ Times(st[l].node, n) = 1 => n \notin ToSet(r[l].todo)
  BY <1>1, NextPending
<1>3. Len(r) = l /\ r # << >> /\ \A i \in 1..l : r[i].node = st[i].node
  BY <1>1, NextIs DEF Chain
<1>4. l \in Nat /\ l \in 1..l /\ \A i \in 1..(l + 1) : i \in 1..l \/ i = l + 1
  BY <1>1, FrameFacts DEF Chain
<1>5. \A p : Along(r, p, l) <=> Along(st, p, l)
  BY <1>3 DEF Along
<1>6. /\ n \in After(edges, r[l].node) /\ \A i \in 1..l : r[i].node # n
      /\ Times(r[l].node, n) = 1 => n \notin ToSet(r[l].todo)
  BY <1>1, <1>2, <1>3, <1>4
<1> HIDE DEF r
<1>7. /\ Chain(c) /\ Len(c) = l + 1 /\ c[l + 1].node = n
      /\ \A i \in 1..l : c[i] = r[i]
      /\ \A p \in Seq(Nodes) : Pending(c, p) => Pending(r, p) \/ (Along(r, p, l) /\ p[l + 1] = n)
      /\ \A p : Pending(r, p) => Pending(c, p)
      /\ \A p : Along(r, p, l) /\ p[l + 1] = n /\ l + 1 < Len(p) /\ p[l + 2] \in After(edges, n)
                => Pending(c, p)
  BY <1>2, <1>3, <1>6, CalledPending
<1> HIDE DEF c
<1>8. v \cup {n} = {c[i].node : i \in 1..Len(c)}
  <2>1. \A i \in 1..l : c[i].node = st[i].node /\ i \in 1..(l + 1)
    BY <1>3, <1>4, <1>7
  <2>2. l + 1 \in 1..(l + 1) /\ Len(c) = l + 1 /\ c[l + 1].node = n
    BY <1>4, <1>7
  <2>3. ASSUME NEW x \in v PROVE \E i \in 1..Len(c) : x = c[i].node
    <3>1. PICK i \in 1..l : x = st[i].node
      BY <1>1, <2>3
    <3> QED
      BY <2>1, <2>2, <3>1
  <2>4. ASSUME NEW i \in 1..Len(c) PROVE c[i].node \in v \cup {n}
    <3>1. i \in 1..l \/ i = l + 1
      BY <1>4, <2>2
    <3>2. \A j \in 1..l : st[j].node \in v
      BY <1>1
    <3> QED
      BY <2>1, <2>2, <3>1, <3>2
  <2> QED
    BY <2>2, <2>3, <2>4
<1>9. ASSUME NEW p \in ToSet(f) PROVE IsWanted(edges, p) /\ (Single(p) => ~Pending(c, p))
  <2> SUFFICES ASSUME Single(p) PROVE ~Pending(c, p)
    BY DEF Pursues
  <2>1. IsWanted(edges, p) /\ ~Pending(st, p) /\ p \in Seq(Nodes)
    BY DEF Pursues, IsWanted
  <2>2. ~(Along(r, p, l) /\ p[l + 1] = n)
    BY <1>2, <1>5, <2>1 DEF Through
  <2> QED
    BY <1>2, <1>7, <2>1, <2>2
<1>10. ASSUME NEW p, IsWanted(given, p) PROVE p \in ToSet(f) \/ Pending(c, p)
  <2>1. CASE ~Through(st, p)
    BY <1>2, <1>7, <1>10, <2>1 DEF Pursues
  <2>2. CASE Through(st, p)
    <3>1. l + 1 < Len(p) /\ Len(p) \in Nat
      BY <1>1, <1>10, <2>2, ThroughOther, WantedFacts
    <3>2. l + 1 \in 1..(Len(p) - 1) /\ (l + 1) + 1 = l + 2
      BY <1>4, <3>1
    <3>3. <<p[l + 1], p[l + 2]>> \in given
      BY <1>10, <3>2 DEF IsWanted
    <3>4. Along(r, p, l) /\ p[l + 1] = n
      BY <1>5, <2>2 DEF Through
    <3>5. p[l + 2] \in After(edges, n)
      BY <1>1, <3>3, <3>4 DEF After, Shapes
    <3> QED
      BY <1>7, <3>1, <3>4, <3>5
  <2> QED
    BY <2>1, <2>2
<1> QED
  BY <1>7, <1>8, <1>9, <1>10 DEF Pursues, c, r

LEMMA PursuesReturn ==
    ASSUME NEW st, NEW v, NEW f, Pursues(st, v, f), st # << >>, st[Len(st)].todo = << >>
    PROVE  Pursues(Front(st), v \ {Last(st).node}, f)
<1> DEFINE l == Len(st)
<1>1. Chain(st) /\ v = {st[i].node : i \in 1..l}
  BY DEF Pursues
<1>2. /\ Chain(Front(st)) /\ Len(Front(st)) = l - 1
      /\ \A i \in 1..(l - 1) : Front(st)[i] = st[i]
      /\ \A p : Pending(Front(st), p) <=> Pending(st, p)
  BY <1>1, ReturnPending
<1>3. l \in Nat /\ l \in 1..l
  BY <1>1, FrameFacts DEF Chain
<1>4. \A i \in 1..l : i = l \/ i \in 1..(l - 1)
  BY <1>3
<1>5. \A i \in 1..(l - 1) : i \in 1..l /\ i # l
  BY <1>3
<1>6. v \ {st[l].node} = {st[i].node : i \in 1..(l - 1)}
  <2>1. \A i \in 1..(l - 1) : st[i].node # st[l].node
    BY <1>1, <1>3, <1>5 DEF Chain
  <2> QED
    BY <1>1, <1>4, <1>5, <2>1
<1>7. v \ {Last(st).node} = {Front(st)[i].node : i \in 1..Len(Front(st))}
  BY <1>2, <1>6 DEF Last
<1> QED
  BY <1>2, <1>7 DEF Pursues
-----------------------------------------------------------------------------
PathsFollow ==
    Deep => Pursues(stack, visited, found) /\ (ended => stack = << >>)

\* No neighbour is looked at for a path of a node to itself.
PathToItself ==
    alg = "paths" /\ target = Source => found = IF ended THEN << <<Source>> >> ELSE << >>

LEMMA PathsInitially == ASSUME TraversalInit, Shapes PROVE PathsFollow /\ PathToItself
<1>1. PathToItself
  BY DEF TraversalInit, PathToItself
<1> SUFFICES ASSUME Deep PROVE PathsFollow
  BY <1>1 DEF PathsFollow
<1>2. /\ alg \in {"cycles", "paths"} /\ visited = {Source} /\ found = << >> /\ ended = FALSE
      /\ given = edges
  BY DEF TraversalInit, Deep
<1> DEFINE first == IF alg = "paths" /\ PathDepth = 1 THEN {} ELSE After(edges, Source)
<1>3. PICK order \in Listed(Source, first) : stack = <<[node |-> Source, todo |-> order]>>
  BY <1>2 DEF TraversalInit
<1>4. /\ order \in Seq(Nodes) /\ ToSet(order) = first
      /\ \A m : Times(Source, m) = 1 => Once(order, m)
  <2>1. first \in SUBSET Nodes /\ Source \in Nodes
    BY NodesAfter, TraversalAssumption
  <2> HIDE DEF first
  <2> QED
    BY <1>3, <2>1, ListedIs
<1>5. /\ Source \in Nodes /\ PathDepth \in Nat \ {0} /\ CycleDepth \in Nat
  BY TraversalAssumption
<1> DEFINE f == [node |-> Source, todo |-> order]
<1>6. f \in Frame /\ f.node = Source /\ f.todo = order
  BY <1>4, <1>5 DEF Frame
<1> HIDE DEF f
<1>7. stack \in Frames /\ Len(stack) = 1 /\ stack[1] = f /\ \A i \in 1..Len(stack) : i = 1
  <2>1. stack = <<f>>
    BY <1>3 DEF f
  <2> QED
    BY <1>6, <2>1 DEF Frames
<1>8. alg = "paths" => Len(stack) < PathDepth \/ order = << >>
  <2>1. CASE PathDepth = 1 /\ alg = "paths"
    BY <1>4, <2>1, Elements
  <2>2. CASE PathDepth # 1
    BY <1>5, <1>7, <2>2
  <2> QED
    BY <2>1, <2>2
<1>9. Chain(stack)
  <2>1. \A i \in 1..(Len(stack) - 1) : FALSE
    BY <1>7
  <2>2. alg = "paths" => target # Source
    BY DEF Deep
  <2> QED
    BY <1>4, <1>6, <1>7, <1>8, <2>1, <2>2 DEF Chain
<1>10. visited = {stack[i].node : i \in 1..Len(stack)}
  BY <1>2, <1>6, <1>7
<1>11. found \in Seq(Seq(Nodes)) /\ (\A p : Once(found, p)) /\ ToSet(found) = {}
  BY <1>2, OneInQueue DEF Once
<1>12. ASSUME NEW p, IsWanted(given, p) PROVE Pending(stack, p)
  <2>1. /\ p \in Seq(Nodes) /\ Len(p) \in Nat /\ Len(p) >= 2 /\ Len(p) <= Longest /\ p[1] = Source
    BY <1>12, WantedFacts
  <2>2. 1 \in 1..(Len(p) - 1) /\ 1 + 1 = 2
    BY <2>1
  <2>3. <<p[1], p[2]>> \in given
    BY <1>12, <2>2 DEF IsWanted
  <2>4. p[2] \in Nodes
    BY <2>1
  <2>5. p[2] \in After(edges, Source)
    BY <1>2, <2>1, <2>3, <2>4 DEF After
  <2>6. first = After(edges, Source)
    <3>1. alg = "paths" => PathDepth # 1
      BY <1>5, <2>1 DEF Longest
    <3> QED
      BY <3>1
  <2>7. Along(stack, p, 1)
    <3>1. \A j \in 1..1 : j = 1
      OBVIOUS
    <3>2. 1 < Len(p)
      BY <2>1
    <3> QED
      BY <1>6, <1>7, <2>1, <3>1, <3>2 DEF Along
  <2>8. 1 \in 1..Len(stack)
    BY <1>7
  <2> QED
    BY <1>4, <1>6, <1>7, <2>2, <2>5, <2>6, <2>7, <2>8 DEF Pending
<1>13. Pursues(stack, visited, found)
  BY <1>9, <1>10, <1>11, <1>12 DEF Pursues
<1> QED
  BY <1>2, <1>13 DEF PathsFollow

LEMMA IsWantedGrows ==
    ASSUME NEW es, NEW fs, es \subseteq fs, NEW p, IsWanted(es, p)
    PROVE  IsWanted(fs, p)
  BY DEF IsWanted

LEMMA ChainGrows ==
    ASSUME AddEdge, alg' = alg, target' = target, NEW st, Chain(st)
    PROVE  Chain(st)'
<1>1. edges \subseteq edges'
  BY DEF AddEdge
<1>2. \A n : After(edges, n) \subseteq After(edges', n)
  BY <1>1 DEF After
<1>3. \A i \in 1..Len(st) : ToSet(st[i].todo) \subseteq After(edges', st[i].node)
  BY <1>2 DEF Chain
<1>4. \A i \in 1..(Len(st) - 1) : <<st[i].node, st[i + 1].node>> \in edges'
  BY <1>1 DEF Chain
<1>5. \A n, m : Times(n, m)' = Times(n, m)
  BY DEF Times
<1> QED
  BY <1>3, <1>4, <1>5 DEF Chain

\* A step that looks at the next node keeps what the search follows.
LEMMA LookStep ==
    ASSUME Shapes, PathsFollow, Deep, TraversalNext, FindPaths \/ DetectCycles
    PROVE  Pursues(stack', visited', found')
<1> DEFINE n == Head(Top.todo)
           l == Len(stack)
<1>1. Pursues(stack, visited, found) /\ Chain(stack)
  BY DEF PathsFollow, Pursues
<1>2. stack # << >> /\ stack[l].todo # << >> /\ Top = stack[l]
  BY DEF FindPaths, DetectCycles, InCall, Top, Last
<1>3. /\ l \in Nat /\ l >= 1 /\ l \in 1..l
      /\ \A i \in 1..l : stack[i].todo \in Seq(Nodes)
  BY <1>1, <1>2, FrameFacts DEF Chain
<1>4. Skipped = Next1(stack) /\ n = Head(stack[l].todo)
  BY <1>2 DEF Skipped, Next1, WithTodo
<1>5. visited = {stack[i].node : i \in 1..l}
  BY <1>1 DEF Pursues
<1>6. Source \in visited
  <2>1. stack[1].node = Source /\ 1 \in 1..l
    BY <1>1, <1>2, <1>3 DEF Chain
  <2> QED
    BY <1>5, <2>1
<1>7. alg = "paths" => target # Source /\ target \notin visited
  BY <1>1, <1>5 DEF Chain, Deep
<1>8. alg = "cycles" => target = Source
  BY DEF Shapes
<1>9. PathDepth \in Nat /\ CycleDepth \in Nat
  BY TraversalAssumption
<1>10. alg = "paths" => l < PathDepth
  BY <1>1, <1>2, <1>3 DEF Chain
<1>11. \/ /\ n = target /\ (alg = "cycles" => l > 1)
          /\ Found(Append(Path, n))
       \/ /\ n \in visited /\ (alg = "cycles" => n # Source \/ l = 1)
          /\ Skip
       \/ /\ n \notin visited /\ n # target
          /\ alg = "paths" => l + 1 >= PathDepth
          /\ alg = "cycles" => l >= CycleDepth
          /\ Skip
       \/ /\ n \notin visited /\ n # target
          /\ alg = "paths" => l + 1 < PathDepth
          /\ alg = "cycles" => l + 1 <= CycleDepth
          /\ Call(n)
  <2>1. CASE FindPaths
    <3>1. alg = "paths"
      BY <2>1 DEF FindPaths
    <3>2. \/ n \in visited /\ Skip
          \/ n \notin visited /\ n = target /\ Found(Append(Path, n))
          \/ n \notin visited /\ n # target /\ l + 1 >= PathDepth /\ Skip
          \/ n \notin visited /\ n # target /\ ~(l + 1 >= PathDepth) /\ Call(n)
      BY <2>1 DEF FindPaths
    <3>3. ~(l + 1 >= PathDepth) => l + 1 < PathDepth
      BY <1>3, <1>9
    <3> HIDE DEF n
    <3> QED
      BY <3>1, <3>2, <3>3
  <2>2. CASE DetectCycles
    <3>1. alg = "cycles"
      BY <2>2 DEF DetectCycles
    <3>2. \/ n = Source /\ l > 1 /\ Found(Append(Path, n))
          \/ ~(n = Source /\ l > 1) /\ (n \in visited \/ l >= CycleDepth) /\ Skip
          \/ ~(n = Source /\ l > 1) /\ n \notin visited /\ ~(l >= CycleDepth) /\ Call(n)
      BY <2>2 DEF DetectCycles
    <3>3. (~(l >= CycleDepth) => l + 1 <= CycleDepth) /\ (~(l > 1) => l = 1)
      BY <1>3, <1>9, NotOver
    <3> HIDE DEF n
    <3> QED
      BY <1>6, <1>8, <3>1, <3>2, <3>3
  <2> QED
    BY <2>1, <2>2
<1> HIDE DEF n
<1>12. CASE n = target /\ (alg = "cycles" => l > 1) /\ Found(Append(Path, n))
  <2> DEFINE q == Append(Path, n)
  <2>1. q = Append([i \in DOMAIN stack |-> stack[i].node], target)
    BY <1>12 DEF Path
  <2>2. /\ IsWanted(edges, q) /\ Through(stack, q)
        /\ \A es, p : IsWanted(es, p) /\ Through(stack, p) => p = q
    BY <1>1, <1>2, <1>4, <1>12, <2>1, FoundIs
  <2> HIDE DEF q
  <2>3. Pursues(Next1(stack), visited, Append(found, q))
    BY <1>1, <1>2, <2>2, PursuesFound
  <2> QED
    BY <1>4, <1>12, <2>3 DEF Found, q
<1>13. CASE n \in visited /\ (alg = "cycles" => n # Source \/ l = 1) /\ Skip
  <2>1. PICK k \in 1..l : stack[k].node = n
    BY <1>5, <1>13
  <2>2. \A p : IsWanted(given, p) => ~Through(stack, p)
    BY <1>1, <1>2, <1>4, <1>13, <2>1, ThroughVisited
  <2> QED
    BY <1>1, <1>2, <1>4, <1>13, <2>2, PursuesSkip DEF Skip
<1>14. CASE /\ n \notin visited /\ n # target
            /\ alg = "paths" => l + 1 >= PathDepth
            /\ alg = "cycles" => l >= CycleDepth
            /\ Skip
  <2>1. ASSUME NEW p, IsWanted(given, p), Through(stack, p) PROVE FALSE
    <3>1. l + 1 < Len(p)
      BY <1>1, <1>4, <1>14, <2>1, ThroughOther
    <3>2. Len(p) \in Nat /\ Len(p) <= Longest
      BY <2>1, WantedFacts
    <3> QED
      BY <1>3, <1>9, <1>14, <3>1, <3>2 DEF Longest, Deep
  <2> QED
    BY <1>1, <1>2, <1>4, <1>14, <2>1, PursuesSkip DEF Skip
<1>15. CASE /\ n \notin visited /\ n # target
            /\ alg = "paths" => l + 1 < PathDepth
            /\ alg = "cycles" => l + 1 <= CycleDepth
            /\ Call(n)
  <2>1. PICK order \in Listed(n, After(edges, n)) :
           stack' = Append(Skipped, [node |-> n, todo |-> order])
    BY <1>15 DEF Call
  <2>2. stack' = Called(Next1(stack), n, order) /\ visited' = visited \cup {n} /\ found' = found
    BY <1>4, <1>15, <2>1 DEF Call, Called
  <2>3. Pursues(Called(Next1(stack), n, order), visited \cup {n}, found)
    BY <1>1, <1>2, <1>4, <1>15, PursuesCall
  <2> QED
    BY <2>2, <2>3
<1> QED
  BY <1>11, <1>12, <1>13, <1>14, <1>15

\* What is followed, of the search that goes on over the same edges.
LEMMA PursuesNext ==
    ASSUME UNCHANGED <<alg, target, given, edges>>, Pursues(stack', visited', found')
    PROVE  Pursues(stack, visited, found)'
<1>1. \A p : Single(p)' = Single(p)
  BY DEF Single, Times
<1>2. \A es, p : IsWanted(es, p)' = IsWanted(es, p)
  BY DEF IsWanted, Longest
<1>3. \A p : Pending(stack, p)' = Pending(stack', p)
  BY DEF Pending, Along
<1>4. Chain(stack)'
  <2>1. Chain(stack')
    BY DEF Pursues
  <2> QED
    BY <2>1 DEF Chain, Times
<1> QED
  BY <1>1, <1>2, <1>3, <1>4 DEF Pursues

LEMMA PathsStep ==
    ASSUME Shapes, PathsFollow, PathToItself, [TraversalNext]_traversalVars
    PROVE  PathsFollow' /\ PathToItself'
<1>1. alg' = alg /\ target' = target /\ given' = given
  BY SearchFixed
<1>2. ASSUME edges' = edges PROVE \A st, v, f : Pursues(st, v, f)' = Pursues(st, v, f)
  BY <1>1, <1>2 DEF Pursues, Chain, IsWanted, Longest, Pending, Along, Single, Times
<1>3. Deep' = Deep
  BY <1>1 DEF Deep
<1>4. CASE UNCHANGED traversalVars
  BY <1>2, <1>3, <1>4 DEF traversalVars, PathsFollow, PathToItself
<1>5. CASE TraversalNext
  <2>1. PathToItself'
    <3> SUFFICES ASSUME alg = "paths", target = Source PROVE PathToItself'
      BY <1>1 DEF PathToItself
    <3>1. FindPathToItself \/ AddEdge
      BY <1>5, Moves DEF FindPaths, Return
    <3> QED
      BY <1>1, <3>1 DEF FindPathToItself, AddEdge, PathToItself
  <2>2. PathsFollow'
    <3> SUFFICES ASSUME Deep PROVE PathsFollow'
      BY <1>3 DEF PathsFollow
    <3>1. Pursues(stack, visited, found)
      BY DEF PathsFollow
    <3>2. FindPaths \/ DetectCycles \/ Return \/ AddEdge
      BY <1>5, Moves DEF Deep, FindPathToItself
    <3>3. CASE FindPaths \/ DetectCycles
      <4>1. Pursues(stack', visited', found')
        BY <1>5, <3>3, LookStep
      <4>2. edges' = edges /\ ~ended'
        BY <3>3 DEF FindPaths, DetectCycles, InCall
      <4>3. Pursues(stack, visited, found)'
        BY <1>1, <4>1, <4>2, PursuesNext
      <4> QED
        BY <4>2, <4>3 DEF PathsFollow
    <3>4. CASE Return
      <4>1. /\ stack # << >> /\ Last(stack).todo = << >> /\ stack' = Front(stack)
            /\ ended' = (Len(stack) = 1) /\ UNCHANGED <<edges, found>>
            /\ visited' = visited \ {Last(stack).node}
        BY <3>4 DEF Return, Top, Left, Deep
      <4>2. stack[Len(stack)].todo = << >>
        BY <4>1 DEF Last
      <4>3. Pursues(Front(stack), visited \ {Last(stack).node}, found)
        BY <3>1, <4>1, <4>2, PursuesReturn
      <4>4. Pursues(stack', visited', found')
        BY <4>1, <4>3
      <4>5. Pursues(stack, visited, found)'
        BY <1>1, <4>1, <4>4, PursuesNext
      <4>6. ended' => stack' = << >>
        <5>1. stack \in Frames
          BY <3>1 DEF Pursues, Chain
        <5>2. Len(stack') = Len(stack) - 1 /\ stack' \in Frames
          BY <4>1, <5>1, ElementsOfFront DEF Frames
        <5>3. Len(stack) = 1 => ~(Len(stack') >= 1)
          BY <5>2
        <5> QED
          BY <4>1, <5>2, <5>3, FrameFacts
      <4> QED
        BY <4>5, <4>6 DEF PathsFollow
    <3>5. CASE AddEdge
      <4>1. UNCHANGED <<stack, visited, found>> /\ edges \subseteq edges' /\ ended' = ended
        BY <3>5 DEF AddEdge
      <4>2. Chain(stack)'
        <5>1. \A st : Chain(st) => Chain(st)'
          BY <1>1, <3>5, ChainGrows
        <5>2. Chain(stack)
          BY <3>1 DEF Pursues
        <5> QED
          BY <4>1, <5>1, <5>2 DEF Chain, Times
      <4>3. \A p : IsWanted(edges, p) => IsWanted(edges', p)
        BY <4>1, IsWantedGrows
      <4>4. \A es, p : IsWanted(es, p)' = IsWanted(es, p)
        BY <1>1 DEF IsWanted, Longest
      <4>5. \A p : Pending(stack, p)' = Pending(stack, p)
        BY <4>1 DEF Pending, Along
      <4>10. \A p : Single(p)' = Single(p)
        BY <1>1 DEF Single, Times
      <4>6. /\ visited' = {stack'[i].node : i \in 1..Len(stack')}
            /\ found' \in Seq(Seq(Nodes)) /\ \A p : Single(p) => Once(found', p)
        BY <3>1, <4>1 DEF Pursues
      <4>7. \A p \in ToSet(found') : IsWanted(edges', p) /\ (Single(p) => ~Pending(stack, p))
        BY <3>1, <4>1, <4>3 DEF Pursues
      <4>8. \A p : IsWanted(given, p) => p \in ToSet(found') \/ Pending(stack, p)
        BY <3>1, <4>1 DEF Pursues
      <4>9. Pursues(stack, visited, found)'
        BY <1>1, <4>2, <4>4, <4>5, <4>6, <4>7, <4>8, <4>10 DEF Pursues
      <4> QED
        BY <4>1, <4>9 DEF PathsFollow
    <3> QED
      BY <3>2, <3>3, <3>4, <3>5
  <2> QED
    BY <2>1, <2>2
<1> QED
  BY <1>4, <1>5
-----------------------------------------------------------------------------
\* The paths that are sought are the simple paths and the cycles of PathsExact.
LEMMA SimpleIs ==
    ASSUME NEW es, NEW k \in Nat, NEW p
    PROVE  p \in SimplePaths(es, k) <=>
               /\ p \in Seq(Nodes) /\ Len(p) \in 1..k /\ p[1] = Source
               /\ \A i \in 1..(Len(p) - 1) : <<p[i], p[i + 1]>> \in es
               /\ IsInjective(p)
<1>1. ASSUME NEW n \in 1..k, p \in [1..n -> Nodes]
      PROVE  p \in Seq(Nodes) /\ Len(p) = n
  BY <1>1, FunctionIsSeq
<1>2. ASSUME p \in Seq(Nodes), Len(p) \in 1..k
      PROVE  p \in UNION {[1..n -> Nodes] : n \in 1..k}
  <2>1. p \in [1..Len(p) -> Nodes]
    BY <1>2
  <2> QED
    BY <1>2, <2>1
<1>3. p \in UNION {[1..n -> Nodes] : n \in 1..k} <=> p \in Seq(Nodes) /\ Len(p) \in 1..k
  BY <1>1, <1>2
<1> QED
  BY <1>3 DEF SimplePaths

LEMMA TwoOrMore ==
    ASSUME NEW d \in Nat, NEW l \in 1..d, l # 1
    PROVE  l \in Nat /\ l >= 2 /\ l \in 2..d
  OBVIOUS

LEMMA OneMoreNode ==
    ASSUME NEW d \in Nat, NEW m \in 1..d, m > 1
    PROVE  /\ m + 1 \in 2..(d + 1) /\ m + 1 > 2 /\ (m + 1) - 1 = m /\ 1 \in 1..m
           /\ \A i \in 1..m : i = m \/ (i \in 1..(m - 1) /\ i + 1 \in 1..m)
  OBVIOUS

LEMMA WantedPaths ==
    ASSUME alg = "paths", target # Source, NEW es, NEW p
    PROVE  IsWanted(es, p) <=> p \in SimplePaths(es, PathDepth) /\ Last(p) = target
<1> DEFINE l == Len(p)
<1>1. PathDepth \in Nat /\ Longest = PathDepth
  BY TraversalAssumption DEF Longest
<1>2. ASSUME IsWanted(es, p) PROVE p \in SimplePaths(es, PathDepth) /\ Last(p) = target
  <2>1. p \in Seq(Nodes) /\ l \in Nat /\ l >= 2 /\ l <= PathDepth /\ p[1] = Source /\ p[l] = target
    BY <1>1, <1>2, WantedFacts
  <2>2. /\ \A i \in 1..(l - 1) : <<p[i], p[i + 1]>> \in es /\ p[i] # target
        /\ \A i, j \in 1..(l - 1) : p[i] = p[j] => i = j
    BY <1>2 DEF IsWanted
  <2>3. DOMAIN p = 1..l
    BY <2>1
  <2>4. \A i \in 1..l : i \in 1..(l - 1) \/ i = l
    BY <2>1
  <2>5. l \in 1..PathDepth
    BY <1>1, <2>1
  <2> HIDE DEF l
  <2>6. IsInjective(p)
    BY <2>1, <2>2, <2>3, <2>4 DEF IsInjective
  <2>7. Last(p) = target
    BY <1>2 DEF IsWanted
  <2> QED
    BY <1>1, <2>1, <2>2, <2>5, <2>6, <2>7, SimpleIs DEF l
<1>3. ASSUME p \in SimplePaths(es, PathDepth), Last(p) = target PROVE IsWanted(es, p)
  <2>1. /\ p \in Seq(Nodes) /\ l \in 1..PathDepth /\ p[1] = Source
        /\ \A i \in 1..(l - 1) : <<p[i], p[i + 1]>> \in es
        /\ IsInjective(p)
    BY <1>1, <1>3, SimpleIs
  <2>2. p[l] = target /\ DOMAIN p = 1..l
    BY <1>3, <2>1 DEF Last
  <2>3. l \in Nat /\ l # 1 /\ l >= 1
    BY <1>1, <2>1, <2>2
  <2>4. l >= 2 /\ l \in 2..PathDepth
    BY <1>1, <2>1, <2>3, TwoOrMore
  <2>5. l \in 1..l /\ \A i \in 1..(l - 1) : i \in 1..l /\ i # l
    BY <2>3, <2>4
  <2> HIDE DEF l
  <2>6. \A i, j \in 1..l : p[i] = p[j] => i = j
    BY <2>1, <2>2 DEF IsInjective
  <2>7. \A i, j \in 1..(l - 1) : p[i] = p[j] => i = j
    BY <2>5, <2>6
  <2>8. \A i \in 1..(l - 1) : p[i] # target
    BY <2>2, <2>5, <2>6
  <2> QED
    BY <1>1, <1>3, <2>1, <2>4, <2>7, <2>8 DEF IsWanted, l
<1> QED
  BY <1>2, <1>3

Cycle(es) == {x \in SimplePaths(es, CycleDepth) : Len(x) > 1 /\ <<Last(x), Source>> \in es}

LEMMA WantedCycles ==
    ASSUME alg = "cycles", target = Source, NEW es, NEW p
    PROVE  IsWanted(es, p) <=> p \in {Append(x, Source) : x \in Cycle(es)}
<1> DEFINE l == Len(p)
<1>1. CycleDepth \in Nat /\ Longest = CycleDepth + 1 /\ Source \in Nodes
  BY TraversalAssumption DEF Longest
<1>2. ASSUME IsWanted(es, p) PROVE \E x \in Cycle(es) : p = Append(x, Source)
  <2> DEFINE x == Front(p)
  <2>1. p \in Seq(Nodes) /\ l \in Nat /\ l >= 2 /\ l <= CycleDepth + 1 /\ p[1] = Source /\ p[l] = Source
    BY <1>1, <1>2, WantedFacts
  <2>2. /\ \A i \in 1..(l - 1) : <<p[i], p[i + 1]>> \in es
        /\ \A i, j \in 1..(l - 1) : p[i] = p[j] => i = j
        /\ l > 2
    BY <1>2 DEF IsWanted
  <2>3. x \in Seq(Nodes) /\ Len(x) = l - 1 /\ \A i \in 1..(l - 1) : x[i] = p[i]
    BY <2>1, ElementsOfFront
  <2>4. Append(x, Source) = p
    <3>1. p # << >>
      BY <2>1
    <3>2. Append(Front(p), Last(p)) = p
      BY <2>1, <3>1 DEF Front, Last
    <3> QED
      BY <2>1, <3>2 DEF Last
  <2>5. DOMAIN x = 1..(l - 1)
    BY <2>3
  <2>6. /\ l - 1 \in 1..CycleDepth /\ l - 1 > 1 /\ 1 \in 1..(l - 1) /\ l - 1 \in 1..(l - 1)
        /\ \A i \in 1..((l - 1) - 1) : i \in 1..(l - 1) /\ i + 1 \in 1..(l - 1)
        /\ (l - 1) + 1 = l
    BY <1>1, <2>1, <2>2
  <2> HIDE DEF x, l
  <2>7. IsInjective(x)
    BY <2>2, <2>3, <2>5 DEF IsInjective
  <2>8. x[1] = Source /\ \A i \in 1..(Len(x) - 1) : <<x[i], x[i + 1]>> \in es
    BY <2>1, <2>2, <2>3, <2>6
  <2>9. <<Last(x), Source>> \in es
    BY <2>1, <2>2, <2>3, <2>6 DEF Last
  <2>10. x \in SimplePaths(es, CycleDepth)
    BY <1>1, <2>3, <2>6, <2>7, <2>8, SimpleIs
  <2> QED
    BY <2>3, <2>4, <2>6, <2>9, <2>10 DEF Cycle
<1>3. ASSUME NEW x \in Cycle(es), p = Append(x, Source) PROVE IsWanted(es, p)
  <2> DEFINE m == Len(x)
  <2>1. /\ x \in Seq(Nodes) /\ m \in 1..CycleDepth /\ x[1] = Source
        /\ \A i \in 1..(m - 1) : <<x[i], x[i + 1]>> \in es
        /\ IsInjective(x)
        /\ m > 1 /\ <<Last(x), Source>> \in es
    BY <1>1, SimpleIs DEF Cycle
  <2>2. /\ Append(x, Source) \in Seq(Nodes) /\ Len(Append(x, Source)) = m + 1
        /\ Last(Append(x, Source)) = Source /\ Append(x, Source)[m + 1] = Source
        /\ \A i \in 1..m : Append(x, Source)[i] = x[i]
    BY <1>1, <2>1, ElementsOfAppend
  <2>3. m \in Nat /\ DOMAIN x = 1..m
    BY <2>1
  <2>4. /\ m + 1 \in 2..(CycleDepth + 1) /\ m + 1 > 2 /\ (m + 1) - 1 = m /\ 1 \in 1..m
        /\ \A i \in 1..m : i = m \/ (i \in 1..(m - 1) /\ i + 1 \in 1..m)
    BY <1>1, <2>1, OneMoreNode
  <2>5. p \in Seq(Nodes) /\ Len(p) = m + 1 /\ Last(p) = Source /\ p[m + 1] = Source
    BY <1>3, <2>2
  <2>6. \A i \in 1..m : p[i] = x[i]
    BY <1>3, <2>2
  <2> HIDE DEF m
  <2>7. \A i, j \in 1..m : p[i] = p[j] => i = j
    BY <2>1, <2>3, <2>6 DEF IsInjective
  <2>8. \A i \in 1..m : <<p[i], p[i + 1]>> \in es
    <3>1. x[m] = Last(x)
      BY DEF Last, m
    <3> QED
      BY <2>1, <2>4, <2>5, <2>6, <3>1
  <2>9. p[1] = Source
    BY <2>1, <2>4, <2>6
  <2> QED
    BY <1>1, <2>4, <2>5, <2>7, <2>8, <2>9 DEF IsWanted
<1> QED
  BY <1>2, <1>3
\* The code at the start of a path to itself has one node.
LEMMA PathOfOne ==
    ASSUME alg = "paths", target = Source, NEW es
    PROVE  {p \in SimplePaths(es, PathDepth) : Last(p) = target} = {<<Source>>}
<1>1. PathDepth \in Nat /\ 1 \in 1..PathDepth /\ Source \in Nodes
  BY TraversalAssumption
<1>2. <<Source>> \in SimplePaths(es, PathDepth) /\ Last(<<Source>>) = target
  <2>1. <<Source>> \in Seq(Nodes) /\ Len(<<Source>>) = 1 /\ <<Source>>[1] = Source
    BY <1>1
  <2>2. IsInjective(<<Source>>)
    BY DEF IsInjective
  <2>3. \A i \in 1..(1 - 1) : FALSE
    OBVIOUS
  <2> QED
    BY <1>1, <2>1, <2>2, <2>3, SimpleIs DEF Last
<1>3. ASSUME NEW p \in SimplePaths(es, PathDepth), Last(p) = target PROVE p = <<Source>>
  <2>1. p \in Seq(Nodes) /\ Len(p) \in 1..PathDepth /\ p[1] = Source /\ IsInjective(p)
    BY <1>1, SimpleIs
  <2>2. Len(p) \in Nat /\ DOMAIN p = 1..Len(p) /\ 1 \in 1..Len(p) /\ Len(p) \in 1..Len(p)
    BY <1>1, <2>1
  <2>3. p[Len(p)] = Source
    BY <1>3 DEF Last
  <2>4. Len(p) = 1
    BY <2>1, <2>2, <2>3 DEF IsInjective
  <2> QED
    BY <2>1, <2>4
<1> QED
  BY <1>2, <1>3

\* What is found in the end: the paths or the cycles, each once if its nodes
\* list the next once.
To(es) ==
    IF alg = "paths" THEN {p \in SimplePaths(es, PathDepth) : Last(p) = target}
    ELSE {Append(p, Source) : p \in Cycle(es)}

LEMMA PathsAreFound ==
    ASSUME Shapes, PathsFollow, PathToItself, ended, alg \in {"paths", "cycles"}
    PROVE  /\ To(given) \subseteq ToSet(found) /\ ToSet(found) \subseteq To(edges)
           /\ found \in Seq(Seq(Nodes)) /\ \A p : Single(p) => Once(found, p)
<1>1. CASE alg = "paths" /\ target = Source
  <2>1. found = << <<Source>> >> /\ Source \in Nodes
    BY <1>1, TraversalAssumption DEF PathToItself
  <2>2. ToSet(found) = {<<Source>>} /\ found \in Seq(Seq(Nodes)) /\ \A p : Once(found, p)
    BY <2>1 DEF ToSet, Once
  <2> QED
    BY <1>1, <2>2, PathOfOne DEF To
<1>2. CASE Deep
  <2>1. \A es, p : IsWanted(es, p) <=> p \in To(es)
    <3>1. CASE alg = "paths"
      BY <1>2, <3>1, WantedPaths DEF To, Deep
    <3>2. CASE alg = "cycles"
      BY <3>2, WantedCycles DEF To, Shapes
    <3> QED
      BY <3>1, <3>2
  <2>2. Pursues(stack, visited, found) /\ stack = << >>
    BY <1>2 DEF PathsFollow
  <2>3. \A p : ~Pending(stack, p)
    <3>1. 1..Len(stack) = {}
      BY <2>2
    <3> QED
      BY <3>1 DEF Pending
  <2> QED
    BY <2>1, <2>2, <2>3 DEF Pursues
<1> QED
  BY <1>1, <1>2 DEF Deep

LEMMA PathsExactIs ==
    ASSUME Shapes, PathsFollow, PathToItself
    PROVE  PathsExact
<1> SUFFICES ASSUME ended, alg \in {"paths", "cycles"} PROVE PathsExact
  BY DEF PathsExact
<1>1. /\ To(given) \subseteq ToSet(found) /\ ToSet(found) \subseteq To(edges)
      /\ found \in Seq(Seq(Nodes)) /\ \A p : Single(p) => Once(found, p)
  BY PathsAreFound
<1>2. ASSUME NEW i \in DOMAIN found, NEW j \in DOMAIN found, found[i] = found[j], i # j
      PROVE  \E k \in 1..(Len(found[i]) - 1) : Times(found[i][k], found[i][k + 1]) > 1
  <2> DEFINE p == found[i]
  <2>1. p \in Seq(Nodes)
    BY <1>1
  <2>2. ~Single(p)
    BY <1>1, <1>2 DEF Once
  <2> HIDE DEF p
  <2>3. PICK k \in 1..(Len(p) - 1) : Times(p[k], p[k + 1]) # 1
    BY <2>2 DEF Single
  <2>4. p[k] \in Nodes /\ p[k + 1] \in Nodes
    BY <2>1
  <2>5. Times(p[k], p[k + 1]) \in Nat \ {0}
    BY <2>4, TimesIs
  <2>6. Times(p[k], p[k + 1]) > 1
    BY <2>3, <2>5
  <2> QED
    BY <2>6 DEF p
<1> QED
  BY <1>1, <1>2 DEF PathsExact, To, Cycle

LEMMA SearchesExactIs ==
    ASSUME Shapes, Effects, Shortest, ToTarget, Nearest, Traverses, Builds, Counts, Depths
    PROVE  SearchesExact
<1> SUFFICES ASSUME ended PROVE SearchesExact
  BY DEF SearchesExact
<1>1. CASE alg \in {"impact", "chains"}
  BY <1>1, EffectsExact DEF SearchesExact
<1>2. CASE alg = "shortest"
  BY <1>2, ShortestExact DEF SearchesExact
<1>3. CASE alg = "nearest"
  BY <1>3, NearestExact DEF SearchesExact
<1>4. CASE alg = "traverse"
  BY <1>4, TraverseExact DEF SearchesExact
<1>5. CASE alg = "dag"
  BY <1>5, BuildsExact DEF SearchesExact
<1>6. CASE alg = "depth"
  BY <1>6, DepthExact DEF SearchesExact
<1>7. CASE alg = "count"
  BY <1>7, CountExact DEF SearchesExact
<1>8. CASE alg \notin {"impact", "chains", "shortest", "nearest", "traverse", "dag", "depth", "count"}
  BY <1>8 DEF SearchesExact
<1> QED
  BY <1>1, <1>2, <1>3, <1>4, <1>5, <1>6, <1>7, <1>8

-----------------------------------------------------------------------------
\* What holds in every state, of the search that runs.
TraversalInv ==
    /\ Shapes /\ Effects /\ Shortest /\ ToTarget /\ Nearest /\ Traverses
    /\ Builds /\ Counts /\ Depths /\ PathsFollow /\ PathToItself

\* Every step of every search keeps what its loop or its recursion relies on:
\* what is queued or pending, what is marked and what was found.
THEOREM TraversalInvariance == TraversalSpec => []TraversalInv
<1>1. TraversalInit => TraversalInv
  <2> SUFFICES ASSUME TraversalInit PROVE TraversalInv
    OBVIOUS
  <2>1. Shapes
    BY ShapesInitially
  <2> QED
    BY <2>1, EffectsInitially, ShortestInitially, TraversesInitially, BuildsInitially,
       CountsInitially, DepthsInitially, PathsInitially DEF TraversalInv
<1>2. TraversalInv /\ [TraversalNext]_traversalVars => TraversalInv'
  <2> SUFFICES ASSUME TraversalInv, [TraversalNext]_traversalVars PROVE TraversalInv'
    OBVIOUS
  <2>1. /\ Shapes /\ Effects /\ Shortest /\ ToTarget /\ Nearest /\ Traverses
        /\ Builds /\ Counts /\ Depths /\ PathsFollow /\ PathToItself
    BY DEF TraversalInv
  <2>2. Shapes'
    BY <2>1, ShapesStep
  <2>3. Effects'
    BY <2>1, EffectsStep
  <2>4. Shortest' /\ ToTarget'
    BY <2>1, ShortestStep
  <2>5. Nearest'
    BY <2>1, NearestStep
  <2>6. Traverses'
    BY <2>1, TraversesStep
  <2>7. Builds'
    BY <2>1, BuildsStep
  <2>8. Counts'
    BY <2>1, CountsStep
  <2>9. Depths'
    BY <2>1, DepthsStep
  <2>10. PathsFollow' /\ PathToItself'
    BY <2>1, PathsStep
  <2> QED
    BY <2>2, <2>3, <2>4, <2>5, <2>6, <2>7, <2>8, <2>9, <2>10 DEF TraversalInv
<1> QED
  BY <1>1, <1>2, PTL DEF TraversalSpec

\* SearchesExact: impact analyses, shortest and nearest paths, traversals,
\* metric graphs, depths and counts give what they should, on every graph.
THEOREM SearchesAreExact == TraversalSpec => []SearchesExact
<1>1. TraversalInv => SearchesExact
  BY SearchesExactIs DEF TraversalInv
<1> QED
  BY <1>1, TraversalInvariance, PTL

\* PathsExact: the recursive searches find every simple path and every cycle of
\* the length asked for, and no other, on every graph; once, unless a node on it
\* lists the next more than once.
THEOREM PathsAreExact == TraversalSpec => []PathsExact
<1>1. TraversalInv => PathsExact
  BY PathsExactIs DEF TraversalInv
<1> QED
  BY <1>1, TraversalInvariance, PTL
=============================================================================
