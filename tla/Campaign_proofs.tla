--------------------------- MODULE Campaign_proofs ---------------------------
(***************************************************************************)
(* Sums over finite sets, as the budget ledgers take them; what the ledger *)
(* of a campaign says of the calls that were made, by any number of        *)
(* processes; and what records, reports and packages say of them while one *)
(* process at a time works on an identity.                                 *)
(***************************************************************************)
EXTENDS Campaign, TLAPS, FiniteSetTheorems, WellFoundedInduction

-----------------------------------------------------------------------------
(* Sums *)

(* The sum of a function over a set, as BudgetLedger and its users take it. *)
SumOver(f, S) == LET of(i) == f[i] IN MapThenSumSet(of, S)

(* One step of the fold: the sum over s, from a table of the sums over less. *)
AddTo(f, g, s) ==
    IF s = {} THEN 0 ELSE f[CHOOSE x \in s : TRUE] + g[s \ {CHOOSE x \in s : TRUE}]
Adds(f, S, g) == g = [s \in SUBSET S |-> AddTo(f, g, s)]

LEMMA SumIsLast == \A f, S : SumOver(f, S) = (CHOOSE g : Adds(f, S, g))[S]
  BY DEF SumOver, MapThenSumSet, MapThenFoldSet, Adds, AddTo

(* A set of subsets of a finite set has a smallest one. *)
LEMMA SmallestSet ==
  ASSUME NEW S, IsFiniteSet(S), NEW B, B \subseteq SUBSET S, B # {}
  PROVE  \E T \in B : \A U \in B : U \subseteq T => U = T
<1>1. B \subseteq FiniteSubsetsOf(S)
  BY FS_Subset DEF FiniteSubsetsOf
<1>2. IsWellFoundedOn(StrictSubsetOrdering(S), FiniteSubsetsOf(S))
  BY FS_StrictSubsetOrderingWellFounded
<1>3. PICK T \in B : \A U \in B : ~(<<U, T>> \in StrictSubsetOrdering(S))
  BY <1>1, <1>2, WFMin
<1>4. \A U \in B : U \subseteq T => U = T
  BY <1>3 DEF StrictSubsetOrdering
<1> QED BY <1>4

(* Tables for two sets agree on the subsets they share. *)
LEMMA TablesAgree ==
  ASSUME NEW f, NEW S, NEW T, IsFiniteSet(S), NEW g, NEW h, Adds(f, S, g), Adds(f, T, h),
         NEW w, w \subseteq S, w \subseteq T
  PROVE  g[w] = h[w]
<1> DEFINE B == {u \in SUBSET S : u \subseteq T /\ g[u] # h[u]}
<1>1. SUFFICES ASSUME B # {} PROVE FALSE
  OBVIOUS
<1>2. PICK u \in B : \A v \in B : v \subseteq u => v = u
  <2>1. B \subseteq SUBSET S
    OBVIOUS
  <2> HIDE DEF B
  <2> QED BY <1>1, <2>1, SmallestSet
<1>3. g[u] = AddTo(f, g, u) /\ h[u] = AddTo(f, h, u)
  BY <1>2 DEF Adds
<1>4. CASE u = {}
  BY <1>2, <1>3, <1>4 DEF AddTo
<1>5. CASE u # {}
  <2> DEFINE v == u \ {CHOOSE x \in u : TRUE}
  <2>1. v \subseteq u /\ v # u
    BY <1>5
  <2>2. v \notin B
    BY <1>2, <2>1
  <2>3. g[v] = h[v]
    BY <1>2, <2>1, <2>2
  <2>4. AddTo(f, g, u) = AddTo(f, h, u)
    BY <1>5, <2>3 DEF AddTo
  <2> QED BY <1>2, <1>3, <2>4
<1> QED BY <1>4, <1>5

(* Every finite set has its table. *)
LEMMA TableExists ==
  ASSUME NEW f, NEW S, IsFiniteSet(S)
  PROVE  \E g : Adds(f, S, g)
<1> DEFINE B == {u \in SUBSET S : ~ \E g : Adds(f, u, g)}
<1>1. SUFFICES ASSUME B # {} PROVE FALSE
  OBVIOUS
<1>2. PICK u \in B : \A v \in B : v \subseteq u => v = u
  <2>1. B \subseteq SUBSET S
    OBVIOUS
  <2> HIDE DEF B
  <2> QED BY <1>1, <2>1, SmallestSet
<1> DEFINE table(v) == CHOOSE g : Adds(f, v, g)
           rest(v) == v \ {CHOOSE x \in v : TRUE}
           last(v) == table(v)[v]
           sum(v) == IF v = {} THEN 0 ELSE f[CHOOSE x \in v : TRUE] + last(rest(v))
           g == [v \in SUBSET u |-> sum(v)]
<1>3. \A v \in SUBSET u : v # u => Adds(f, v, table(v)) /\ IsFiniteSet(v)
  <2> SUFFICES ASSUME NEW v \in SUBSET u, v # u PROVE Adds(f, v, table(v)) /\ IsFiniteSet(v)
    OBVIOUS
  <2>1. v \notin B /\ v \subseteq S
    BY <1>2
  <2>2. \E h : Adds(f, v, h)
    BY <2>1
  <2> QED BY <2>1, <2>2, FS_Subset
<1>4. \A v : v # {} => rest(v) \subseteq v /\ rest(v) # v
  OBVIOUS
<1>5. \A v \in SUBSET u : v # u => last(v) = sum(v)
  <2> SUFFICES ASSUME NEW v \in SUBSET u, v # u PROVE last(v) = sum(v)
    OBVIOUS
  <2>1. Adds(f, v, table(v)) /\ IsFiniteSet(v)
    BY <1>3
  <2>2. table(v)[v] = AddTo(f, table(v), v)
    <3> HIDE DEF table
    <3> QED BY <2>1 DEF Adds
  <2>3. CASE v = {}
    <3> HIDE DEF table
    <3> QED BY <2>2, <2>3 DEF AddTo
  <2>4. CASE v # {}
    <3> DEFINE w == rest(v)
    <3>1. w \subseteq v /\ w # v /\ w \in SUBSET u /\ w # u
      BY <1>4, <2>4
    <3>2. Adds(f, w, table(w))
      BY <1>3, <3>1
    <3> HIDE DEF w
    <3>3. table(v)[w] = table(w)[w]
      <4> HIDE DEF table
      <4> QED BY <2>1, <3>1, <3>2, TablesAgree
    <3>4. AddTo(f, table(v), v) = f[CHOOSE x \in v : TRUE] + table(v)[w]
      <4> HIDE DEF table
      <4> QED BY <2>4 DEF AddTo, w
    <3>5. sum(v) = f[CHOOSE x \in v : TRUE] + table(w)[w]
      <4> HIDE DEF table
      <4> QED BY <2>4 DEF w
    <3> HIDE DEF sum, table
    <3> QED BY <2>2, <3>3, <3>4, <3>5
  <2> QED BY <2>3, <2>4
<1>6. \A v \in SUBSET u : g[v] = AddTo(f, g, v)
  <2> SUFFICES ASSUME NEW v \in SUBSET u PROVE g[v] = AddTo(f, g, v)
    OBVIOUS
  <2>1. CASE v = {}
    <3> HIDE DEF table
    <3> QED BY <2>1 DEF AddTo
  <2>2. CASE v # {}
    <3> DEFINE w == rest(v)
    <3>1. w \subseteq v /\ w # v /\ w \in SUBSET u /\ w # u
      BY <1>4, <2>2
    <3>2. last(w) = sum(w)
      BY <1>5, <3>1
    <3>3. g[w] = sum(w) /\ g[v] = sum(v)
      <4> HIDE DEF sum, w
      <4> QED BY <3>1
    <3>4. sum(v) = f[CHOOSE x \in v : TRUE] + last(w)
      <4> HIDE DEF last
      <4> QED BY <2>2
    <3>5. AddTo(f, g, v) = f[CHOOSE x \in v : TRUE] + g[w]
      <4> HIDE DEF g
      <4> QED BY <2>2 DEF AddTo
    <3> HIDE DEF g, sum, last, w
    <3> QED BY <3>2, <3>3, <3>4, <3>5
  <2> QED BY <2>1, <2>2
<1>7. Adds(f, u, g)
  <2> HIDE DEF sum
  <2>1. g = [v \in SUBSET u |-> g[v]]
    OBVIOUS
  <2> HIDE DEF g
  <2> QED BY <1>6, <2>1 DEF Adds
<1> QED BY <1>2, <1>7

(* The sum, one element at a time. *)
LEMMA SumSteps ==
  ASSUME NEW f, NEW S, IsFiniteSet(S)
  PROVE  SumOver(f, S) = IF S = {} THEN 0
           ELSE f[CHOOSE x \in S : TRUE] + SumOver(f, S \ {CHOOSE x \in S : TRUE})
<1> DEFINE table(v) == CHOOSE g : Adds(f, v, g)
<1>1. SumOver(f, S) = table(S)[S]
  BY SumIsLast
<1>2. Adds(f, S, table(S))
  BY TableExists
<1>3. table(S)[S] = AddTo(f, table(S), S)
  <2> HIDE DEF table
  <2> QED BY <1>2 DEF Adds
<1>4. CASE S = {}
  <2> HIDE DEF table
  <2> QED BY <1>1, <1>3, <1>4 DEF AddTo
<1>5. CASE S # {}
  <2> DEFINE T == S \ {CHOOSE x \in S : TRUE}
  <2>1. T \subseteq S /\ IsFiniteSet(T)
    BY FS_Subset
  <2> HIDE DEF T
  <2>2. Adds(f, T, table(T)) /\ SumOver(f, T) = table(T)[T]
    BY <2>1, TableExists, SumIsLast
  <2>3. table(S)[T] = table(T)[T]
    <3> HIDE DEF table
    <3> QED BY <1>2, <2>1, <2>2, TablesAgree
  <2>4. AddTo(f, table(S), S) = f[CHOOSE x \in S : TRUE] + table(S)[T]
    <3> HIDE DEF table
    <3> QED BY <1>5 DEF AddTo, T
  <2> HIDE DEF table
  <2> QED BY <1>1, <1>3, <1>5, <2>2, <2>3, <2>4 DEF T
<1> QED BY <1>4, <1>5

(* A sum of numbers is a number. *)
LEMMA SumIsNatural ==
  ASSUME NEW f, NEW S, IsFiniteSet(S), \A x \in S : f[x] \in Nat
  PROVE  SumOver(f, S) \in Nat
<1> DEFINE B == {u \in SUBSET S : SumOver(f, u) \notin Nat}
<1>1. SUFFICES ASSUME B # {} PROVE FALSE
  OBVIOUS
<1>2. PICK u \in B : \A v \in B : v \subseteq u => v = u
  <2>1. B \subseteq SUBSET S
    OBVIOUS
  <2> HIDE DEF B
  <2> QED BY <1>1, <2>1, SmallestSet
<1> DEFINE c == CHOOSE x \in u : TRUE
<1>3. u \in SUBSET S /\ IsFiniteSet(u)
  BY <1>2, FS_Subset
<1>4. u # {} => c \in u /\ u \ {c} \notin B
  BY <1>2
<1> HIDE DEF c
<1>5. SumOver(f, u) = IF u = {} THEN 0 ELSE f[c] + SumOver(f, u \ {c})
  BY <1>3, SumSteps DEF c
<1> QED BY <1>2, <1>3, <1>4, <1>5

(* A sum may be split at any of its elements. *)
LEMMA SumSplits ==
  ASSUME NEW f, NEW S, IsFiniteSet(S), \A x \in S : f[x] \in Nat, NEW e \in S
  PROVE  SumOver(f, S) = f[e] + SumOver(f, S \ {e})
<1> DEFINE B == {u \in SUBSET S : \E x \in u : SumOver(f, u) # f[x] + SumOver(f, u \ {x})}
<1>1. SUFFICES ASSUME B # {} PROVE FALSE
  <2>1. S \in SUBSET S /\ S \notin B
    BY <1>1
  <2> QED BY <2>1
<1>2. PICK u \in B : \A v \in B : v \subseteq u => v = u
  <2>1. B \subseteq SUBSET S
    OBVIOUS
  <2> HIDE DEF B
  <2> QED BY <1>1, <2>1, SmallestSet
<1>3. PICK y \in u : SumOver(f, u) # f[y] + SumOver(f, u \ {y})
  BY <1>2
<1> DEFINE c == CHOOSE x \in u : TRUE
<1>4. u \in SUBSET S /\ IsFiniteSet(u) /\ c \in u /\ u # {}
  BY <1>2, <1>3, FS_Subset
<1>5. SumOver(f, u) = f[c] + SumOver(f, u \ {c})
  BY <1>4, SumSteps
<1> HIDE DEF c
<1>6. y # c
  BY <1>3, <1>5
<1>7. SumOver(f, u \ {c}) = f[y] + SumOver(f, u \ {c, y})
  <2>1. u \ {c} \in SUBSET S /\ u \ {c} \notin B /\ y \in u \ {c}
    BY <1>2, <1>4, <1>6
  <2>2. SumOver(f, u \ {c}) = f[y] + SumOver(f, (u \ {c}) \ {y})
    BY <2>1
  <2>3. (u \ {c}) \ {y} = u \ {c, y}
    OBVIOUS
  <2> QED BY <2>2, <2>3
<1>8. SumOver(f, u \ {y}) = f[c] + SumOver(f, u \ {c, y})
  <2>1. u \ {y} \in SUBSET S /\ u \ {y} \notin B /\ c \in u \ {y}
    BY <1>2, <1>4, <1>6
  <2>2. SumOver(f, u \ {y}) = f[c] + SumOver(f, (u \ {y}) \ {c})
    BY <2>1
  <2>3. (u \ {y}) \ {c} = u \ {c, y}
    OBVIOUS
  <2> QED BY <2>2, <2>3
<1>9. SumOver(f, u \ {c, y}) \in Nat /\ f[c] \in Nat /\ f[y] \in Nat
  <2>1. IsFiniteSet(u \ {c, y}) /\ \A x \in u \ {c, y} : f[x] \in Nat
    BY <1>4, FS_Subset
  <2> QED BY <1>4, <2>1, SumIsNatural
<1> QED BY <1>3, <1>5, <1>7, <1>8, <1>9

(* It depends on what is added only, and grows with it. *)
LEMMA SumIsMonotone ==
  ASSUME NEW f, NEW g, NEW S, IsFiniteSet(S), \A x \in S : f[x] \in Nat /\ g[x] \in Nat,
         \A x \in S : f[x] <= g[x]
  PROVE  SumOver(f, S) <= SumOver(g, S)
<1> DEFINE B == {u \in SUBSET S : ~(SumOver(f, u) <= SumOver(g, u))}
<1>1. SUFFICES ASSUME B # {} PROVE FALSE
  <2>1. S \in SUBSET S /\ S \notin B
    BY <1>1
  <2> QED BY <2>1
<1>2. PICK u \in B : \A v \in B : v \subseteq u => v = u
  <2>1. B \subseteq SUBSET S
    OBVIOUS
  <2> HIDE DEF B
  <2> QED BY <1>1, <2>1, SmallestSet
<1> DEFINE c == CHOOSE x \in u : TRUE
<1>3. u \in SUBSET S /\ IsFiniteSet(u) /\ IsFiniteSet(u \ {c})
  BY <1>2, FS_Subset
<1>4. u # {} => c \in u /\ u \ {c} \in SUBSET S /\ u \ {c} \notin B
  BY <1>2
<1>5. /\ SumOver(f, u) = IF u = {} THEN 0 ELSE f[c] + SumOver(f, u \ {c})
      /\ SumOver(g, u) = IF u = {} THEN 0 ELSE g[c] + SumOver(g, u \ {c})
  BY <1>3, SumSteps
<1>6. SumOver(f, u \ {c}) \in Nat /\ SumOver(g, u \ {c}) \in Nat
  BY <1>3, SumIsNatural
<1> HIDE DEF c
<1> QED BY <1>2, <1>3, <1>4, <1>5, <1>6

LEMMA SumOfEqual ==
  ASSUME NEW f, NEW g, NEW S, IsFiniteSet(S), \A x \in S : f[x] = g[x]
  PROVE  SumOver(f, S) = SumOver(g, S)
<1> DEFINE B == {u \in SUBSET S : SumOver(f, u) # SumOver(g, u)}
<1>1. SUFFICES ASSUME B # {} PROVE FALSE
  <2>1. S \in SUBSET S /\ S \notin B
    BY <1>1
  <2> QED BY <2>1
<1>2. PICK u \in B : \A v \in B : v \subseteq u => v = u
  <2>1. B \subseteq SUBSET S
    OBVIOUS
  <2> HIDE DEF B
  <2> QED BY <1>1, <2>1, SmallestSet
<1> DEFINE c == CHOOSE x \in u : TRUE
<1>3. u \in SUBSET S /\ IsFiniteSet(u)
  BY <1>2, FS_Subset
<1>4. u # {} => c \in u /\ u \ {c} \in SUBSET S /\ u \ {c} \notin B
  BY <1>2
<1>5. /\ SumOver(f, u) = IF u = {} THEN 0 ELSE f[c] + SumOver(f, u \ {c})
      /\ SumOver(g, u) = IF u = {} THEN 0 ELSE g[c] + SumOver(g, u \ {c})
  BY <1>3, SumSteps
<1> HIDE DEF c
<1> QED BY <1>2, <1>3, <1>4, <1>5

(* One more at one place is one more. *)
LEMMA SumCounts ==
  ASSUME NEW f, NEW S, IsFiniteSet(S), f \in [S -> Nat], NEW e \in S
  PROVE  SumOver([f EXCEPT ![e] = @ + 1], S) = SumOver(f, S) + 1
<1> DEFINE g == [f EXCEPT ![e] = @ + 1]
<1>1. g \in [S -> Nat] /\ g[e] = f[e] + 1 /\ \A x \in S \ {e} : g[x] = f[x]
  OBVIOUS
<1> HIDE DEF g
<1>2. IsFiniteSet(S \ {e}) /\ \A x \in S \ {e} : f[x] \in Nat
  BY FS_Subset
<1>3. SumOver(g, S \ {e}) = SumOver(f, S \ {e}) /\ SumOver(f, S \ {e}) \in Nat
  BY <1>1, <1>2, SumOfEqual, SumIsNatural
<1>4. SumOver(f, S) = f[e] + SumOver(f, S \ {e}) /\ SumOver(g, S) = g[e] + SumOver(g, S \ {e})
  BY <1>1, SumSplits
<1>5. f[e] \in Nat
  OBVIOUS
<1>6. SumOver(g, S) = SumOver(f, S) + 1
  BY <1>1, <1>3, <1>4, <1>5
<1> QED BY <1>6 DEF g

(* Nothing adds up to nothing. *)
LEMMA SumOfZeros ==
  ASSUME NEW f, NEW S, IsFiniteSet(S), \A x \in S : f[x] = 0
  PROVE  SumOver(f, S) = 0
<1> DEFINE B == {u \in SUBSET S : SumOver(f, u) # 0}
<1>1. SUFFICES ASSUME B # {} PROVE FALSE
  <2>1. S \in SUBSET S /\ S \notin B
    BY <1>1
  <2> QED BY <2>1
<1>2. PICK u \in B : \A v \in B : v \subseteq u => v = u
  <2>1. B \subseteq SUBSET S
    OBVIOUS
  <2> HIDE DEF B
  <2> QED BY <1>1, <2>1, SmallestSet
<1> DEFINE c == CHOOSE x \in u : TRUE
<1>3. u \in SUBSET S /\ IsFiniteSet(u)
  BY <1>2, FS_Subset
<1>4. u # {} => c \in u /\ u \ {c} \in SUBSET S /\ u \ {c} \notin B
  BY <1>2
<1>5. SumOver(f, u) = IF u = {} THEN 0 ELSE f[c] + SumOver(f, u \ {c})
  BY <1>3, SumSteps
<1> HIDE DEF c
<1> QED BY <1>2, <1>3, <1>4, <1>5

(* Any other way to build the table gives the same sum. *)
LEMMA TableIsSum ==
  ASSUME NEW f, NEW S, IsFiniteSet(S), NEW g, Adds(f, S, g)
  PROVE  g[S] = SumOver(f, S)
<1> DEFINE last == CHOOSE h : Adds(f, S, h)
<1>1. Adds(f, S, last)
  BY TableExists
<1> HIDE DEF last
<1>2. g[S] = last[S]
  BY <1>1, TablesAgree
<1> QED BY <1>2, SumIsLast DEF last

(* A set of numbers has a least one. *)
LEMMA LeastNumber ==
  ASSUME NEW S, S \subseteq Nat, S # {}
  PROVE  Min(S) \in S
<1>1. PICK m \in S : TRUE
  OBVIOUS
<1> DEFINE B == {0..y : y \in {y \in S : y <= m}}
<1>2. IsFiniteSet(0..m)
  <2>1. 0 \in Int /\ m \in Int
    BY <1>1
  <2> QED BY ONLY <2>1, FS_Interval
<1>3. B \subseteq SUBSET (0..m) /\ B # {}
  BY <1>1
<1>4. PICK T \in B : \A U \in B : U \subseteq T => U = T
  <2> DEFINE I == 0..m
  <2> HIDE DEF B
  <2>1. IsFiniteSet(I) /\ B \subseteq SUBSET I /\ B # {}
    BY <1>2, <1>3
  <2> HIDE DEF I
  <2> QED BY <2>1, SmallestSet
<1>5. PICK x \in S : x <= m /\ T = 0..x
  BY <1>4
<1>6. \A y \in S : x <= y
  <2> SUFFICES ASSUME NEW y \in S, ~(x <= y) PROVE FALSE
    OBVIOUS
  <2>1. x \in Nat /\ y \in Nat /\ m \in Nat /\ y < x
    BY <1>1
  <2>2. 0..y \in B /\ 0..y \subseteq T
    BY <1>5, <2>1
  <2>3. 0..y = 0..x
    BY <1>4, <1>5, <2>2
  <2>4. x \in 0..x /\ x \notin 0..y
    BY <2>1
  <2> QED BY <2>3, <2>4
<1> QED BY <1>6 DEF Min

(* A set of numbers that is finite has a greatest one. *)
LEMMA GreatestNumber ==
  ASSUME NEW S, S \subseteq Nat, S # {}, IsFiniteSet(S)
  PROVE  Max(S) \in S /\ \A y \in S : y <= Max(S)
<1> DEFINE above(x) == {y \in S : y > x}
           B == {above(x) : x \in S}
<1>1. B \subseteq SUBSET S /\ B # {}
  OBVIOUS
<1>2. PICK T \in B : \A U \in B : U \subseteq T => U = T
  <2>1. IsFiniteSet(S) /\ B \subseteq SUBSET S /\ B # {}
    BY <1>1
  <2> HIDE DEF B
  <2> QED BY ONLY <2>1, SmallestSet
<1>3. PICK x \in S : T = above(x)
  BY <1>2
<1>4. \A y \in S : x >= y
  <2> SUFFICES ASSUME NEW y \in S, ~(x >= y) PROVE FALSE
    OBVIOUS
  <2>1. x \in Nat /\ y \in Nat /\ y > x
    OBVIOUS
  <2>2. above(y) \in B /\ above(y) \subseteq T
    <3>1. \A z \in S : z > y => z > x
      BY <2>1
    <3> QED BY <1>3, <3>1
  <2>3. above(y) = above(x)
    BY <1>2, <1>3, <2>2
  <2>4. y \in above(x) /\ y \notin above(y)
    BY <2>1
  <2> QED BY <2>3, <2>4
<1>5. Max(S) \in S /\ \A y \in S : Max(S) >= y
  BY <1>4 DEF Max
<1> QED BY <1>5

(* The sum of the calls that papers count. *)
LEMMA CallsInIsSum ==
  ASSUME NEW papers, IsFiniteSet(DOMAIN papers)
  PROVE  CallsIn(papers) = SumOver([run \in DOMAIN papers |-> papers[run].calls], DOMAIN papers)
<1> DEFINE S == DOMAIN papers
           f == [run \in DOMAIN papers |-> papers[run].calls]
           last == CHOOSE g : g = [s \in SUBSET S |->
                     IF s = {} THEN 0
                     ELSE papers[CHOOSE x \in s : TRUE].calls + g[s \ {CHOOSE x \in s : TRUE}]]
<1>1. CallsIn(papers) = last[S]
  BY DEF CallsIn, MapThenSumSet, MapThenFoldSet
<1>2. \A s \in SUBSET S : s # {} =>
        f[CHOOSE x \in s : TRUE] = papers[CHOOSE x \in s : TRUE].calls
  OBVIOUS
<1>3. PICK g : Adds(f, S, g)
  BY TableExists
<1>4. g = [s \in SUBSET S |->
             IF s = {} THEN 0
             ELSE papers[CHOOSE x \in s : TRUE].calls + g[s \ {CHOOSE x \in s : TRUE}]]
  BY <1>2, <1>3 DEF Adds, AddTo
<1>5. last = [s \in SUBSET S |->
                IF s = {} THEN 0
                ELSE papers[CHOOSE x \in s : TRUE].calls + last[s \ {CHOOSE x \in s : TRUE}]]
  BY <1>4
<1>6. Adds(f, S, last)
  <2> HIDE DEF last
  <2> QED BY <1>2, <1>5 DEF Adds, AddTo
<1>7. last[S] = SumOver(f, S)
  <2> HIDE DEF last, f
  <2> QED BY <1>6, TableIsSum
<1> QED BY <1>1, <1>7

LEMMA CallsInIsNatural ==
  ASSUME NEW papers, IsFiniteSet(DOMAIN papers),
         \A run \in DOMAIN papers : papers[run].calls \in Nat
  PROVE  CallsIn(papers) \in Nat
<1> DEFINE f == [run \in DOMAIN papers |-> papers[run].calls]
<1>1. \A run \in DOMAIN papers : f[run] \in Nat
  OBVIOUS
<1>2. CallsIn(papers) = SumOver(f, DOMAIN papers)
  BY CallsInIsSum
<1> HIDE DEF f
<1> QED BY <1>1, <1>2, SumIsNatural

-----------------------------------------------------------------------------
(* The budget ledger *)

Entries == [status : {"admitted", "completed", "failed"}, tokens : Usage \cup {Unreported}]
Stops == Reasons \cup {"none"}

(* Ledgers of a programme whose observed calls are among calls. *)
Ledgers(calls) == [calls : UNION {[D -> Entries] : D \in SUBSET calls}, stop : Stops]

Bindings == {b \in [ceiling : Nat, perRun : Nat, threshold : Nat] : b.perRun <= b.ceiling}

TokensOf(l) == [i \in Invocations(l) |-> l.calls[i].tokens]

LEMMA TokensIsSum ==
  ASSUME NEW calls, IsFiniteSet(calls), NEW l \in Ledgers(calls)
  PROVE  Tokens(l) = SumOver(TokensOf(l), Reported(l))
<1> DEFINE S == Reported(l)
           f == TokensOf(l)
           last == CHOOSE g : g = [s \in SUBSET S |->
                     IF s = {} THEN 0
                     ELSE l.calls[CHOOSE x \in s : TRUE].tokens + g[s \ {CHOOSE x \in s : TRUE}]]
<1>1. Tokens(l) = last[S]
  BY DEF Tokens, MapThenSumSet, MapThenFoldSet
<1>2. \A s \in SUBSET S : s # {} =>
        f[CHOOSE x \in s : TRUE] = l.calls[CHOOSE x \in s : TRUE].tokens
  BY DEF TokensOf, Reported, Terminal
<1>3. IsFiniteSet(S)
  BY FS_Subset DEF Reported, Terminal, Invocations, Ledgers
<1>4. PICK g : Adds(f, S, g)
  BY <1>3, TableExists
<1>5. g = [s \in SUBSET S |->
             IF s = {} THEN 0
             ELSE l.calls[CHOOSE x \in s : TRUE].tokens + g[s \ {CHOOSE x \in s : TRUE}]]
  BY <1>2, <1>4 DEF Adds, AddTo
<1>6. last = [s \in SUBSET S |->
                IF s = {} THEN 0
                ELSE l.calls[CHOOSE x \in s : TRUE].tokens + last[s \ {CHOOSE x \in s : TRUE}]]
  BY <1>5
<1>7. Adds(f, S, last)
  <2> HIDE DEF last
  <2> QED BY <1>2, <1>6 DEF Adds, AddTo
<1>8. last[S] = SumOver(f, S)
  <2> HIDE DEF last, S, f
  <2> QED BY <1>3, <1>7, TableIsSum
<1> QED BY <1>1, <1>8

(* What the ledger of an identity is at any time: at most one call without an
   answer, the ceilings, and no more than one answer beyond the threshold. *)
WithinLimits(b, l) ==
    /\ \A i, j \in Pending(l) : i = j
    /\ Cardinality(Invocations(l)) <= b.ceiling
    /\ \A run \in Nat : Cardinality(InvocationsOf(l, run)) <= b.perRun
    /\ b.threshold > 0 =>
         /\ Tokens(l) < b.threshold + Max(Usage)
         /\ Pending(l) # {} => Tokens(l) < b.threshold

(* Everything that is said of a ledger's calls is untouched by a stop. *)
LEMMA StopChangesNothing ==
  ASSUME NEW calls, NEW l \in Ledgers(calls), NEW m \in Ledgers(calls), m.calls = l.calls
  PROVE  /\ Invocations(m) = Invocations(l) /\ Pending(m) = Pending(l)
         /\ Reported(m) = Reported(l) /\ Tokens(m) = Tokens(l)
         /\ \A run : InvocationsOf(m, run) = InvocationsOf(l, run)
         /\ \A b : WithinLimits(b, l) => WithinLimits(b, m)
<1>1. /\ Invocations(m) = Invocations(l) /\ Pending(m) = Pending(l)
      /\ Reported(m) = Reported(l)
      /\ \A run : InvocationsOf(m, run) = InvocationsOf(l, run)
  BY DEF Invocations, Pending, Reported, Terminal, InvocationsOf
<1>2. Tokens(m) = Tokens(l)
  BY <1>1 DEF Tokens
<1> QED BY <1>1, <1>2 DEF WithinLimits

LEMMA LedgerBasics ==
  ASSUME NEW calls, IsFiniteSet(calls), NEW l \in Ledgers(calls)
  PROVE  /\ Invocations(l) \subseteq calls /\ IsFiniteSet(Invocations(l))
         /\ Cardinality(Invocations(l)) \in Nat
         /\ \A run : IsFiniteSet(InvocationsOf(l, run))
                     /\ Cardinality(InvocationsOf(l, run)) \in Nat
         /\ \A i \in Invocations(l) : l.calls[i] \in Entries
         /\ l.calls \in [Invocations(l) -> Entries]
         /\ IsFiniteSet(Reported(l)) /\ \A i \in Reported(l) : TokensOf(l)[i] \in Nat
         /\ Tokens(l) \in Nat
<1>1. /\ Invocations(l) \subseteq calls /\ l.calls \in [Invocations(l) -> Entries]
  BY DEF Invocations, Ledgers
<1>2. IsFiniteSet(Invocations(l)) /\ Cardinality(Invocations(l)) \in Nat
  BY <1>1, FS_Subset, FS_CardinalityType
<1>3. \A run : IsFiniteSet(InvocationsOf(l, run)) /\ Cardinality(InvocationsOf(l, run)) \in Nat
  <2> TAKE run
  <2>1. InvocationsOf(l, run) \in SUBSET Invocations(l)
    BY DEF InvocationsOf
  <2> QED BY <1>2, <2>1, FS_Subset, FS_CardinalityType
<1>4. IsFiniteSet(Reported(l))
  <2>1. Reported(l) \in SUBSET Invocations(l)
    BY DEF Reported, Terminal
  <2> QED BY <1>2, <2>1, FS_Subset
<1>5. \A i \in Reported(l) : TokensOf(l)[i] \in Nat
  BY <1>1, CampaignConstants DEF Reported, Terminal, TokensOf, Entries
<1>6. Tokens(l) \in Nat
  BY <1>4, <1>5, TokensIsSum, SumIsNatural
<1> QED BY <1>1, <1>2, <1>3, <1>4, <1>5, <1>6

(* A stop is the only thing that ForceStop and Reopen add. *)
LEMMA ForcedStop ==
  ASSUME NEW calls, NEW l \in Ledgers(calls), NEW b, NEW reason, IsGlobalStop(b, l, reason)
  PROVE  ForceStop(b, l, reason) \in Ledgers(calls) /\ ForceStop(b, l, reason).calls = l.calls
<1>1. reason \in Stops
  BY DEF IsGlobalStop, Stops, Reasons
<1>2. [l EXCEPT !.stop = reason] \in Ledgers(calls) /\ [l EXCEPT !.stop = reason].calls = l.calls
  BY <1>1 DEF Ledgers
<1> QED BY <1>2 DEF ForceStop

LEMMA Reopened ==
  ASSUME NEW calls, NEW l \in Ledgers(calls), NEW b
  PROVE  Reopen(b, l) \in Ledgers(calls) /\ Reopen(b, l).calls = l.calls
<1>1. "provider_invocation_incomplete" \in Stops
  BY DEF Stops, Reasons
<1>2. /\ [l EXCEPT !.stop = "provider_invocation_incomplete"] \in Ledgers(calls)
      /\ [l EXCEPT !.stop = "provider_invocation_incomplete"].calls = l.calls
  BY <1>1 DEF Ledgers
<1> QED BY <1>2 DEF Reopen

(* A call is admitted when none is open and every limit has room. *)
LEMMA AdmissionMeans ==
  ASSUME NEW calls, IsFiniteSet(calls), NEW l \in Ledgers(calls), NEW b \in Bindings,
         NEW run, NEW turn, Admission(b, l, run, turn) = "admitted"
  PROVE  /\ <<run, turn>> \notin Invocations(l) /\ Pending(l) = {}
         /\ Cardinality(Invocations(l)) < b.ceiling
         /\ Cardinality(InvocationsOf(l, run)) < b.perRun
         /\ b.threshold > 0 => Tokens(l) < b.threshold
<1>1. /\ Cardinality(Invocations(l)) \in Nat /\ Cardinality(InvocationsOf(l, run)) \in Nat
      /\ Tokens(l) \in Nat
      /\ b.ceiling \in Nat /\ b.perRun \in Nat /\ b.threshold \in Nat
  BY LedgerBasics DEF Bindings
<1>2. /\ <<run, turn>> \notin Invocations(l) /\ StopReason(b, l) = "none"
      /\ ~(Cardinality(Invocations(l)) >= b.ceiling)
      /\ ~(Cardinality(InvocationsOf(l, run)) >= b.perRun)
  <2>1. StopReason(b, l) # "admitted"
    BY DEF StopReason, Ledgers, Stops, Reasons
  <2> QED BY <2>1 DEF Admission
<1>3. /\ Pending(l) = {} /\ ~ThresholdExhausted(b, l)
      /\ ~(b.threshold > 0 /\ ~UsageComplete(l))
  BY <1>2 DEF StopReason
<1>4. b.threshold > 0 => Tokens(l) < b.threshold
  <2> SUFFICES ASSUME b.threshold > 0 PROVE Tokens(l) < b.threshold
    OBVIOUS
  <2>1. CASE Reported(l) = {}
    <3>1. Tokens(l) = 0
      <4>1. SumOver(TokensOf(l), {}) = 0
        BY FS_EmptySet, SumSteps
      <4> QED BY <2>1, <4>1, TokensIsSum
    <3> QED BY <1>1, <3>1
  <2>2. CASE Reported(l) # {}
    BY <1>1, <1>3, <2>2 DEF ThresholdExhausted
  <2> QED BY <2>1, <2>2
<1> QED BY <1>1, <1>2, <1>3, <1>4

LEMMA AdmitKeeps ==
  ASSUME NEW calls, IsFiniteSet(calls), NEW l \in Ledgers(calls), NEW b \in Bindings,
         NEW run \in Nat, NEW turn, <<run, turn>> \in calls,
         Admission(b, l, run, turn) = "admitted", WithinLimits(b, l)
  PROVE  LET m == Admit(l, run, turn)
         IN  /\ m \in Ledgers(calls) /\ WithinLimits(b, m)
             /\ Invocations(m) = Invocations(l) \cup {<<run, turn>>}
             /\ Pending(m) = {<<run, turn>>} /\ Pending(l) = {}
             /\ <<run, turn>> \notin Invocations(l)
             /\ m.calls[<<run, turn>>].status = "admitted"
             /\ \A i \in Invocations(l) : m.calls[i] = l.calls[i]
<1> DEFINE c == <<run, turn>>
           m == Admit(l, run, turn)
           table == [i \in DOMAIN l.calls \cup {c} |->
                       IF i = c THEN [status |-> "admitted", tokens |-> Unreported]
                       ELSE l.calls[i]]
<1>1. /\ c \notin Invocations(l) /\ Pending(l) = {}
      /\ Cardinality(Invocations(l)) < b.ceiling
      /\ Cardinality(InvocationsOf(l, run)) < b.perRun
      /\ b.threshold > 0 => Tokens(l) < b.threshold
  BY AdmissionMeans
<1>2. l.calls \in [Invocations(l) -> Entries] /\ Invocations(l) \subseteq calls
  BY LedgerBasics
<1>3. /\ DOMAIN table = Invocations(l) \cup {c} /\ table \in [Invocations(l) \cup {c} -> Entries]
      /\ table[c].status = "admitted" /\ \A i \in Invocations(l) : table[i] = l.calls[i]
  BY <1>1, <1>2 DEF Invocations, Entries
<1>4. m = [l EXCEPT !.calls = table]
  BY DEF Admit
<1>5. m \in Ledgers(calls) /\ m.calls = table
  <2>1. Invocations(l) \cup {c} \in SUBSET calls
    BY <1>2
  <2> HIDE DEF table, c, m
  <2>2. table \in UNION {[D -> Entries] : D \in SUBSET calls}
    BY <1>3, <2>1
  <2> QED BY <1>4, <2>2 DEF Ledgers
<1>6. c[1] = run
  OBVIOUS
<1> HIDE DEF table, c, m
<1>7. Invocations(m) = Invocations(l) \cup {c}
  BY <1>3, <1>5 DEF Invocations
<1>8. Pending(m) = {c} /\ Terminal(m) = Terminal(l)
  BY <1>1, <1>3, <1>5, <1>7 DEF Pending, Terminal
<1>9. Reported(m) = Reported(l)
  BY <1>3, <1>5, <1>8 DEF Reported, Terminal
<1>10. Tokens(m) = Tokens(l)
  <2>1. \A i \in Reported(l) : TokensOf(m)[i] = TokensOf(l)[i]
    BY <1>3, <1>5, <1>7 DEF TokensOf, Reported, Terminal
  <2>2. IsFiniteSet(Reported(l))
    BY LedgerBasics
  <2>3. SumOver(TokensOf(m), Reported(l)) = SumOver(TokensOf(l), Reported(l))
    BY <2>1, <2>2, SumOfEqual
  <2> QED BY <1>5, <1>9, <2>3, TokensIsSum
<1>11. WithinLimits(b, m)
  <2>1. Cardinality(Invocations(m)) = Cardinality(Invocations(l)) + 1
    BY <1>1, <1>7, LedgerBasics, FS_AddElement
  <2>2. InvocationsOf(m, run) = InvocationsOf(l, run) \cup {c} /\ c \notin InvocationsOf(l, run)
    BY <1>1, <1>6, <1>7 DEF InvocationsOf
  <2>3. Cardinality(InvocationsOf(m, run)) = Cardinality(InvocationsOf(l, run)) + 1
    BY <2>2, LedgerBasics, FS_AddElement
  <2>4. \A r \in Nat : r # run => InvocationsOf(m, r) = InvocationsOf(l, r)
    BY <1>6, <1>7 DEF InvocationsOf
  <2>5. /\ Cardinality(Invocations(l)) \in Nat /\ Cardinality(InvocationsOf(l, run)) \in Nat
        /\ Tokens(l) \in Nat
        /\ b.ceiling \in Nat /\ b.perRun \in Nat /\ b.threshold \in Nat
    BY LedgerBasics DEF Bindings
  <2>6. Max(Usage) \in Nat
    BY CampaignConstants, GreatestNumber
  <2>7. \A r \in Nat : Cardinality(InvocationsOf(m, r)) <= b.perRun
    BY <1>1, <2>3, <2>4, <2>5 DEF WithinLimits
  <2>8. b.threshold > 0 => Tokens(m) < b.threshold + Max(Usage) /\ Tokens(m) < b.threshold
    BY <1>1, <1>10, <2>5, <2>6
  <2> QED BY <1>1, <1>8, <2>1, <2>5, <2>7, <2>8 DEF WithinLimits
<1> QED BY <1>1, <1>3, <1>5, <1>7, <1>8, <1>11 DEF c, m

LEMMA CompleteKeeps ==
  ASSUME NEW calls, IsFiniteSet(calls), NEW l \in Ledgers(calls), NEW b \in Bindings,
         NEW run, NEW turn, <<run, turn>> \in Pending(l),
         NEW status \in {"completed", "failed"}, NEW tokens \in Usage \cup {Unreported},
         WithinLimits(b, l)
  PROVE  LET m == Complete(b, l, run, turn, status, tokens)
         IN  /\ m \in Ledgers(calls) /\ WithinLimits(b, m)
             /\ Invocations(m) = Invocations(l) /\ Pending(m) = {}
             /\ m.calls[<<run, turn>>].status = status
             /\ \A i \in Invocations(l) : i # <<run, turn>> => m.calls[i] = l.calls[i]
<1> DEFINE c == <<run, turn>>
           m == Complete(b, l, run, turn, status, tokens)
           entry == [status |-> status, tokens |-> tokens]
           table == [l.calls EXCEPT ![c] = entry]
           done == [l EXCEPT !.calls = table]
<1>1. /\ l.calls \in [Invocations(l) -> Entries] /\ Invocations(l) \subseteq calls
      /\ c \in Invocations(l)
  BY LedgerBasics DEF Pending
<1>2. entry \in Entries /\ entry.status = status /\ entry.tokens = tokens
  BY DEF Entries
<1> HIDE DEF entry
<1>3. /\ table \in [Invocations(l) -> Entries] /\ table[c] = entry
      /\ \A i \in Invocations(l) : i # c => table[i] = l.calls[i]
  BY <1>1, <1>2
<1>4. done = [l EXCEPT !.calls[c] = entry]
  BY DEF Ledgers
<1>5. done \in Ledgers(calls) /\ done.calls = table
  <2> HIDE DEF table, c
  <2>1. table \in UNION {[D -> Entries] : D \in SUBSET calls}
    BY <1>1, <1>3
  <2> QED BY <2>1 DEF Ledgers
<1>6. m \in Ledgers(calls) /\ m.calls = done.calls
  <2>1. m = done \/ m = [done EXCEPT !.stop = StopReason(b, done)]
    BY <1>4 DEF Complete, entry
  <2> HIDE DEF done, table, m
  <2>2. StopReason(b, done) \in Stops
    BY <1>5 DEF StopReason, Stops, Reasons, Ledgers
  <2> QED BY <1>5, <2>1, <2>2 DEF Ledgers
<1> HIDE DEF table, done, c, m
<1>7. Invocations(done) = Invocations(l)
  BY <1>1, <1>3, <1>5 DEF Invocations
<1>8. Pending(done) = {} /\ Pending(l) = {c}
  <2>1. Pending(l) = {c}
    BY DEF WithinLimits, c
  <2>2. \A i \in Invocations(l) : i # c => l.calls[i].status # "admitted"
    BY <2>1 DEF Pending
  <2> QED BY <1>2, <1>3, <1>5, <1>7, <2>1, <2>2 DEF Pending
<1>9. Terminal(done) = Terminal(l) \cup {c} /\ c \notin Terminal(l)
  BY <1>1, <1>7, <1>8 DEF Terminal
<1>10. Reported(done) = Reported(l) \cup (IF tokens = Unreported THEN {} ELSE {c})
       /\ c \notin Reported(l)
  <2>1. \A i \in Terminal(l) : done.calls[i] = l.calls[i]
    BY <1>3, <1>5, <1>9 DEF Terminal
  <2>2. done.calls[c].tokens = tokens
    BY <1>2, <1>3, <1>5
  <2> QED BY <1>9, <2>1, <2>2 DEF Reported
<1>11. \A i \in Reported(l) : TokensOf(done)[i] = TokensOf(l)[i]
  BY <1>3, <1>5, <1>7, <1>10 DEF TokensOf, Reported, Terminal
<1>12. IsFiniteSet(Reported(l)) /\ IsFiniteSet(Reported(done))
       /\ \A i \in Reported(done) : TokensOf(done)[i] \in Nat
  BY <1>5, LedgerBasics
<1>13. SumOver(TokensOf(done), Reported(l)) = Tokens(l)
  BY <1>11, <1>12, SumOfEqual, TokensIsSum
<1>14. Tokens(done) = SumOver(TokensOf(done), Reported(done))
  BY <1>5, TokensIsSum
<1>15. Max(Usage) \in Nat /\ \A y \in Usage : y <= Max(Usage)
  BY CampaignConstants, GreatestNumber
<1>16. Tokens(done) <= Tokens(l) + Max(Usage)
  <2>1. Tokens(l) \in Nat
    BY LedgerBasics
  <2>2. CASE tokens = Unreported
    BY <1>10, <1>13, <1>14, <1>15, <2>1, <2>2
  <2>3. CASE tokens # Unreported
    <3>1. tokens \in Usage /\ tokens \in Nat
      BY <2>3, CampaignConstants
    <3>2. Reported(done) \ {c} = Reported(l) /\ c \in Reported(done)
      BY <1>10, <2>3
    <3>3. Tokens(done) = TokensOf(done)[c] + Tokens(l)
      BY <1>12, <1>13, <1>14, <3>2, SumSplits
    <3>4. TokensOf(done)[c] = tokens
      BY <1>1, <1>2, <1>3, <1>5, <1>7 DEF TokensOf
    <3> QED BY <1>15, <2>1, <3>1, <3>3, <3>4
  <2> QED BY <2>2, <2>3
<1>17. WithinLimits(b, done)
  <2>1. \A r : InvocationsOf(done, r) = InvocationsOf(l, r)
    BY <1>7 DEF InvocationsOf
  <2>2. b.threshold > 0 => Tokens(done) < b.threshold + Max(Usage)
    <3>1. Tokens(l) \in Nat /\ Tokens(done) \in Nat /\ b.threshold \in Nat
      BY <1>5, LedgerBasics DEF Bindings
    <3> QED BY <1>8, <1>15, <1>16, <3>1 DEF WithinLimits
  <2> QED BY <1>7, <1>8, <2>1, <2>2 DEF WithinLimits
<1>18. WithinLimits(b, m) /\ Invocations(m) = Invocations(l) /\ Pending(m) = {}
  BY <1>5, <1>6, <1>7, <1>8, <1>17, StopChangesNothing
<1> QED BY <1>1, <1>2, <1>3, <1>5, <1>6, <1>18 DEF c, m

-----------------------------------------------------------------------------
(* The state of a campaign *)

PlannedCalls(id) == Planned(id) \X Turns

Papers == [status : {"none", "torn", "completed", "failed", "collision"},
           good : BOOLEAN, calls : Nat]

Conclusions == {"none", "torn", "PREFER_WORKFLOW", "NO_GO", "NOT_EMITTED", "KEEP_EXPERIMENTAL",
                "ADOPT_AGENT", "passed", "blocked", "failed"}

ReportSet == [conclusion : Conclusions, calls : Nat, recorded : Nat]

RunStages == {"setup", "select", "call", "wait", "corrected", "save", "write"}
Stages == RunStages \cup Ended \cup {"ready", "report", "publish"}

Mines == UNION {[D -> Papers] : D \in SUBSET Planned("canary")}

Processes ==
    [id : {"none", "formal", "contingency", "locked", "canary"}, at : Stages,
     seen : SUBSET Nat, mine : Mines,
     run : Nat, turn : 0..MaxTurns, paper : Papers, report : ReportSet]

(* f is a function with domain S, whatever the ranges of its values. *)
Table(f, S) == f = [x \in S |-> f[x]]

CampaignType ==
    /\ identities \in {Development, {"locked"}, {"canary"}}
    /\ Table(package, identities) /\ \A id \in identities : package[id] \in BOOLEAN
    /\ Table(ledger, identities) /\ \A id \in identities : ledger[id] \in Ledgers(PlannedCalls(id))
    /\ Table(records, identities) /\ \A id \in identities : records[id] \in [Planned(id) -> Papers]
    /\ Table(reports, identities) /\ \A id \in identities : reports[id] \in ReportSet
    /\ Table(sent, identities) /\ \A id \in identities : sent[id] \in [PlannedCalls(id) -> Nat]
    /\ proc \in [Procs -> Processes]

(* A completed run of the agent asked the provider. *)
Founded(id, run, paper) == paper.status = "completed" /\ IsAgent(id, run) => CallsOf(id, run) # {}

(* Every call is in the ledger before it is made, and complete after. *)
CallsAreHeld ==
    \A id \in identities :
        /\ WithinLimits(Binding(id), ledger[id])
        /\ \A call \in PlannedCalls(id) :
             /\ sent[id][call] <= 1
             /\ sent[id][call] > 0 => call \in Invocations(ledger[id])
        /\ \A call \in Invocations(ledger[id]) :
             ledger[id].calls[call].status = "completed" => sent[id][call] > 0
        /\ \A run \in Planned(id) : Founded(id, run, records[id][run])
        /\ id \in unseen => Calls(id) # {}

(* Where a process stands, against the ledger and the calls. *)
Stands(r) ==
    /\ r.id \in identities \cup {"none"} /\ (r.at # "down" => r.id # "none")
    /\ r.at \in RunStages => r.run \in Planned(r.id)
    /\ r.at = "setup" => r.turn = 0
    /\ r.at \in {"call", "wait"} => r.turn > 0 /\ <<r.run, r.turn>> \in Pending(ledger[r.id])
    /\ r.at = "call" => sent[r.id][<<r.run, r.turn>>] = 0
    /\ r.at = "wait" => sent[r.id][<<r.run, r.turn>>] = 1
    /\ r.at \in {"select", "corrected"} /\ r.turn > 0 => sent[r.id][<<r.run, r.turn>>] > 0
    /\ r.at = "corrected" => r.turn > 0
    /\ r.at \in {"save", "write"} =>
         r.paper.status \in {"completed", "failed", "collision"} /\ Founded(r.id, r.run, r.paper)
    /\ r.id = "canary" => \A run \in DOMAIN r.mine : Founded("canary", run, r.mine[run])

Asks(p) == proc[p].at \in {"call", "wait"}

OneAsks == \A p, q \in Procs : Asks(p) /\ Asks(q) /\ proc[p].id = proc[q].id => p = q

CallsInv ==
    /\ CampaignType /\ CallsAreHeld /\ OneAsks /\ unseen \subseteq identities
    /\ \A p \in Procs : Stands(proc[p])

LEMMA PlannedIsFinite ==
  \A id : Planned(id) \subseteq Nat /\ IsFiniteSet(Planned(id))
          /\ PlannedCalls(id) \subseteq Nat \X Turns /\ IsFiniteSet(PlannedCalls(id))
<1> TAKE id
<1>1. PICK n \in Nat : Planned(id) = 1..n
  BY CampaignConstants DEF Planned
<1>2. MaxTurns \in Nat
  BY CampaignConstants
<1>3. IsFiniteSet(1..n) /\ IsFiniteSet(1..MaxTurns)
  <2>1. 1 \in Int /\ n \in Int /\ MaxTurns \in Int
    BY <1>2
  <2> QED BY ONLY <2>1, FS_Interval
<1>4. Planned(id) \subseteq Nat /\ IsFiniteSet(Planned(id)) /\ IsFiniteSet(Turns)
  BY <1>1, <1>3 DEF Turns
<1> QED BY <1>4, FS_Product DEF PlannedCalls

LEMMA BindingIsTyped == \A id : Binding(id) \in Bindings
  BY CampaignConstants DEF Binding, Bindings

LEMMA AbsentIsTyped ==
  /\ Absent \in Processes /\ Absent.at = "down" /\ Absent.id = "none" /\ DOMAIN Absent.mine = {}
  /\ NoPaper \in Papers /\ Torn \in Papers /\ NoReport \in ReportSet /\ TornReport \in ReportSet
<1>1. /\ NoPaper \in Papers /\ Torn \in Papers
      /\ NoReport \in ReportSet /\ TornReport \in ReportSet
  BY DEF NoPaper, Torn, NoReport, TornReport, Papers, ReportSet, Conclusions
<1>2. <<>> \in Mines /\ DOMAIN <<>> = {}
  <2>1. <<>> \in [{} -> Papers] /\ {} \in SUBSET Planned("canary")
    OBVIOUS
  <2> QED BY <2>1 DEF Mines
<1>3. 0 \in 0..MaxTurns /\ "down" \in Stages
  BY CampaignConstants DEF Stages, Ended
<1> QED BY <1>1, <1>2, <1>3 DEF Absent, Processes

LEMMA AtIsTyped ==
  ASSUME NEW id \in {"none", "formal", "contingency", "locked", "canary"}, NEW at \in Stages,
         NEW seen \in SUBSET Nat,
         NEW mine \in Mines
  PROVE  /\ At(id, at, seen, mine) \in Processes
         /\ At(id, at, seen, mine).id = id /\ At(id, at, seen, mine).at = at
         /\ At(id, at, seen, mine).seen = seen /\ At(id, at, seen, mine).mine = mine
<1>1. Absent \in Processes
  BY AbsentIsTyped
<1> QED BY <1>1 DEF At, Processes

LEMMA CallsInvInit == CampaignInit => CallsInv
<1> SUFFICES ASSUME CampaignInit PROVE CallsInv
  OBVIOUS
<1>1. EmptyLedger.calls = <<>> /\ \A id : EmptyLedger \in Ledgers(PlannedCalls(id))
  <2>1. <<>> \in [{} -> Entries] /\ "none" \in Stops
    BY DEF Stops
  <2> QED BY <2>1 DEF EmptyLedger, Ledgers
<1>2. Invocations(EmptyLedger) = {}
  BY <1>1 DEF Invocations
<1>3. CampaignType
  BY <1>1, AbsentIsTyped DEF CampaignInit, CampaignType, Table, PlannedCalls
<1>4. \A id : WithinLimits(Binding(id), EmptyLedger)
  <2> TAKE id
  <2>1. Pending(EmptyLedger) = {} /\ \A run : InvocationsOf(EmptyLedger, run) = {}
    BY <1>2 DEF Pending, InvocationsOf
  <2>2. Reported(EmptyLedger) = {}
    BY <1>2 DEF Reported, Terminal
  <2>3. Tokens(EmptyLedger) = 0
    <3>1. Tokens(EmptyLedger) = SumOver(TokensOf(EmptyLedger), {})
      BY <1>1, <2>2, TokensIsSum, PlannedIsFinite
    <3>2. SumOver(TokensOf(EmptyLedger), {}) = 0
      BY FS_EmptySet, SumSteps
    <3> QED BY <3>1, <3>2
  <2>4. Max(Usage) \in Nat
    BY CampaignConstants, GreatestNumber
  <2> QED BY <1>2, <2>1, <2>3, <2>4, FS_EmptySet, BindingIsTyped DEF WithinLimits, Bindings
<1>5. CallsAreHeld
  BY <1>2, <1>4 DEF CampaignInit, CallsAreHeld, Founded, PlannedCalls, NoPaper
<1>6. \A p \in Procs : proc[p] = Absent
  BY DEF CampaignInit
<1>7. \A p \in Procs : Stands(proc[p]) /\ ~Asks(p)
  BY <1>6, AbsentIsTyped DEF Stands, Asks, RunStages
<1> QED BY <1>3, <1>5, <1>7 DEF CampaignInit, CallsInv, OneAsks

(* What else a step must keep when it makes and answers no call. *)
PapersKeep ==
    /\ Table(records', identities) /\ Table(reports', identities)
    /\ \A id \in identities :
         /\ records'[id] \in [Planned(id) -> Papers] /\ reports'[id] \in ReportSet
         /\ \A run \in Planned(id) : Founded(id, run, records'[id][run])

LEMMA QuietKeeps ==
  ASSUME CallsInv, NEW p \in Procs,
         proc' \in [Procs -> Processes], \A q \in Procs : q # p => proc'[q] = proc[q],
         Stands(proc'[p]), ~Asks(p)', UNCHANGED <<identities, package, sent>>, PapersKeep,
         Table(ledger', identities),
         \A id \in identities : /\ ledger'[id] \in Ledgers(PlannedCalls(id))
                                /\ ledger'[id].calls = ledger[id].calls,
         unseen' \subseteq identities, \A id \in unseen' : id \in unseen \/ Calls(id) # {}
  PROVE  CallsInv'
<1>1. CampaignType'
  BY DEF CallsInv, CampaignType, PapersKeep, PlannedCalls
<1>2. \A id \in identities :
        /\ Invocations(ledger'[id]) = Invocations(ledger[id])
        /\ Pending(ledger'[id]) = Pending(ledger[id])
        /\ WithinLimits(Binding(id), ledger'[id])
  BY StopChangesNothing DEF CallsInv, CampaignType, CallsAreHeld
<1>3. /\ \A id : Calls(id)' = Calls(id)
      /\ \A id, run : CallsOf(id, run)' = CallsOf(id, run)
      /\ \A id, run, paper : Founded(id, run, paper)' <=> Founded(id, run, paper)
  BY DEF Calls, CallsOf, Founded
<1>4. CallsAreHeld'
  BY <1>2, <1>3 DEF CallsInv, CallsAreHeld, PapersKeep
<1>5. OneAsks'
  BY DEF CallsInv, OneAsks, Asks
<1>6. ASSUME NEW r, Stands(r) PROVE Stands(r)'
  BY <1>2, <1>3, <1>6 DEF Stands
<1>7. \A q \in Procs : Stands(proc'[q])
  BY DEF CallsInv
<1> QED BY <1>1, <1>4, <1>5, <1>6, <1>7 DEF CallsInv

LEMMA ProcessMoves ==
  ASSUME CallsInv, NEW p \in Procs,
         proc' \in [Procs -> Processes], \A q \in Procs : q # p => proc'[q] = proc[q],
         Stands(proc'[p]), ~Asks(p)',
         UNCHANGED <<identities, package, ledger, records, reports, sent, unseen>>
  PROVE  CallsInv'
<1>1. PapersKeep
  BY DEF PapersKeep, CallsInv, CampaignType, CallsAreHeld
<1>2. /\ Table(ledger', identities)
      /\ \A id \in identities : /\ ledger'[id] \in Ledgers(PlannedCalls(id))
                                /\ ledger'[id].calls = ledger[id].calls
  BY DEF CallsInv, CampaignType
<1>3. unseen' \subseteq identities /\ \A id \in unseen' : id \in unseen \/ Calls(id) # {}
  BY DEF CallsInv
<1> QED BY <1>1, <1>2, <1>3, QuietKeeps

(* The end of a run, against a ledger whose stop may have changed. *)
LEMMA EndsMeans ==
  ASSUME CallsInv, NEW p \in Procs, NEW run \in Planned(proc[p].id),
         NEW status \in {"completed", "failed", "collision"}, NEW good \in BOOLEAN,
         proc[p].id \in identities, ledger'[proc[p].id] \in Ledgers(PlannedCalls(proc[p].id)),
         Ends(p, run, status, good),
         status = "completed" /\ IsAgent(proc[p].id, run) => CallsOf(proc[p].id, run) # {}
  PROVE  /\ proc' \in [Procs -> Processes] /\ \A q \in Procs : q # p => proc'[q] = proc[q]
         /\ Stands(proc'[p]) /\ ~Asks(p)'
         /\ proc'[p].at = "save" /\ proc'[p].id = proc[p].id /\ proc'[p].run = run
         /\ proc'[p].seen = proc[p].seen /\ proc'[p].mine = proc[p].mine
         /\ proc'[p].paper = Record(ledger'[proc[p].id], run, status, good)
<1> DEFINE paper == Record(ledger'[proc[p].id], run, status, good)
           r == [proc[p] EXCEPT !.at = "save", !.run = run, !.paper = paper]
<1>1. proc \in [Procs -> Processes] /\ proc[p] \in Processes
  BY DEF CallsInv, CampaignType
<1>2. proc' = [proc EXCEPT ![p] = r]
  BY <1>1 DEF Ends
<1>3. paper \in Papers /\ paper.status = status
  BY LedgerBasics, PlannedIsFinite DEF Record, AttemptedBy, Papers
<1>4. run \in Nat /\ "save" \in Stages
  BY PlannedIsFinite DEF Stages, RunStages
<1> HIDE DEF paper
<1>5. /\ r \in Processes /\ r.at = "save" /\ r.id = proc[p].id /\ r.run = run
      /\ r.seen = proc[p].seen /\ r.mine = proc[p].mine /\ r.paper = paper
  BY <1>1, <1>3, <1>4 DEF Processes
<1> HIDE DEF r
<1>6. proc' \in [Procs -> Processes] /\ proc'[p] = r /\ \A q \in Procs : q # p => proc'[q] = proc[q]
  BY <1>1, <1>2, <1>5
<1>7. Stands(proc[p])
  BY DEF CallsInv
<1>8. Stands(r)
  <2>1. "none" \notin identities
    BY DEF CallsInv, CampaignType, Development
  <2>2. Founded(r.id, r.run, r.paper) /\ r.paper.status \in {"completed", "failed", "collision"}
    BY <1>3, <1>5 DEF Founded
  <2> QED BY <1>5, <1>7, <2>1, <2>2 DEF Stands, RunStages
<1> QED BY <1>5, <1>6, <1>8 DEF Asks, paper

(* A step that only moves the process to another stage of its run. *)
LEMMA StageChanges ==
  ASSUME CallsInv, NEW p \in Procs, NEW at \in Stages, proc' = [proc EXCEPT ![p].at = at]
  PROVE  /\ proc' \in [Procs -> Processes] /\ \A q \in Procs : q # p => proc'[q] = proc[q]
         /\ proc'[p].at = at /\ proc'[p].id = proc[p].id /\ proc'[p].run = proc[p].run
         /\ proc'[p].turn = proc[p].turn /\ proc'[p].seen = proc[p].seen
         /\ proc'[p].mine = proc[p].mine /\ proc'[p].paper = proc[p].paper
         /\ proc'[p].report = proc[p].report
<1> DEFINE r == [proc[p] EXCEPT !.at = at]
<1>1. proc \in [Procs -> Processes] /\ proc[p] \in Processes
  BY DEF CallsInv, CampaignType
<1>2. proc' = [proc EXCEPT ![p] = r]
  BY <1>1
<1>3. /\ r \in Processes /\ r.at = at /\ r.id = proc[p].id /\ r.run = proc[p].run
      /\ r.turn = proc[p].turn /\ r.seen = proc[p].seen
      /\ r.mine = proc[p].mine /\ r.paper = proc[p].paper /\ r.report = proc[p].report
  BY <1>1 DEF Processes
<1> HIDE DEF r
<1> QED BY <1>1, <1>2, <1>3

LEMMA AtSays ==
  \A id, at, seen, mine : LET r == At(id, at, seen, mine)
                          IN  r.id = id /\ r.at = at /\ r.seen = seen /\ r.mine = mine
  BY DEF At, Absent

(* A step that begins a stage with nothing but what is named. *)
LEMMA Enters ==
  ASSUME CallsInv, NEW p \in Procs, NEW id \in identities \cup {"none"},
         NEW at \in Stages \ RunStages, NEW seen \in SUBSET Nat,
         NEW mine \in Mines,
         id = "none" => at = "down",
         id = "canary" => \A run \in DOMAIN mine : Founded("canary", run, mine[run]),
         proc' = [proc EXCEPT ![p] = At(id, at, seen, mine)]
  PROVE  /\ proc' \in [Procs -> Processes] /\ \A q \in Procs : q # p => proc'[q] = proc[q]
         /\ Stands(proc'[p]) /\ ~Asks(p)'
         /\ proc'[p].at = at /\ proc'[p].id = id /\ proc'[p].seen = seen /\ proc'[p].mine = mine
<1> DEFINE r == At(id, at, seen, mine)
<1>1. proc \in [Procs -> Processes]
  BY DEF CallsInv, CampaignType
<1>2. id \in {"none", "formal", "contingency", "locked", "canary"}
  BY DEF CallsInv, CampaignType, Development
<1>3. r \in Processes /\ r.id = id /\ r.at = at /\ r.seen = seen /\ r.mine = mine
  BY <1>2, AtIsTyped
<1> HIDE DEF r
<1>4. proc' \in [Procs -> Processes] /\ proc'[p] = r /\ \A q \in Procs : q # p => proc'[q] = proc[q]
  BY <1>1, <1>3 DEF r
<1>5. Stands(r)
  BY <1>3 DEF Stands, RunStages
<1> QED BY <1>3, <1>4, <1>5 DEF Asks, RunStages

LEMMA NothingKept == <<>> \in Mines /\ DOMAIN <<>> = {}
<1>1. <<>> \in [{} -> Papers] /\ {} \in SUBSET Planned("canary")
  OBVIOUS
<1> QED BY <1>1 DEF Mines

LEMMA LoadedIsStored == \A id : Loaded(id) \in SUBSET Nat
  BY PlannedIsFinite DEF Loaded, Stored

LEMMA AuthorizeKeeps == ASSUME CallsInv, NEW i \in identities, Authorize(i) PROVE CallsInv'
<1>1. package' = [package EXCEPT ![i] = TRUE]
      /\ UNCHANGED <<identities, ledger, records, reports, proc, sent, unseen>>
  BY DEF Authorize, ghosts
<1>2. Table(package', identities') /\ \A id \in identities' : package'[id] \in BOOLEAN
  <2>1. Table(package, identities) /\ \A id \in identities : package[id] \in BOOLEAN
    BY DEF CallsInv, CampaignType
  <2> QED BY <1>1, <2>1 DEF Table
<1>3. CampaignType'
  BY <1>1, <1>2 DEF CallsInv, CampaignType, PlannedCalls
<1>4. CallsAreHeld' /\ OneAsks' /\ \A r : Stands(r)' <=> Stands(r)
  BY <1>1 DEF CallsInv, CallsAreHeld, OneAsks, Asks, Stands, Founded, CallsOf, Calls
<1> QED BY <1>1, <1>3, <1>4 DEF CallsInv

LEMMA StartKeepsCalls ==
  ASSUME CallsInv, NEW p \in Procs, NEW i \in identities, Start(p, i) PROVE CallsInv'
<1>1. UNCHANGED <<identities, package, records, reports, sent, unseen>>
  BY DEF Start
<1>2. PICK at \in {"failed", "done", "ready"}, seen \in SUBSET Nat :
        proc' = [proc EXCEPT ![p] = At(i, at, seen, <<>>)]
  BY LoadedIsStored DEF Start
<1>3. ledger' = ledger \/ ledger' = [ledger EXCEPT ![i] = Reopen(Binding(i), @)]
  BY DEF Start
<1>4. at \in Stages \ RunStages
  BY DEF Stages, RunStages, Ended
<1>5. /\ proc' \in [Procs -> Processes] /\ \A q \in Procs : q # p => proc'[q] = proc[q]
      /\ Stands(proc'[p]) /\ ~Asks(p)'
  <2>1. /\ i \in identities \cup {"none"} /\ i # "none"
        /\ \A run \in DOMAIN <<>> : Founded("canary", run, <<>>[run])
    BY NothingKept DEF CallsInv, CampaignType, Development
  <2> QED BY <1>2, <1>4, <2>1, NothingKept, Enters
<1>6. /\ Table(ledger', identities)
      /\ \A id \in identities : /\ ledger'[id] \in Ledgers(PlannedCalls(id))
                                /\ ledger'[id].calls = ledger[id].calls
  <2>1. CASE ledger' = ledger
    BY <2>1 DEF CallsInv, CampaignType
  <2>2. CASE ledger' = [ledger EXCEPT ![i] = Reopen(Binding(i), @)]
    <3> DEFINE m == Reopen(Binding(i), ledger[i])
    <3>1. m \in Ledgers(PlannedCalls(i)) /\ m.calls = ledger[i].calls
      BY Reopened DEF CallsInv, CampaignType
    <3>2. ledger' = [ledger EXCEPT ![i] = m]
      BY <2>2
    <3> HIDE DEF m
    <3>3. Table(ledger, identities)
          /\ \A id \in identities : ledger[id] \in Ledgers(PlannedCalls(id))
      BY DEF CallsInv, CampaignType
    <3>4. /\ Table(ledger', identities) /\ ledger'[i] = m
          /\ \A id \in identities : id # i => ledger'[id] = ledger[id]
      BY <3>2, <3>3 DEF Table
    <3> QED BY <3>1, <3>3, <3>4
  <2> QED BY <1>3, <2>1, <2>2
<1>7. PapersKeep
  BY <1>1 DEF PapersKeep, CallsInv, CampaignType, CallsAreHeld
<1> QED BY <1>1, <1>5, <1>6, <1>7, QuietKeeps DEF CallsInv

LEMMA NextRunKeeps == ASSUME CallsInv, NEW p \in Procs, NextRun(p) PROVE CallsInv'
<1> DEFINE id == proc[p].id
           run == Min(Left(p))
<1>1. UNCHANGED <<identities, package, ledger, records, reports, sent, unseen>>
      /\ proc[p].at = "ready" /\ Left(p) # {}
  BY DEF NextRun, disk, ghosts
<1>2. proc[p] \in Processes /\ proc \in [Procs -> Processes] /\ Stands(proc[p])
  BY DEF CallsInv, CampaignType
<1>3. id \in identities /\ id # "none"
  BY <1>1, <1>2 DEF Stands
<1>4. run \in Planned(id) /\ run \in Nat
  <2>1. Left(p) \subseteq Nat /\ Left(p) \subseteq Planned(id)
    BY PlannedIsFinite DEF Left
  <2> QED BY <1>1, <2>1, LeastNumber
<1> HIDE DEF run
<1>5. CASE Ends(p, run, "failed", FALSE)
  <2>1. ledger'[id] \in Ledgers(PlannedCalls(id))
    BY <1>1, <1>3 DEF CallsInv, CampaignType
  <2>2. /\ proc' \in [Procs -> Processes] /\ \A q \in Procs : q # p => proc'[q] = proc[q]
        /\ Stands(proc'[p]) /\ ~Asks(p)'
    BY <1>3, <1>4, <1>5, <2>1, EndsMeans
  <2> QED BY <1>1, <2>2, ProcessMoves
<1>6. CASE proc' = [proc EXCEPT ![p].at = "setup", ![p].run = run, ![p].turn = 0]
  <2> DEFINE r == [proc[p] EXCEPT !.at = "setup", !.run = run, !.turn = 0]
  <2>1. proc' = [proc EXCEPT ![p] = r]
    BY <1>2, <1>6
  <2>2. "setup" \in Stages /\ 0 \in 0..MaxTurns
    BY CampaignConstants DEF Stages, RunStages
  <2>3. /\ r \in Processes /\ r.at = "setup" /\ r.id = id /\ r.run = run /\ r.turn = 0
        /\ r.mine = proc[p].mine
    BY <1>2, <1>4, <2>2 DEF Processes
  <2> HIDE DEF r
  <2>4. proc' \in [Procs -> Processes] /\ proc'[p] = r
        /\ \A q \in Procs : q # p => proc'[q] = proc[q]
    BY <1>2, <2>1, <2>3
  <2>5. Stands(r)
    BY <1>2, <1>3, <1>4, <2>3 DEF Stands
  <2>6. ~Asks(p)'
    BY <2>3, <2>4 DEF Asks
  <2> QED BY <1>1, <2>4, <2>5, <2>6, ProcessMoves
<1> QED BY <1>5, <1>6 DEF NextRun, run

(* The ends of SetUp and FinishRun, under which nothing else changes. *)
LEMMA QuietEnd ==
  ASSUME CallsInv, NEW p \in Procs, proc[p].at \in RunStages,
         NEW status \in {"completed", "failed", "collision"}, NEW good \in BOOLEAN,
         Ends(p, proc[p].run, status, good),
         status = "completed" /\ IsAgent(proc[p].id, proc[p].run)
           => CallsOf(proc[p].id, proc[p].run) # {},
         UNCHANGED <<identities, package, ledger, records, reports, sent, unseen>>
  PROVE  CallsInv'
<1>1. Stands(proc[p])
  BY DEF CallsInv
<1>2. proc[p].id \in identities /\ proc[p].run \in Planned(proc[p].id)
  BY <1>1 DEF Stands, RunStages
<1>3. ledger'[proc[p].id] \in Ledgers(PlannedCalls(proc[p].id))
  BY <1>2 DEF CallsInv, CampaignType
<1>4. /\ proc' \in [Procs -> Processes] /\ \A q \in Procs : q # p => proc'[q] = proc[q]
      /\ Stands(proc'[p]) /\ ~Asks(p)'
  BY <1>2, <1>3, EndsMeans
<1> QED BY <1>4, ProcessMoves

LEMMA SetUpKeeps == ASSUME CallsInv, NEW p \in Procs, SetUp(p) PROVE CallsInv'
<1>1. UNCHANGED <<identities, package, ledger, records, reports, sent, unseen>>
      /\ proc[p].at = "setup" /\ proc[p].at \in RunStages /\ Stands(proc[p])
  BY DEF SetUp, ghosts, RunStages, CallsInv
<1>2. CASE \E status \in {"collision", "failed"} : Ends(p, proc[p].run, status, FALSE)
  BY <1>1, <1>2, QuietEnd
<1>3. CASE proc' = [proc EXCEPT ![p].at = "select"]
  <2>1. "select" \in Stages
    BY DEF Stages, RunStages
  <2>2. /\ proc' \in [Procs -> Processes] /\ \A q \in Procs : q # p => proc'[q] = proc[q]
        /\ proc'[p].at = "select" /\ proc'[p].id = proc[p].id /\ proc'[p].run = proc[p].run
        /\ proc'[p].turn = proc[p].turn /\ proc'[p].mine = proc[p].mine
    BY <1>3, <2>1, StageChanges
  <2>3. Stands(proc'[p]) /\ ~Asks(p)'
    BY <1>1, <2>2 DEF Stands, Asks, RunStages
  <2> QED BY <1>1, <2>2, <2>3, ProcessMoves
<1> QED BY <1>2, <1>3 DEF SetUp

LEMMA CorrectedPassKeeps == ASSUME CallsInv, NEW p \in Procs, CorrectedPass(p) PROVE CallsInv'
<1>1. /\ UNCHANGED <<identities, package, ledger, records, reports, sent>>
      /\ proc[p].at = "select" /\ proc[p].turn > 0 /\ Stands(proc[p]) /\ proc[p] \in Processes
      /\ unseen' = unseen \cup {proc[p].id} /\ proc' = [proc EXCEPT ![p].at = "corrected"]
  BY DEF CorrectedPass, disk, CallsInv, CampaignType
<1>2. "corrected" \in Stages
  BY DEF Stages, RunStages
<1>3. /\ proc' \in [Procs -> Processes] /\ \A q \in Procs : q # p => proc'[q] = proc[q]
      /\ proc'[p].at = "corrected" /\ proc'[p].id = proc[p].id /\ proc'[p].run = proc[p].run
      /\ proc'[p].turn = proc[p].turn /\ proc'[p].mine = proc[p].mine
  BY <1>1, <1>2, StageChanges
<1>4. Stands(proc'[p]) /\ ~Asks(p)'
  BY <1>1, <1>3 DEF Stands, Asks, RunStages
<1>5. proc[p].id \in identities /\ Calls(proc[p].id) # {}
  <2>1. /\ proc[p].id \in identities /\ proc[p].run \in Planned(proc[p].id)
        /\ sent[proc[p].id][<<proc[p].run, proc[p].turn>>] > 0
    BY <1>1 DEF Stands, RunStages
  <2>2. proc[p].turn \in Turns
    BY <1>1 DEF Processes, Turns
  <2> QED BY <2>1, <2>2 DEF Calls
<1>6. unseen' \subseteq identities /\ \A id \in unseen' : id \in unseen \/ Calls(id) # {}
  BY <1>1, <1>5 DEF CallsInv
<1>7. PapersKeep
  BY <1>1 DEF PapersKeep, CallsInv, CampaignType, CallsAreHeld
<1>8. /\ Table(ledger', identities)
      /\ \A id \in identities : /\ ledger'[id] \in Ledgers(PlannedCalls(id))
                                /\ ledger'[id].calls = ledger[id].calls
  BY <1>1 DEF CallsInv, CampaignType
<1> QED BY <1>1, <1>3, <1>4, <1>6, <1>7, <1>8, QuietKeeps

LEMMA FinishRunKeeps == ASSUME CallsInv, NEW p \in Procs, FinishRun(p) PROVE CallsInv'
<1>1. UNCHANGED <<identities, package, ledger, records, reports, sent, unseen>>
      /\ proc[p].at \in {"select", "corrected"} /\ proc[p].at \in RunStages
      /\ Stands(proc[p]) /\ proc[p] \in Processes
  BY DEF FinishRun, disk, ghosts, RunStages, CallsInv, CampaignType
<1>2. PICK status \in {"completed", "failed"}, good \in BOOLEAN :
        /\ Ends(p, proc[p].run, status, good)
        /\ status = "completed" /\ IsAgent(proc[p].id, proc[p].run) => proc[p].turn > 0
  BY DEF FinishRun
<1>3. proc[p].turn > 0 => CallsOf(proc[p].id, proc[p].run) # {}
  <2> SUFFICES ASSUME proc[p].turn > 0 PROVE CallsOf(proc[p].id, proc[p].run) # {}
    OBVIOUS
  <2> DEFINE c == <<proc[p].run, proc[p].turn>>
  <2>1. /\ proc[p].run \in Planned(proc[p].id) /\ sent[proc[p].id][c] > 0
    BY <1>1 DEF Stands, RunStages
  <2>2. proc[p].turn \in Turns
    BY <1>1 DEF Processes, Turns
  <2>3. c \in Calls(proc[p].id) /\ c[1] = proc[p].run
    BY <2>1, <2>2 DEF Calls
  <2> QED BY <2>3 DEF CallsOf
<1> QED BY <1>1, <1>2, <1>3, QuietEnd

LEMMA KeepRunKeeps == ASSUME CallsInv, NEW p \in Procs, KeepRun(p) PROVE CallsInv'
<1> DEFINE run == proc[p].run
           paper == proc[p].paper
           mine == [r \in DOMAIN proc[p].mine \cup {run} |->
                      IF r = run THEN paper ELSE proc[p].mine[r]]
<1>1. /\ UNCHANGED <<identities, package, ledger, records, reports, sent, unseen>>
      /\ proc[p].at = "save" /\ proc[p].id = "canary" /\ Stands(proc[p]) /\ proc[p] \in Processes
  BY DEF KeepRun, disk, ghosts, CallsInv, CampaignType
<1>2. PICK at \in {"report", "ready"} :
        proc' = [proc EXCEPT ![p] = At("canary", at, proc[p].seen \cup {run}, mine)]
  BY <1>1 DEF KeepRun, CallsInv, CampaignType
<1>3. "canary" \in identities /\ run \in Planned("canary") /\ Founded("canary", run, paper)
      /\ paper \in Papers
  BY <1>1 DEF Stands, RunStages, Processes
<1>4. /\ mine \in Mines
      /\ DOMAIN mine = DOMAIN proc[p].mine \cup {run}
      /\ mine[run] = paper
      /\ \A r \in DOMAIN proc[p].mine : r # run => mine[r] = proc[p].mine[r]
  <2>1. PICK D \in SUBSET Planned("canary") : proc[p].mine \in [D -> Papers]
    BY <1>1 DEF Processes, Mines
  <2>2. mine \in [D \cup {run} -> Papers] /\ D \cup {run} \in SUBSET Planned("canary")
    BY <1>3, <2>1
  <2> QED BY <2>1, <2>2 DEF Mines
<1>5. \A r \in DOMAIN mine : Founded("canary", r, mine[r])
  <2> HIDE DEF mine, run, paper
  <2> QED BY <1>1, <1>3, <1>4 DEF Stands
<1>6. proc[p].seen \cup {run} \in SUBSET Nat /\ at \in Stages \ RunStages
  BY <1>1, <1>3, PlannedIsFinite DEF Processes, Stages, RunStages
<1> DEFINE seen == proc[p].seen \cup {run}
<1> HIDE DEF mine, run, paper, seen
<1>7. /\ proc' \in [Procs -> Processes] /\ \A q \in Procs : q # p => proc'[q] = proc[q]
      /\ Stands(proc'[p]) /\ ~Asks(p)'
  <2>1. seen \in SUBSET Nat /\ proc' = [proc EXCEPT ![p] = At("canary", at, seen, mine)]
        /\ "canary" \in identities \cup {"none"} /\ "canary" # "none"
    BY <1>2, <1>3, <1>6 DEF seen
  <2>2. proc' \in [Procs -> Processes]
    BY ONLY CallsInv, p \in Procs, <1>4, <1>5, <1>6, <2>1, Enters
  <2>4. \A q \in Procs : q # p => proc'[q] = proc[q]
    BY <2>1 DEF CallsInv, CampaignType
  <2>3. Stands(proc'[p]) /\ ~Asks(p)'
    BY ONLY CallsInv, p \in Procs, <1>4, <1>5, <1>6, <2>1, Enters
  <2> QED BY ONLY <2>2, <2>3, <2>4
<1> QED BY <1>1, <1>7, ProcessMoves

(* A process that comes to an end, or back to its plan. *)
LEMMA Leaves ==
  ASSUME CallsInv, NEW p \in Procs, NEW at \in Stages \ RunStages, NEW seen \in SUBSET Nat,
         proc[p].id # "none",
         proc' = [proc EXCEPT ![p] = At(proc[p].id, at, seen, <<>>)]
  PROVE  /\ proc' \in [Procs -> Processes] /\ \A q \in Procs : q # p => proc'[q] = proc[q]
         /\ Stands(proc'[p]) /\ ~Asks(p)'
         /\ proc'[p].at = at /\ proc'[p].id = proc[p].id /\ proc'[p].seen = seen
         /\ proc'[p].mine = <<>>
<1>1. Stands(proc[p])
  BY DEF CallsInv
<1>2. proc[p].id \in identities
  BY <1>1 DEF Stands
<1>3. \A run \in DOMAIN <<>> : Founded("canary", run, <<>>[run])
  BY NothingKept
<1>4. proc[p].id \in identities \cup {"none"} /\ <<>> \in Mines
  BY <1>2, NothingKept
<1>5. /\ proc' \in [Procs -> Processes] /\ \A q \in Procs : q # p => proc'[q] = proc[q]
      /\ Stands(proc'[p]) /\ ~Asks(p)'
      /\ proc'[p].at = at /\ proc'[p].id = proc[p].id /\ proc'[p].seen = seen
      /\ proc'[p].mine = <<>>
  <2>1. proc' \in [Procs -> Processes] /\ \A q \in Procs : q # p => proc'[q] = proc[q]
    BY ONLY CallsInv, p \in Procs, at \in Stages \ RunStages, seen \in SUBSET Nat,
            proc[p].id # "none", proc' = [proc EXCEPT ![p] = At(proc[p].id, at, seen, <<>>)],
            <1>3, <1>4, Enters
  <2>2. Stands(proc'[p]) /\ ~Asks(p)'
    BY ONLY CallsInv, p \in Procs, at \in Stages \ RunStages, seen \in SUBSET Nat,
            proc[p].id # "none", proc' = [proc EXCEPT ![p] = At(proc[p].id, at, seen, <<>>)],
            <1>3, <1>4, Enters
  <2>3. /\ proc'[p].at = at /\ proc'[p].id = proc[p].id /\ proc'[p].seen = seen
        /\ proc'[p].mine = <<>>
    <3>1. p \in DOMAIN proc
      BY DEF CallsInv, CampaignType
    <3>2. proc'[p] = At(proc[p].id, at, seen, <<>>)
      BY ONLY <3>1, proc' = [proc EXCEPT ![p] = At(proc[p].id, at, seen, <<>>)]
    <3> QED BY ONLY <3>2, AtSays
  <2> QED BY ONLY <2>1, <2>2, <2>3
<1> QED BY <1>5

LEMMA CheckRecordKeeps == ASSUME CallsInv, NEW p \in Procs, CheckRecord(p) PROVE CallsInv'
<1>1. /\ UNCHANGED <<identities, package, ledger, records, reports, sent, unseen>>
      /\ proc[p].at = "save" /\ Stands(proc[p]) /\ proc[p].id # "none"
      /\ proc \in [Procs -> Processes]
  BY DEF CheckRecord, disk, ghosts, CallsInv, CampaignType, Stands
<1>2. CASE proc' = [proc EXCEPT ![p] = At(proc[p].id, "failed", {}, <<>>)]
  <2>1. "failed" \in Stages \ RunStages
    BY DEF Stages, RunStages, Ended
  <2>2. /\ proc' \in [Procs -> Processes] /\ \A q \in Procs : q # p => proc'[q] = proc[q]
        /\ Stands(proc'[p]) /\ ~Asks(p)'
    <3>1. {} \in SUBSET Nat
      OBVIOUS
    <3> QED BY <1>1, <1>2, <2>1, <3>1, Leaves
  <2> QED BY <1>1, <2>2, ProcessMoves
<1>3. CASE proc' = [proc EXCEPT ![p].at = "write"]
  <2>1. "write" \in Stages
    BY DEF Stages, RunStages
  <2>2. /\ proc' \in [Procs -> Processes] /\ \A q \in Procs : q # p => proc'[q] = proc[q]
        /\ proc'[p].at = "write" /\ proc'[p].id = proc[p].id /\ proc'[p].run = proc[p].run
        /\ proc'[p].mine = proc[p].mine /\ proc'[p].paper = proc[p].paper
    BY <1>3, <2>1, StageChanges
  <2>3. Stands(proc'[p]) /\ ~Asks(p)'
    BY <1>1, <2>2 DEF Stands, Asks, RunStages
  <2> QED BY <1>1, <2>2, <2>3, ProcessMoves
<1>4. \/ proc' = [proc EXCEPT ![p] = At(proc[p].id, "failed", {}, <<>>)]
      \/ proc' = [proc EXCEPT ![p] = [proc[p] EXCEPT !.at = "write"]]
  BY <1>1 DEF CheckRecord
<1> QED BY <1>1, <1>2, <1>3, <1>4

(* A record, or what a crash leaves of one, is written. *)
LEMMA RecordWritten ==
  ASSUME CallsInv, NEW i \in identities, NEW run \in Planned(i), NEW paper \in Papers,
         Founded(i, run, paper), reports' = reports,
         records' = [records EXCEPT ![i][run] = paper]
  PROVE  PapersKeep
<1> DEFINE stored == [records[i] EXCEPT ![run] = paper]
<1>1. records[i] \in [Planned(i) -> Papers]
  BY DEF CallsInv, CampaignType
<1>2. /\ stored \in [Planned(i) -> Papers] /\ stored[run] = paper
      /\ \A r \in Planned(i) : r # run => stored[r] = records[i][r]
  BY <1>1
<1>3. records' = [records EXCEPT ![i] = stored]
  BY DEF CallsInv, CampaignType, Table
<1> HIDE DEF stored
<1>4. /\ Table(records', identities) /\ records'[i] = stored
      /\ \A id \in identities : id # i => records'[id] = records[id]
  <2>1. Table(records, identities)
    BY DEF CallsInv, CampaignType
  <2> QED BY <1>3, <2>1 DEF Table
<1> QED BY <1>2, <1>4 DEF PapersKeep, CallsInv, CampaignType, CallsAreHeld

LEMMA LedgerKept ==
  ASSUME CallsInv, UNCHANGED <<ledger, unseen>>
  PROVE  /\ Table(ledger', identities)
         /\ \A id \in identities : /\ ledger'[id] \in Ledgers(PlannedCalls(id))
                                   /\ ledger'[id].calls = ledger[id].calls
         /\ unseen' \subseteq identities /\ \A id \in unseen' : id \in unseen \/ Calls(id) # {}
  BY DEF CallsInv, CampaignType

LEMMA WriteRecordKeeps == ASSUME CallsInv, NEW p \in Procs, WriteRecord(p) PROVE CallsInv'
<1>1. /\ UNCHANGED <<identities, package, ledger, reports, sent, unseen>>
      /\ proc[p].at = "write" /\ Stands(proc[p]) /\ proc[p] \in Processes
      /\ records' = [records EXCEPT ![proc[p].id][proc[p].run] = proc[p].paper]
      /\ proc' = [proc EXCEPT ![p] =
                    At(proc[p].id, "ready", proc[p].seen \cup {proc[p].run}, <<>>)]
  BY DEF WriteRecord, ghosts, CallsInv, CampaignType
<1>2. /\ proc[p].id \in identities /\ proc[p].id # "none" /\ proc[p].run \in Planned(proc[p].id)
      /\ Founded(proc[p].id, proc[p].run, proc[p].paper) /\ proc[p].paper \in Papers
  BY <1>1 DEF Stands, RunStages, Processes
<1>3. proc[p].seen \cup {proc[p].run} \in SUBSET Nat /\ "ready" \in Stages \ RunStages
  BY <1>1 DEF Processes, Stages, RunStages
<1>4. /\ proc' \in [Procs -> Processes] /\ \A q \in Procs : q # p => proc'[q] = proc[q]
      /\ Stands(proc'[p]) /\ ~Asks(p)'
  BY <1>1, <1>2, <1>3, Leaves
<1>5. PapersKeep
  BY <1>1, <1>2, RecordWritten
<1> QED BY <1>1, <1>4, <1>5, LedgerKept, QuietKeeps

LEMMA BuildReportKeeps == ASSUME CallsInv, NEW p \in Procs, BuildReport(p) PROVE CallsInv'
<1> DEFINE id == proc[p].id
           papers == IF id = "canary" THEN proc[p].mine ELSE records[id]
<1>1. /\ UNCHANGED <<identities, package, ledger, records, reports, sent, unseen>>
      /\ proc[p].at \in {"ready", "report"} /\ Stands(proc[p]) /\ id # "none"
      /\ proc \in [Procs -> Processes]
  BY DEF BuildReport, disk, ghosts, CallsInv, CampaignType, Stands
<1>2. CASE proc' = [proc EXCEPT ![p] = At(id, "failed", {}, <<>>)]
  <2>1. "failed" \in Stages \ RunStages /\ {} \in SUBSET Nat
    BY DEF Stages, RunStages, Ended
  <2>2. /\ proc' \in [Procs -> Processes] /\ \A q \in Procs : q # p => proc'[q] = proc[q]
        /\ Stands(proc'[p]) /\ ~Asks(p)'
    BY <1>1, <1>2, <2>1, Leaves
  <2> QED BY <1>1, <2>2, ProcessMoves
<1>3. CASE \E report \in ReportSet :
             proc' = [proc EXCEPT ![p] = [At(id, "publish", {}, <<>>) EXCEPT !.report = report]]
  <2>1. PICK report \in ReportSet :
          proc' = [proc EXCEPT ![p] = [At(id, "publish", {}, <<>>) EXCEPT !.report = report]]
    BY <1>3
  <2> DEFINE at == At(id, "publish", {}, <<>>)
             r == [at EXCEPT !.report = report]
  <2>2. "publish" \in Stages /\ {} \in SUBSET Nat /\ id \in identities
        /\ id \in {"none", "formal", "contingency", "locked", "canary"}
    BY <1>1 DEF Stages, Stands, CallsInv, CampaignType, Development
  <2>3. at \in Processes /\ at.id = id /\ at.at = "publish" /\ at.mine = <<>>
    <3>1. <<>> \in Mines
      BY NothingKept
    <3> QED BY <2>2, <3>1, AtIsTyped
  <2> HIDE DEF at
  <2>4. r \in Processes /\ r.id = id /\ r.at = "publish" /\ r.mine = <<>>
    BY <2>3 DEF Processes
  <2>5. Stands(r)
    BY <1>1, <2>2, <2>4, NothingKept DEF Stands, RunStages
  <2>6. proc' = [proc EXCEPT ![p] = r]
    BY <2>1 DEF at
  <2> HIDE DEF r
  <2>7. /\ proc' \in [Procs -> Processes] /\ proc'[p] = r
        /\ \A q \in Procs : q # p => proc'[q] = proc[q]
    BY <1>1, <2>4, <2>6
  <2>8. ~Asks(p)'
    BY <2>4, <2>7 DEF Asks
  <2> QED BY <1>1, <2>5, <2>7, <2>8, ProcessMoves
<1>4. CASE ~(proc' = [proc EXCEPT ![p] = At(id, "failed", {}, <<>>)])
  <2> DEFINE conclusions == CASE id = "canary" -> {CanaryConclusion(papers)}
                              [] id = "locked" -> LockedConclusions(papers, ledger[id])
                              [] OTHER -> {DevelopmentConclusion(papers)}
             calls == Attempted(ledger[id])
  <2>1. PICK conclusion \in conclusions :
          proc' = [proc EXCEPT ![p] = [At(id, "publish", {}, <<>>) EXCEPT
            !.report = [conclusion |-> conclusion, calls |-> calls,
                        recorded |-> CallsIn(papers)]]]
    BY <1>4 DEF BuildReport
  <2>2. conclusions \subseteq Conclusions
    <3> HIDE DEF papers
    <3> QED BY DEF CanaryConclusion, LockedConclusions, DevelopmentConclusion, Conclusions
  <2>3. calls \in Nat
    BY <1>1, LedgerBasics, PlannedIsFinite DEF Attempted, Stands, CallsInv, CampaignType
  <2>4. CallsIn(papers) \in Nat
    <3>1. IsFiniteSet(DOMAIN papers) /\ \A run \in DOMAIN papers : papers[run] \in Papers
      <4>1. CASE id = "canary"
        <5>1. PICK D \in SUBSET Planned("canary") : proc[p].mine \in [D -> Papers]
          BY <1>1 DEF Processes, Mines
        <5>2. IsFiniteSet(D)
          BY PlannedIsFinite, FS_Subset
        <5> QED BY <4>1, <5>1, <5>2
      <4>2. CASE id # "canary"
        <5>1. records[id] \in [Planned(id) -> Papers]
          BY <1>1 DEF Stands, CallsInv, CampaignType
        <5> QED BY <4>2, <5>1, PlannedIsFinite
      <4> QED BY <4>1, <4>2
    <3> HIDE DEF papers
    <3> QED BY <3>1, CallsInIsNatural DEF Papers
  <2> HIDE DEF conclusions, calls, papers
  <2>5. [conclusion |-> conclusion, calls |-> calls, recorded |-> CallsIn(papers)] \in ReportSet
    BY <2>2, <2>3, <2>4 DEF ReportSet
  <2> QED BY <1>3, <2>1, <2>5
<1> QED BY <1>2, <1>4

LEMMA ReportWritten ==
  ASSUME CallsInv, NEW i \in identities, NEW report \in ReportSet, records' = records,
         reports' = reports \/ reports' = [reports EXCEPT ![i] = report]
  PROVE  PapersKeep
<1>1. Table(reports, identities) /\ \A id \in identities : reports[id] \in ReportSet
  BY DEF CallsInv, CampaignType
<1>2. Table(reports', identities) /\ \A id \in identities : reports'[id] \in ReportSet
  BY <1>1 DEF Table
<1> QED BY <1>2 DEF PapersKeep, CallsInv, CampaignType, CallsAreHeld

LEMMA PublishReportKeeps == ASSUME CallsInv, NEW p \in Procs, PublishReport(p) PROVE CallsInv'
<1>1. /\ UNCHANGED <<identities, package, ledger, records, sent, unseen>>
      /\ proc[p].at = "publish" /\ Stands(proc[p]) /\ proc[p] \in Processes
      /\ reports' = reports \/ reports' = [reports EXCEPT ![proc[p].id] = proc[p].report]
  BY DEF PublishReport, ghosts, CallsInv, CampaignType
<1>2. PICK at \in {"done", "failed"} : proc' = [proc EXCEPT ![p] = At(proc[p].id, at, {}, <<>>)]
  BY DEF PublishReport
<1>3. /\ proc[p].id \in identities /\ proc[p].id # "none" /\ proc[p].report \in ReportSet
      /\ at \in Stages \ RunStages /\ {} \in SUBSET Nat
  BY <1>1 DEF Stands, Processes, Stages, RunStages, Ended
<1>4. /\ proc' \in [Procs -> Processes] /\ \A q \in Procs : q # p => proc'[q] = proc[q]
      /\ Stands(proc'[p]) /\ ~Asks(p)'
  BY <1>2, <1>3, Leaves
<1>5. PapersKeep
  BY <1>1, <1>3, ReportWritten
<1> QED BY <1>1, <1>4, <1>5, LedgerKept, QuietKeeps

LEMMA CrashKeepsCalls == ASSUME CallsInv, NEW p \in Procs, Crash(p) PROVE CallsInv'
<1>1. /\ UNCHANGED <<identities, package, ledger, sent, unseen>> /\ Stands(proc[p])
      /\ Works(p) /\ proc[p] \in Processes /\ proc \in [Procs -> Processes]
      /\ proc' = [proc EXCEPT ![p] = Absent]
  BY DEF Crash, ghosts, CallsInv, CampaignType
<1>2. /\ proc' \in [Procs -> Processes] /\ proc'[p] = Absent
      /\ \A q \in Procs : q # p => proc'[q] = proc[q]
  BY <1>1, AbsentIsTyped
<1>3. Stands(Absent) /\ ~Asks(p)'
  BY <1>2, AbsentIsTyped DEF Stands, Asks, RunStages
<1>4. proc[p].id \in identities
  BY <1>1 DEF Stands, Works, Ended
<1>5. PapersKeep
  <2>1. CASE UNCHANGED <<records, reports>>
    BY <2>1 DEF PapersKeep, CallsInv, CampaignType, CallsAreHeld
  <2>2. CASE /\ proc[p].at = "write" /\ UNCHANGED reports
             /\ records' = [records EXCEPT ![proc[p].id][proc[p].run] = Torn]
    <3>1. proc[p].run \in Planned(proc[p].id)
      BY <1>1, <2>2 DEF Stands, RunStages
    <3>2. Torn \in Papers /\ Founded(proc[p].id, proc[p].run, Torn)
      BY AbsentIsTyped DEF Founded, Torn
    <3> QED BY <1>4, <2>2, <3>1, <3>2, RecordWritten
  <2>3. CASE UNCHANGED records /\ reports' = [reports EXCEPT ![proc[p].id] = TornReport]
    BY <1>4, <2>3, AbsentIsTyped, ReportWritten
  <2> QED BY <2>1, <2>2, <2>3 DEF Crash
<1> QED BY <1>1, <1>2, <1>3, <1>5, LedgerKept, QuietKeeps

(* The three steps of a call. *)
LEMMA TakeTurnKeeps == ASSUME CallsInv, NEW p \in Procs, TakeTurn(p) PROVE CallsInv'
<1> DEFINE id == proc[p].id
           run == proc[p].run
           b == Binding(id)
           turn == proc[p].turn + 1
           c == <<run, turn>>
           answer == Admission(b, ledger[id], run, turn)
<1>1. /\ UNCHANGED <<identities, package, records, reports, sent, unseen>>
      /\ proc[p].at = "select" /\ proc[p].turn < MaxTurns /\ Stands(proc[p])
      /\ proc[p] \in Processes /\ proc \in [Procs -> Processes]
  BY DEF TakeTurn, ghosts, CallsInv, CampaignType
<1>2. /\ id \in identities /\ run \in Planned(id) /\ run \in Nat
      /\ turn \in Turns /\ turn \in 0..MaxTurns /\ c \in PlannedCalls(id)
  BY <1>1, CampaignConstants, PlannedIsFinite
  DEF Stands, RunStages, Processes, Turns, PlannedCalls
<1>3. /\ ledger[id] \in Ledgers(PlannedCalls(id)) /\ b \in Bindings
      /\ WithinLimits(b, ledger[id]) /\ IsFiniteSet(PlannedCalls(id))
      /\ Table(ledger, identities)
  BY <1>2, BindingIsTyped, PlannedIsFinite DEF CallsInv, CampaignType, CallsAreHeld
<1>4. CASE answer # "admitted"
  <2> DEFINE m == IF IsGlobalStop(b, ledger[id], answer)
                  THEN ForceStop(b, ledger[id], answer) ELSE ledger[id]
  <2>1. ledger' = [ledger EXCEPT ![id] = m] /\ Ends(p, run, "failed", FALSE)
    BY <1>4 DEF TakeTurn
  <2>2. m \in Ledgers(PlannedCalls(id)) /\ m.calls = ledger[id].calls
    BY <1>3, ForcedStop
  <2> HIDE DEF m
  <2>3. /\ Table(ledger', identities) /\ ledger'[id] = m
        /\ \A x \in identities : x # id => ledger'[x] = ledger[x]
    BY <1>2, <1>3, <2>1 DEF Table
  <2>4. \A x \in identities : /\ ledger'[x] \in Ledgers(PlannedCalls(x))
                              /\ ledger'[x].calls = ledger[x].calls
    BY <2>2, <2>3 DEF CallsInv, CampaignType
  <2>5. /\ proc' \in [Procs -> Processes] /\ \A q \in Procs : q # p => proc'[q] = proc[q]
        /\ Stands(proc'[p]) /\ ~Asks(p)'
    BY <1>2, <2>1, <2>4, EndsMeans
  <2>6. PapersKeep
    BY <1>1 DEF PapersKeep, CallsInv, CampaignType, CallsAreHeld
  <2> QED BY <1>1, <2>3, <2>4, <2>5, <2>6, QuietKeeps DEF CallsInv
<1>5. CASE answer = "admitted"
  <2> DEFINE m == Admit(ledger[id], run, turn)
             r == [proc[p] EXCEPT !.at = "call", !.turn = turn]
  <2>1. ledger' = [ledger EXCEPT ![id] = m]
        /\ proc' = [proc EXCEPT ![p].at = "call", ![p].turn = turn]
    BY <1>5 DEF TakeTurn
  <2>2. proc' = [proc EXCEPT ![p] = r]
    BY <1>1, <2>1
  <2>3. r \in Processes /\ r.at = "call" /\ r.turn = turn /\ r.run = run /\ r.id = id
        /\ r.mine = proc[p].mine
    <3>1. "call" \in Stages
      BY DEF Stages, RunStages
    <3> HIDE DEF turn
    <3> QED BY <1>1, <1>2, <3>1 DEF Processes
  <2>4. /\ m \in Ledgers(PlannedCalls(id)) /\ WithinLimits(b, m)
        /\ Invocations(m) = Invocations(ledger[id]) \cup {c}
        /\ Pending(m) = {c} /\ Pending(ledger[id]) = {}
        /\ c \notin Invocations(ledger[id])
        /\ m.calls[c].status = "admitted"
        /\ \A i \in Invocations(ledger[id]) : m.calls[i] = ledger[id].calls[i]
    <3> HIDE DEF turn, run, b, id
    <3> QED BY <1>2, <1>3, <1>5, AdmitKeeps DEF answer
  <2> HIDE DEF m, r
  <2>5. /\ Table(ledger', identities) /\ ledger'[id] = m
        /\ \A x \in identities : x # id => ledger'[x] = ledger[x]
    BY <1>2, <1>3, <2>1 DEF Table
  <2>6. /\ proc' \in [Procs -> Processes] /\ proc'[p] = r
        /\ \A q \in Procs : q # p => proc'[q] = proc[q]
    BY <1>1, <2>2, <2>3
  <2>7. CampaignType'
    BY <1>1, <2>4, <2>5, <2>6 DEF CallsInv, CampaignType, PlannedCalls
  <2>8. /\ \A x : Calls(x)' = Calls(x)
        /\ \A x, y : CallsOf(x, y)' = CallsOf(x, y)
        /\ \A x, y, z : Founded(x, y, z)' <=> Founded(x, y, z)
    BY <1>1 DEF Calls, CallsOf, Founded
  <2>9. CallsAreHeld'
    <3> SUFFICES ASSUME NEW x \in identities
                 PROVE  /\ WithinLimits(Binding(x), ledger'[x])
                        /\ \A call \in PlannedCalls(x) :
                             /\ sent[x][call] <= 1
                             /\ sent[x][call] > 0 => call \in Invocations(ledger'[x])
                        /\ \A call \in Invocations(ledger'[x]) :
                             ledger'[x].calls[call].status = "completed" => sent[x][call] > 0
                        /\ \A y \in Planned(x) : Founded(x, y, records[x][y])
                        /\ x \in unseen => Calls(x) # {}
      BY <1>1, <2>8 DEF CallsAreHeld
    <3>1. CASE x # id
      BY <2>5, <3>1 DEF CallsInv, CallsAreHeld
    <3>2. CASE x = id
      <4>1. \A call \in Invocations(m) : m.calls[call].status = "completed" => sent[id][call] > 0
        BY <1>2, <2>4 DEF CallsInv, CallsAreHeld
      <4> QED BY <1>2, <2>4, <2>5, <3>2, <4>1 DEF CallsInv, CallsAreHeld
    <3> QED BY <3>1, <3>2
  <2>10. \A q \in Procs : Asks(q) => proc[q].id # id
    BY <2>4 DEF CallsInv, Stands, Asks
  <2>11. OneAsks'
    BY <2>3, <2>6, <2>10 DEF CallsInv, OneAsks, Asks
  <2>12. ASSUME NEW q \in Procs, q # p PROVE Stands(proc[q])'
    <3>1. /\ Stands(proc[q]) /\ proc'[q] = proc[q]
          /\ Asks(q) => ledger'[proc[q].id] = ledger[proc[q].id]
      BY <2>5, <2>6, <2>10, <2>12 DEF CallsInv, Stands, Asks
    <3> QED BY <1>1, <2>8, <3>1 DEF Stands, Asks
  <2>13. Stands(proc[p])'
    <3>1. sent[id][c] = 0
      <4>1. sent[id] \in [PlannedCalls(id) -> Nat]
        BY <1>2 DEF CallsInv, CampaignType
      <4> QED BY <1>2, <2>4, <4>1 DEF CallsInv, CallsAreHeld
    <3>2. proc'[p].at = "call" /\ proc'[p].turn = turn /\ proc'[p].run = run /\ proc'[p].id = id
          /\ proc'[p].mine = proc[p].mine
      BY <2>3, <2>6
    <3>3. turn > 0
      BY <1>2 DEF Turns
    <3>4. \A y \in DOMAIN proc[p].mine :
            id = "canary" => Founded("canary", y, proc[p].mine[y])
      BY <1>1 DEF Stands
    <3>5. "none" # id
      BY <1>1 DEF Stands
    <3> HIDE DEF turn, id, run
    <3> QED BY <1>1, <1>2, <2>4, <2>5, <2>8, <3>1, <3>2, <3>3, <3>4, <3>5 DEF Stands
  <2>14. \A q \in Procs : Stands(proc[q])'
    BY <2>12, <2>13
  <2> QED BY <1>1, <2>7, <2>9, <2>11, <2>14 DEF CallsInv
<1> QED BY <1>4, <1>5

LEMMA SendKeeps == ASSUME CallsInv, NEW p \in Procs, Send(p) PROVE CallsInv'
<1> DEFINE id == proc[p].id
           c == <<proc[p].run, proc[p].turn>>
           calls == [sent[id] EXCEPT ![c] = @ + 1]
<1>1. /\ UNCHANGED <<identities, package, ledger, records, reports, unseen>>
      /\ proc[p].at = "call" /\ Stands(proc[p]) /\ proc \in [Procs -> Processes]
      /\ sent' = [sent EXCEPT ![id][c] = @ + 1] /\ proc' = [proc EXCEPT ![p].at = "wait"]
  BY DEF Send, disk, CallsInv, CampaignType
<1>2. /\ id \in identities /\ proc[p].run \in Planned(id) /\ c \in Pending(ledger[id])
      /\ sent[id][c] = 0
  BY <1>1 DEF Stands, RunStages
<1>3. /\ c \in PlannedCalls(id) /\ c \in Invocations(ledger[id])
      /\ ledger[id].calls[c].status = "admitted"
  BY <1>2, LedgerBasics, PlannedIsFinite DEF Pending, CallsInv, CampaignType
<1>4. /\ sent[id] \in [PlannedCalls(id) -> Nat] /\ Table(sent, identities)
  BY <1>2 DEF CallsInv, CampaignType
<1>5. /\ calls \in [PlannedCalls(id) -> Nat] /\ calls[c] = 1
      /\ \A i \in PlannedCalls(id) : i # c => calls[i] = sent[id][i]
  <2> HIDE DEF c, id
  <2> QED BY <1>2, <1>3, <1>4
<1>6. sent' = [sent EXCEPT ![id] = calls]
  BY <1>1, <1>2, <1>4 DEF Table
<1> HIDE DEF calls
<1>7. /\ Table(sent', identities) /\ sent'[id] = calls
      /\ \A x \in identities : x # id => sent'[x] = sent[x]
  BY <1>2, <1>4, <1>6 DEF Table
<1>8. "wait" \in Stages
  BY DEF Stages, RunStages
<1>9. /\ proc' \in [Procs -> Processes] /\ \A q \in Procs : q # p => proc'[q] = proc[q]
      /\ proc'[p].at = "wait" /\ proc'[p].id = id /\ proc'[p].run = proc[p].run
      /\ proc'[p].turn = proc[p].turn /\ proc'[p].mine = proc[p].mine
  BY <1>1, <1>8, StageChanges
<1>10. CampaignType'
  BY <1>1, <1>5, <1>7, <1>9 DEF CallsInv, CampaignType, PlannedCalls
<1>11. \A x \in identities : \A i \in PlannedCalls(x) : sent[x][i] > 0 => sent'[x][i] > 0
  BY <1>2, <1>5, <1>7
<1>12. /\ \A x \in identities : Calls(x) \subseteq Calls(x)'
       /\ \A x \in identities : \A y, z : Founded(x, y, z) => Founded(x, y, z)'
  BY <1>11 DEF Calls, CallsOf, Founded, PlannedCalls
<1>13. CallsAreHeld'
  <2> SUFFICES ASSUME NEW x \in identities
               PROVE  /\ WithinLimits(Binding(x), ledger[x])
                      /\ \A call \in PlannedCalls(x) :
                           /\ sent'[x][call] <= 1
                           /\ sent'[x][call] > 0 => call \in Invocations(ledger[x])
                      /\ \A call \in Invocations(ledger[x]) :
                           ledger[x].calls[call].status = "completed" => sent'[x][call] > 0
                      /\ \A y \in Planned(x) : Founded(x, y, records[x][y])'
                      /\ x \in unseen => Calls(x)' # {}
    BY <1>1 DEF CallsAreHeld, PlannedCalls
  <2>1. /\ WithinLimits(Binding(x), ledger[x])
        /\ \A y \in Planned(x) : Founded(x, y, records[x][y])'
        /\ x \in unseen => Calls(x)' # {}
    BY <1>1, <1>12 DEF CallsInv, CallsAreHeld
  <2>2. Invocations(ledger[x]) \subseteq PlannedCalls(x)
    BY LedgerBasics, PlannedIsFinite DEF CallsInv, CampaignType
  <2>3. CASE x # id
    BY <1>7, <2>1, <2>3 DEF CallsInv, CallsAreHeld
  <2>4. CASE x = id
    <3>1. \A i \in PlannedCalls(x) : i # c => sent'[x][i] = sent[x][i]
      BY ONLY <1>5, <1>7, <2>4
    <3>2. sent'[x][c] = 1 /\ c \in Invocations(ledger[x]) /\ ledger[x].calls[c].status = "admitted"
      BY ONLY <1>3, <1>5, <1>7, <2>4
    <3>3. /\ \A i \in PlannedCalls(x) : sent[x][i] <= 1 /\ (sent[x][i] > 0 => i \in Invocations(ledger[x]))
          /\ \A i \in Invocations(ledger[x]) : ledger[x].calls[i].status = "completed" => sent[x][i] > 0
      BY DEF CallsInv, CallsAreHeld
    <3> HIDE DEF c, id
    <3> QED BY ONLY <2>1, <2>2, <3>1, <3>2, <3>3
  <2> QED BY <2>3, <2>4
<1>14. OneAsks'
  BY <1>1, <1>9 DEF CallsInv, OneAsks, Asks
<1>15. \A q \in Procs : Asks(q) /\ q # p => proc[q].id # id
  BY <1>1 DEF CallsInv, OneAsks, Asks
<1>16. ASSUME NEW q \in Procs, q # p PROVE Stands(proc[q])'
  <2> DEFINE d == <<proc[q].run, proc[q].turn>>
  <2>1. Stands(proc[q]) /\ proc'[q] = proc[q] /\ proc[q] \in Processes
    BY <1>9, <1>16 DEF CallsInv, CampaignType
  <2>2. Asks(q) => sent'[proc[q].id] = sent[proc[q].id]
    BY <1>7, <1>15, <1>16, <2>1 DEF Stands, Asks, RunStages
  <2>3. proc[q].at \in {"select", "corrected"} /\ proc[q].turn > 0 => sent'[proc[q].id][d] > 0
    <3> SUFFICES ASSUME proc[q].at \in {"select", "corrected"}, proc[q].turn > 0
                 PROVE  sent'[proc[q].id][d] > 0
      OBVIOUS
    <3>1. /\ proc[q].id \in identities /\ sent[proc[q].id][d] > 0
          /\ proc[q].run \in Planned(proc[q].id)
      BY <2>1 DEF Stands, RunStages
    <3>2. d \in PlannedCalls(proc[q].id)
      BY <2>1, <3>1 DEF Processes, PlannedCalls, Turns
    <3> QED BY <1>11, <3>1, <3>2
  <2>4. proc[q].id \in identities =>
          \A y, z : Founded(proc[q].id, y, z) => Founded(proc[q].id, y, z)'
    BY <1>12, <2>1
  <2>5. proc[q].at \in {"save", "write"} => Founded(proc[q].id, proc[q].run, proc[q].paper)'
    BY <2>1, <2>4 DEF Stands, RunStages
  <2>6. proc[q].id = "canary" =>
          \A run \in DOMAIN proc[q].mine : Founded("canary", run, proc[q].mine[run])'
    <3>1. "canary" # "none"
      OBVIOUS
    <3> QED BY <2>1, <2>4, <3>1 DEF Stands
  <2> HIDE DEF d
  <2>7. /\ proc[q].id \in identities \cup {"none"} /\ (proc[q].at # "down" => proc[q].id # "none")
        /\ proc[q].at \in RunStages => proc[q].run \in Planned(proc[q].id)
        /\ proc[q].at = "setup" => proc[q].turn = 0
        /\ proc[q].at \in {"call", "wait"} => proc[q].turn > 0 /\ d \in Pending(ledger[proc[q].id])
        /\ proc[q].at = "call" => sent'[proc[q].id][d] = 0
        /\ proc[q].at = "wait" => sent'[proc[q].id][d] = 1
        /\ proc[q].at = "corrected" => proc[q].turn > 0
        /\ proc[q].at \in {"save", "write"} =>
             proc[q].paper.status \in {"completed", "failed", "collision"}
    BY <2>1, <2>2 DEF Stands, Asks, d
  <2> QED BY <1>1, <2>1, <2>3, <2>5, <2>6, <2>7 DEF Stands, d
<1>17. Stands(proc[p])'
  <2>1. \A run \in DOMAIN proc[p].mine :
          id = "canary" => Founded("canary", run, proc[p].mine[run])'
    BY <1>1, <1>2, <1>12 DEF Stands
  <2>2. proc[p].turn > 0 /\ id # "none"
    BY <1>1 DEF Stands
  <2>3. sent'[id][c] = 1
    BY <1>5, <1>7
  <2> HIDE DEF id
  <2> QED BY <1>1, <1>2, <1>9, <2>1, <2>2, <2>3 DEF Stands
<1>18. \A q \in Procs : Stands(proc[q])'
  BY <1>16, <1>17
<1> QED BY <1>1, <1>10, <1>13, <1>14, <1>18 DEF CallsInv

LEMMA AnswerKeeps == ASSUME CallsInv, NEW p \in Procs, Answer(p) PROVE CallsInv'
<1> DEFINE id == proc[p].id
           run == proc[p].run
           turn == proc[p].turn
           c == <<run, turn>>
<1>1. /\ UNCHANGED <<identities, package, records, reports, sent, unseen>>
      /\ proc[p].at = "wait" /\ Stands(proc[p]) /\ proc \in [Procs -> Processes]
      /\ proc[p] \in Processes
  BY DEF Answer, ghosts, CallsInv, CampaignType
<1>2. PICK status \in {"completed", "failed"}, tokens \in Usage \cup {Unreported} :
        /\ ledger' = [ledger EXCEPT ![id] = Complete(Binding(id), @, run, turn, status, tokens)]
        /\ IF status = "completed" THEN proc' = [proc EXCEPT ![p].at = "select"]
                                   ELSE Ends(p, run, "failed", FALSE)
  BY DEF Answer
<1>3. /\ id \in identities /\ run \in Planned(id) /\ c \in Pending(ledger[id])
      /\ sent[id][c] = 1 /\ turn > 0 /\ id # "none"
  BY <1>1 DEF Stands, RunStages
<1>4. /\ ledger[id] \in Ledgers(PlannedCalls(id)) /\ Binding(id) \in Bindings
      /\ WithinLimits(Binding(id), ledger[id]) /\ IsFiniteSet(PlannedCalls(id))
      /\ Table(ledger, identities)
  BY <1>3, BindingIsTyped, PlannedIsFinite DEF CallsInv, CampaignType, CallsAreHeld
<1> DEFINE m == Complete(Binding(id), ledger[id], run, turn, status, tokens)
<1>5. /\ m \in Ledgers(PlannedCalls(id)) /\ WithinLimits(Binding(id), m)
      /\ Invocations(m) = Invocations(ledger[id]) /\ Pending(m) = {}
      /\ m.calls[c].status = status
      /\ \A i \in Invocations(ledger[id]) : i # c => m.calls[i] = ledger[id].calls[i]
  <2> HIDE DEF id, run, turn
  <2> QED BY <1>3, <1>4, CompleteKeeps
<1>6. ledger' = [ledger EXCEPT ![id] = m]
  BY <1>2
<1> HIDE DEF m
<1>7. /\ Table(ledger', identities) /\ ledger'[id] = m
      /\ \A x \in identities : x # id => ledger'[x] = ledger[x]
  BY <1>3, <1>4, <1>6 DEF Table
<1>8. \A x \in identities : ledger'[x] \in Ledgers(PlannedCalls(x))
  BY <1>5, <1>7 DEF CallsInv, CampaignType
<1>9. /\ \A x : Calls(x)' = Calls(x)
      /\ \A x, y : CallsOf(x, y)' = CallsOf(x, y)
      /\ \A x, y, z : Founded(x, y, z)' <=> Founded(x, y, z)
  BY <1>1 DEF Calls, CallsOf, Founded
<1>10. /\ proc' \in [Procs -> Processes] /\ \A q \in Procs : q # p => proc'[q] = proc[q]
       /\ Stands(proc'[p]) /\ ~Asks(p)'
  <2>1. CASE status = "completed"
    <3>1. "select" \in Stages
      BY DEF Stages, RunStages
    <3>2. /\ proc' \in [Procs -> Processes] /\ \A q \in Procs : q # p => proc'[q] = proc[q]
          /\ proc'[p].at = "select" /\ proc'[p].id = id /\ proc'[p].run = run
          /\ proc'[p].turn = turn /\ proc'[p].mine = proc[p].mine
      BY <1>2, <2>1, <3>1, StageChanges
    <3> QED BY <1>1, <1>3, <3>2 DEF Stands, Asks, RunStages
  <2>2. CASE status # "completed"
    BY <1>2, <1>3, <1>8, <2>2, EndsMeans
  <2> QED BY <2>1, <2>2
<1>11. CampaignType'
  BY <1>1, <1>7, <1>8, <1>10 DEF CallsInv, CampaignType, PlannedCalls
<1>12. CallsAreHeld'
  <2> SUFFICES ASSUME NEW x \in identities
               PROVE  /\ WithinLimits(Binding(x), ledger'[x])
                      /\ \A call \in PlannedCalls(x) :
                           /\ sent[x][call] <= 1
                           /\ sent[x][call] > 0 => call \in Invocations(ledger'[x])
                      /\ \A call \in Invocations(ledger'[x]) :
                           ledger'[x].calls[call].status = "completed" => sent[x][call] > 0
                      /\ \A y \in Planned(x) : Founded(x, y, records[x][y])
                      /\ x \in unseen => Calls(x) # {}
    BY <1>1, <1>9 DEF CallsAreHeld
  <2>1. CASE x # id
    BY <1>7, <2>1 DEF CallsInv, CallsAreHeld
  <2>2. CASE x = id
    <3>1. \A call \in Invocations(m) : m.calls[call].status = "completed" => sent[id][call] > 0
      BY <1>3, <1>5 DEF CallsInv, CallsAreHeld
    <3> QED BY <1>3, <1>5, <1>7, <2>2, <3>1 DEF CallsInv, CallsAreHeld
  <2> QED BY <2>1, <2>2
<1>13. \A q \in Procs : Asks(q) /\ q # p => proc[q].id # id
  BY <1>1 DEF CallsInv, OneAsks, Asks
<1>14. OneAsks'
  BY <1>10 DEF CallsInv, OneAsks, Asks
<1>15. ASSUME NEW q \in Procs, q # p PROVE Stands(proc[q])'
  <2>1. /\ Stands(proc[q]) /\ proc'[q] = proc[q]
        /\ Asks(q) => ledger'[proc[q].id] = ledger[proc[q].id]
    BY <1>7, <1>10, <1>13, <1>15 DEF CallsInv, Stands, Asks
  <2> QED BY <1>1, <1>9, <2>1 DEF Stands, Asks
<1>16. Stands(proc[p])'
  BY <1>1, <1>9, <1>10 DEF Stands, Asks
<1>17. \A q \in Procs : Stands(proc[q])'
  BY <1>15, <1>16
<1> QED BY <1>1, <1>11, <1>12, <1>14, <1>17 DEF CallsInv

LEMMA CallsInvNext == CallsInv /\ [CampaignNext]_campaignVars => CallsInv'
<1> SUFFICES ASSUME CallsInv, [CampaignNext]_campaignVars PROVE CallsInv'
  OBVIOUS
<1>1. CASE UNCHANGED campaignVars
  <2>1. UNCHANGED <<identities, package, ledger, records, reports, proc, sent, unseen>>
    BY <1>1 DEF campaignVars, disk, ghosts
  <2>2. CampaignType'
    BY <2>1 DEF CallsInv, CampaignType, PlannedCalls
  <2>3. \A x, y, z : Founded(x, y, z)' <=> Founded(x, y, z)
    BY <2>1 DEF Founded, CallsOf, Calls
  <2>4. CallsAreHeld' /\ OneAsks'
    BY <2>1, <2>3 DEF CallsInv, CallsAreHeld, OneAsks, Asks, Calls, PlannedCalls
  <2>5. \A p \in Procs : Stands(proc[p])'
    BY <2>1, <2>3 DEF CallsInv, Stands
  <2> QED BY <2>1, <2>2, <2>4, <2>5 DEF CallsInv
<1>2. CASE \E id \in identities : Authorize(id)
  BY <1>2, AuthorizeKeeps
<1>3. ASSUME NEW p \in Procs, Step(p) PROVE CallsInv'
  BY <1>3, StartKeepsCalls, NextRunKeeps, SetUpKeeps, TakeTurnKeeps, SendKeeps, AnswerKeeps,
     CorrectedPassKeeps, FinishRunKeeps, KeepRunKeeps, CheckRecordKeeps, WriteRecordKeeps,
     BuildReportKeeps, PublishReportKeeps, CrashKeepsCalls DEF Step
<1> QED BY <1>1, <1>2, <1>3 DEF CampaignNext

LEMMA CallsInvHolds == CampaignSpec => []CallsInv
  BY CallsInvInit, CallsInvNext, PTL DEF CampaignSpec

LEMMA CallsAreInvocations ==
  ASSUME CallsInv, NEW id \in identities
  PROVE  /\ Calls(id) \subseteq Invocations(ledger[id])
         /\ IsFiniteSet(Invocations(ledger[id])) /\ IsFiniteSet(Calls(id))
         /\ Cardinality(Calls(id)) <= Cardinality(Invocations(ledger[id]))
         /\ \A run : /\ CallsOf(id, run) \subseteq InvocationsOf(ledger[id], run)
                     /\ Cardinality(CallsOf(id, run)) \in Nat
                     /\ Cardinality(CallsOf(id, run)) <= Cardinality(InvocationsOf(ledger[id], run))
<1>1. Calls(id) \subseteq Invocations(ledger[id])
  BY DEF CallsInv, CallsAreHeld, Calls, PlannedCalls
<1>2. /\ IsFiniteSet(Invocations(ledger[id]))
      /\ \A run : IsFiniteSet(InvocationsOf(ledger[id], run))
  BY LedgerBasics, PlannedIsFinite DEF CallsInv, CampaignType
<1>3. \A run : CallsOf(id, run) \subseteq InvocationsOf(ledger[id], run)
  BY <1>1 DEF CallsOf, InvocationsOf
<1>4. /\ IsFiniteSet(Calls(id))
      /\ Cardinality(Calls(id)) <= Cardinality(Invocations(ledger[id]))
  BY <1>1, <1>2, FS_Subset
<1>5. \A run : /\ Cardinality(CallsOf(id, run)) \in Nat
               /\ Cardinality(CallsOf(id, run)) <= Cardinality(InvocationsOf(ledger[id], run))
  BY <1>2, <1>3, FS_Subset, FS_CardinalityType
<1> QED BY <1>1, <1>2, <1>3, <1>4, <1>5

(* DevelopmentBudgetLedger: for any number of processes, runs, turns, starts
   and crashes and any limits, the ledger holds every call before it is made,
   and the limits of the identity hold of the calls themselves. *)
THEOREM CallsAreGoverned == CampaignSpec => []LedgerGovernsCalls
<1>1. CallsInv => LedgerGovernsCalls
  <2> SUFFICES ASSUME CallsInv, NEW id \in identities
               PROVE  /\ \A call \in Planned(id) \X Turns : sent[id][call] <= 1
                      /\ Calls(id) \subseteq Invocations(ledger[id])
                      /\ {i \in Invocations(ledger[id]) :
                            ledger[id].calls[i].status = "completed"} \subseteq Calls(id)
                      /\ Cardinality(Calls(id)) <= Binding(id).ceiling
                      /\ \A run \in Planned(id) :
                           Cardinality(CallsOf(id, run)) <= Binding(id).perRun
                      /\ Binding(id).threshold > 0 =>
                           Tokens(ledger[id]) < Binding(id).threshold + Max(Usage)
    BY DEF LedgerGovernsCalls
  <2>1. /\ ledger[id] \in Ledgers(PlannedCalls(id)) /\ WithinLimits(Binding(id), ledger[id])
        /\ Binding(id) \in Bindings
    BY BindingIsTyped DEF CallsInv, CampaignType, CallsAreHeld
  <2>2. /\ Invocations(ledger[id]) \subseteq PlannedCalls(id)
        /\ Cardinality(Invocations(ledger[id])) \in Nat
        /\ \A run : Cardinality(InvocationsOf(ledger[id], run)) \in Nat
    BY <2>1, LedgerBasics, PlannedIsFinite
  <2>3. {i \in Invocations(ledger[id]) : ledger[id].calls[i].status = "completed"}
          \subseteq Calls(id)
    BY <2>2 DEF CallsInv, CallsAreHeld, Calls, PlannedCalls
  <2>4. Cardinality(Calls(id)) <= Binding(id).ceiling
    <3>1. Cardinality(Calls(id)) \in Nat
      BY CallsAreInvocations, FS_CardinalityType
    <3> QED BY <2>1, <2>2, <3>1, CallsAreInvocations DEF WithinLimits, Bindings
  <2>5. ASSUME NEW run \in Planned(id)
        PROVE  Cardinality(CallsOf(id, run)) <= Binding(id).perRun
    <3>1. run \in Nat
      BY PlannedIsFinite
    <3> QED BY <2>1, <2>2, <3>1, CallsAreInvocations DEF WithinLimits, Bindings
  <2>6. \A call \in Planned(id) \X Turns : sent[id][call] <= 1
    BY DEF CallsInv, CallsAreHeld, PlannedCalls
  <2> QED BY <2>1, <2>3, <2>4, <2>5, <2>6, CallsAreInvocations DEF WithinLimits
<1> QED BY <1>1, CallsInvHolds, PTL

-----------------------------------------------------------------------------
(* One process at a time *)

(* The calls of the runs add up to the calls of the identity. *)
LEMMA RunsAddUp ==
  ASSUME NEW R, R \subseteq Nat, IsFiniteSet(R), NEW l, IsFiniteSet(Invocations(l)),
         Invocations(l) \subseteq R \X Turns,
         NEW f, \A run \in R : f[run] = AttemptedBy(l, run)
  PROVE  SumOver(f, R) = Attempted(l)
<1> DEFINE within(u) == {i \in Invocations(l) : i[1] \in u}
           B == {u \in SUBSET R : SumOver(f, u) # Cardinality(within(u))}
<1>1. \A u : IsFiniteSet(within(u)) /\ Cardinality(within(u)) \in Nat
  <2> TAKE u
  <2>1. within(u) \in SUBSET Invocations(l)
    OBVIOUS
  <2> QED BY <2>1, FS_Subset, FS_CardinalityType
<1>2. within(R) = Invocations(l)
  OBVIOUS
<1>3. SUFFICES ASSUME B # {} PROVE FALSE
  <2>1. R \in SUBSET R /\ R \notin B
    BY <1>3
  <2> QED BY <1>2, <2>1 DEF Attempted
<1>4. PICK u \in B : \A v \in B : v \subseteq u => v = u
  <2>1. B \subseteq SUBSET R /\ B # {} /\ IsFiniteSet(R)
    BY <1>3
  <2> HIDE DEF B
  <2> QED BY ONLY <2>1, SmallestSet
<1>5. u \in SUBSET R /\ SumOver(f, u) # Cardinality(within(u))
  BY <1>4
<1>6. CASE u = {}
  <2>1. within(u) = {}
    BY <1>6
  <2>2. SumOver(f, u) = 0
    BY <1>6, FS_EmptySet, SumSteps
  <2> QED BY <1>5, <2>1, <2>2, FS_EmptySet
<1>7. CASE u # {}
  <2>1. PICK c \in u : TRUE
    BY <1>7
  <2> DEFINE v == u \ {c}
  <2>2. v \in SUBSET R /\ v # u /\ v \subseteq u
    BY <1>5, <2>1
  <2>3. SumOver(f, v) = Cardinality(within(v))
    <3>1. v \notin B
      BY <1>4, <2>2
    <3> HIDE DEF v
    <3> QED BY <2>2, <3>1
  <2>4. \A run \in R : f[run] \in Nat
    <3> SUFFICES ASSUME NEW run \in R PROVE f[run] \in Nat
      OBVIOUS
    <3>1. InvocationsOf(l, run) \in SUBSET Invocations(l)
      BY DEF InvocationsOf
    <3> QED BY <3>1, FS_Subset, FS_CardinalityType DEF AttemptedBy
  <2>5. SumOver(f, u) = f[c] + SumOver(f, v)
    <3>1. IsFiniteSet(u) /\ \A run \in u : f[run] \in Nat
      BY <1>5, <2>4, FS_Subset
    <3>2. c \in u
      BY <2>1
    <3> QED BY ONLY <3>1, <3>2, SumSplits DEF v
  <2>6. /\ within(u) = within(v) \cup InvocationsOf(l, c)
        /\ within(v) \cap InvocationsOf(l, c) = {}
    BY <2>1 DEF InvocationsOf
  <2>7. IsFiniteSet(InvocationsOf(l, c)) /\ Cardinality(InvocationsOf(l, c)) = f[c]
    <3>1. InvocationsOf(l, c) \in SUBSET Invocations(l)
      BY DEF InvocationsOf
    <3> QED BY <1>5, <2>1, <3>1, FS_Subset DEF AttemptedBy
  <2> HIDE DEF within, v
  <2>8. Cardinality(within(u)) = Cardinality(within(v)) + f[c]
    <3>1. Cardinality(within(v) \cup InvocationsOf(l, c)) =
            Cardinality(within(v)) + Cardinality(InvocationsOf(l, c))
              - Cardinality(within(v) \cap InvocationsOf(l, c))
      BY <1>1, <2>7, FS_Union
    <3>2. Cardinality(within(v) \cap InvocationsOf(l, c)) = 0
      BY <2>6, FS_EmptySet
    <3>3. Cardinality(within(v)) \in Nat /\ f[c] \in Nat
      BY <1>1, <1>5, <2>1, <2>4, FS_CardinalityType
    <3> QED BY ONLY <2>6, <2>7, <3>1, <3>2, <3>3
  <2> QED BY <1>1, <1>5, <2>1, <2>3, <2>4, <2>5, <2>8
<1> QED BY <1>6, <1>7

(* The reports that FavourableMeansComplete is about, and what they rest on. *)
Favours(id, conclusion) ==
    \/ conclusion \in {"ADOPT_AGENT", "KEEP_EXPERIMENTAL", "passed"}
    \/ id \in Development /\ conclusion = "PREFER_WORKFLOW"

RestsOnRuns(id) ==
    \A run \in Planned(id) :
        /\ id # "canary" => records[id][run].status = "completed" /\ records[id][run].good
        /\ IsAgent(id, run) => CallsOf(id, run) # {}

Speaks(id, report) ==
    /\ report.calls = Attempted(ledger[id]) /\ report.recorded = Attempted(ledger[id])
    /\ Favours(id, report.conclusion) => RestsOnRuns(id)

Whole(id) == \A run \in Planned(id) : records[id][run] # Torn

RecordsCount(id) ==
    \A run \in Stored(id) :
        records[id][run] # Torn => records[id][run].calls = AttemptedBy(ledger[id], run)

ReportSpeaks(id) ==
    IsReport(reports[id]) =>
      /\ Speaks(id, reports[id])
      /\ id # "canary" => Whole(id) /\ Stored(id) = Planned(id)

Excused(id) == reports[id] # NoReport \/ ~Whole(id)

(* The only process at work on its identity executes what has no record. *)
AtWork(r) ==
    /\ r.id # "canary" =>
         /\ Whole(r.id) /\ r.at # "report"
         /\ r.at \in RunStages \cup {"ready"} => r.seen = Stored(r.id)
         /\ r.at \in RunStages => r.run \notin Stored(r.id)
         /\ r.at = "publish" => Stored(r.id) = Planned(r.id)
    /\ r.id = "canary" => reports["canary"] = NoReport
    /\ r.at \in {"save", "write"} => r.paper.calls = AttemptedBy(ledger[r.id], r.run)
    /\ r.at = "publish" => IsReport(r.report) /\ Speaks(r.id, r.report)

OneWorks ==
    \A p, q \in Procs : Works(p) /\ Works(q) /\ proc[p].id = proc[q].id
                        => p = q \/ proc[p].id \in overlapped

(* The canary keeps its records in memory. *)
CanaryWritesNone ==
    /\ "canary" \in identities => Stored("canary") = {}
    /\ \A p \in Procs : proc[p].at = "write" => proc[p].id # "canary"

Fares(r) ==
    r.id \in identities \ overlapped =>
      /\ r.at \notin Ended => AtWork(r)
      /\ r.at = "failed" /\ r.id # "canary" => Excused(r.id)

AloneInv ==
    /\ OneWorks /\ CanaryWritesNone
    /\ \A id \in identities \ overlapped : RecordsCount(id) /\ ReportSpeaks(id)
    /\ \A p \in Procs : Fares(proc[p])

LEMMA AloneInvInit == CampaignInit => AloneInv
<1> SUFFICES ASSUME CampaignInit PROVE AloneInv
  OBVIOUS
<1>1. \A p \in Procs : proc[p] = Absent
  BY DEF CampaignInit
<1>2. OneWorks /\ \A p \in Procs : Fares(proc[p])
  BY <1>1, AbsentIsTyped DEF OneWorks, Works, Ended, Fares
<1>3. \A id \in identities : Stored(id) = {} /\ ~IsReport(reports[id])
  BY DEF CampaignInit, Stored, IsReport, NoReport
<1> QED BY <1>1, <1>2, <1>3, AbsentIsTyped
    DEF AloneInv, CanaryWritesNone, RecordsCount, ReportSpeaks

(* What these say is said of the invocations of the ledger, not of its stop,
   and is not lost when a call is made. *)
LEMMA FilesKept ==
  ASSUME CallsInv, NEW id \in identities, UNCHANGED identities,
         records'[id] = records[id], reports'[id] = reports[id],
         Invocations(ledger'[id]) = Invocations(ledger[id]), Calls(id) \subseteq Calls(id)'
  PROVE  /\ RecordsCount(id) => RecordsCount(id)'
         /\ ReportSpeaks(id) => ReportSpeaks(id)'
         /\ Excused(id) <=> Excused(id)'
         /\ Stored(id)' = Stored(id) /\ (Whole(id)' <=> Whole(id))
         /\ \A run : AttemptedBy(ledger'[id], run) = AttemptedBy(ledger[id], run)
         /\ \A report : Speaks(id, report) => Speaks(id, report)'
         /\ \A r : r.id = id /\ AtWork(r) => AtWork(r)'
<1>1. /\ Attempted(ledger'[id]) = Attempted(ledger[id])
      /\ \A run : AttemptedBy(ledger'[id], run) = AttemptedBy(ledger[id], run)
  BY DEF Attempted, AttemptedBy, InvocationsOf
<1>2. \A run : CallsOf(id, run) # {} => CallsOf(id, run)' # {}
  BY DEF CallsOf
<1>3. RestsOnRuns(id) => RestsOnRuns(id)'
  BY <1>2 DEF RestsOnRuns
<1>4. \A report : Speaks(id, report) => Speaks(id, report)'
  BY <1>1, <1>3 DEF Speaks, Favours
<1>5. Stored(id)' = Stored(id) /\ (Whole(id)' <=> Whole(id)) /\ (Excused(id) <=> Excused(id)')
  BY DEF Stored, Whole, Excused
<1>6. RecordsCount(id) => RecordsCount(id)'
  BY <1>1, <1>5 DEF RecordsCount
<1>7. ReportSpeaks(id) => ReportSpeaks(id)'
  BY <1>4, <1>5 DEF ReportSpeaks, IsReport
<1>8. \A r : r.id = id /\ AtWork(r) => AtWork(r)'
  BY <1>1, <1>4, <1>5 DEF AtWork, IsReport
<1> QED BY <1>1, <1>4, <1>5, <1>6, <1>7, <1>8

(* A step of a process on its identity i, in which no other process works
   unless i counts as overlapped. *)
LEMMA StepAlone ==
  ASSUME CallsInv, AloneInv, NEW p \in Procs, NEW i \in identities, UNCHANGED identities,
         \A q \in Procs : q # p => proc'[q] = proc[q],
         \A id \in identities : id # i => /\ records'[id] = records[id]
                                          /\ reports'[id] = reports[id]
                                          /\ Invocations(ledger'[id]) = Invocations(ledger[id])
                                          /\ Calls(id) \subseteq Calls(id)',
         overlapped' \in {overlapped, overlapped \cup {i}},
         proc'[p].id = i \/ proc'[p].at = "down",
         proc'[p].at = "write" => i # "canary", i = "canary" => records' = records,
         i \notin overlapped' =>
           /\ \A q \in Procs : q # p /\ Works(q) => proc[q].id # i
           /\ RecordsCount(i)' /\ ReportSpeaks(i)' /\ (Excused(i) => Excused(i)')
           /\ Works(p)' => AtWork(proc[p])'
           /\ proc'[p].at = "failed" /\ i # "canary" => Excused(i)'
  PROVE  AloneInv'
<1>1. OneWorks'
  BY DEF AloneInv, OneWorks, Works, Ended
<1>2. CanaryWritesNone'
  <2>1. "canary" \in identities => records'["canary"] = records["canary"]
    OBVIOUS
  <2>2. \A q \in Procs : proc'[q].at = "write" => proc'[q].id # "canary"
    BY DEF AloneInv, CanaryWritesNone
  <2> QED BY <2>1, <2>2 DEF AloneInv, CanaryWritesNone, Stored
<1>3. \A id \in identities \ overlapped' : RecordsCount(id)' /\ ReportSpeaks(id)'
  BY FilesKept DEF AloneInv
<1>4. ASSUME NEW q \in Procs, q # p PROVE Fares(proc[q])'
  <2>1. PICK r : r = proc[q] /\ r = proc'[q]
    BY <1>4
  <2>2. SUFFICES ASSUME r.id \in identities \ overlapped'
                 PROVE  /\ r.at \notin Ended => AtWork(r)'
                        /\ r.at = "failed" /\ r.id # "canary" => Excused(r.id)'
    BY <2>1 DEF Fares
  <2>3. /\ r.at \notin Ended => AtWork(r)
        /\ r.at = "failed" /\ r.id # "canary" => Excused(r.id)
    BY <2>1, <2>2 DEF AloneInv, Fares
  <2>4. CASE r.id = i
    BY <1>4, <2>1, <2>2, <2>3, <2>4 DEF Works
  <2>5. CASE r.id # i
    <3>1. PICK id \in identities : id = r.id
      BY <2>2
    <3> QED BY <2>3, <2>5, <3>1, FilesKept
  <2> QED BY <2>4, <2>5
<1>5. Fares(proc[p])'
  BY DEF Fares, Works, Ended
<1>6. \A q \in Procs : Fares(proc[q])'
  BY <1>4, <1>5
<1> QED BY <1>1, <1>2, <1>3, <1>6 DEF AloneInv

(* A step of a process at work that touches no file but to answer a call or stop. *)
LEMMA LoneMoves ==
  ASSUME CallsInv, AloneInv, NEW p \in Procs, Works(p),
         \A q \in Procs : q # p => proc'[q] = proc[q],
         UNCHANGED <<identities, records, reports, overlapped>>,
         \A id \in identities : Invocations(ledger'[id]) = Invocations(ledger[id]),
         \A id \in identities : Calls(id) \subseteq Calls(id)',
         proc'[p].id = proc[p].id,
         proc'[p].at = "write" => proc'[p].id # "canary",
         proc[p].id \in identities \ overlapped /\ AtWork(proc[p])
           => /\ proc'[p].at \notin Ended => AtWork(proc'[p])
              /\ proc'[p].at = "failed" /\ proc'[p].id # "canary" => Excused(proc'[p].id)
  PROVE  AloneInv'
<1>1. Stands(proc[p]) /\ proc[p].at \notin Ended /\ Fares(proc[p])
  BY DEF CallsInv, AloneInv, Works
<1>2. PICK i \in identities : i = proc[p].id
  BY <1>1 DEF Stands, Ended
<1>3. i \notin overlapped => AtWork(proc[p])
  BY <1>1, <1>2 DEF Fares
<1>4. \A q \in Procs : q # p /\ Works(q) => proc[q].id # i \/ i \in overlapped
  BY <1>2 DEF AloneInv, OneWorks
<1>5. i \notin overlapped => RecordsCount(i)' /\ ReportSpeaks(i)' /\ (Excused(i) => Excused(i)')
  BY FilesKept DEF AloneInv
<1>6. i \notin overlapped /\ Works(p)' => AtWork(proc[p])'
  <2>1. PICK r : r = proc'[p]
    OBVIOUS
  <2>2. i \notin overlapped /\ Works(p)' => AtWork(r)'
    BY <1>2, <1>3, <2>1, FilesKept DEF Works
  <2> QED BY <2>1, <2>2
<1>7. i \notin overlapped /\ proc'[p].at = "failed" /\ i # "canary" => Excused(i)'
  BY <1>2, <1>3, FilesKept
<1> QED BY <1>2, <1>4, <1>5, <1>6, <1>7, StepAlone

LEMMA QuietAlone ==
  ASSUME CallsInv, AloneInv, NEW p \in Procs, proc[p].at \in RunStages \cup {"ready"},
         \A q \in Procs : q # p => proc'[q] = proc[q],
         UNCHANGED <<identities, records, reports, overlapped>>,
         \A id \in identities : Invocations(ledger'[id]) = Invocations(ledger[id]),
         \A id \in identities : Calls(id) \subseteq Calls(id)',
         proc'[p].id = proc[p].id, proc'[p].seen = proc[p].seen,
         proc'[p].at \in RunStages \ {"write"},
         AtWork(proc[p]) /\ proc[p].id # "canary" => proc'[p].run \notin Stored(proc[p].id),
         proc'[p].at = "save"
           => proc'[p].paper.calls = AttemptedBy(ledger[proc[p].id], proc'[p].run)
  PROVE  AloneInv'
<1>1. Works(p)
  BY DEF Works, Ended, RunStages
<1>2. AtWork(proc[p]) => AtWork(proc'[p])
  BY DEF AtWork, RunStages
<1>3. proc'[p].at # "write" /\ proc'[p].at # "failed"
  BY DEF RunStages
<1> QED BY <1>1, <1>2, <1>3, LoneMoves

LEMMA EndsSays ==
  ASSUME CallsInv, NEW p \in Procs, NEW run, NEW status, NEW good, Ends(p, run, status, good)
  PROVE  /\ \A q \in Procs : q # p => proc'[q] = proc[q]
         /\ proc'[p].at = "save" /\ proc'[p].id = proc[p].id /\ proc'[p].run = run
         /\ proc'[p].seen = proc[p].seen
         /\ proc'[p].paper.calls = AttemptedBy(ledger'[proc[p].id], run)
<1> DEFINE paper == Record(ledger'[proc[p].id], run, status, good)
           r == [proc[p] EXCEPT !.at = "save", !.run = run, !.paper = paper]
<1>1. proc \in [Procs -> Processes] /\ proc[p] \in Processes
  BY DEF CallsInv, CampaignType
<1>2. proc' = [proc EXCEPT ![p] = r]
  BY <1>1 DEF Ends
<1>3. paper.calls = AttemptedBy(ledger'[proc[p].id], run)
  BY DEF Record
<1> HIDE DEF paper
<1>4. r.at = "save" /\ r.id = proc[p].id /\ r.run = run /\ r.seen = proc[p].seen /\ r.paper = paper
  BY <1>1 DEF Processes
<1> HIDE DEF r
<1> QED BY <1>1, <1>2, <1>3, <1>4

(* The end of a run. *)
LEMMA EndsAlone ==
  ASSUME CallsInv, AloneInv, NEW p \in Procs, proc[p].at \in RunStages \cup {"ready"},
         NEW run, NEW status, NEW good, Ends(p, run, status, good),
         UNCHANGED <<identities, records, reports, sent, overlapped>>,
         \A id \in identities : Invocations(ledger'[id]) = Invocations(ledger[id]),
         AtWork(proc[p]) /\ proc[p].id # "canary" => run \notin Stored(proc[p].id)
  PROVE  AloneInv'
<1>1. proc[p].id \in identities
  BY DEF CallsInv, Stands, RunStages
<1>2. AttemptedBy(ledger'[proc[p].id], run) = AttemptedBy(ledger[proc[p].id], run)
  BY <1>1 DEF AttemptedBy, InvocationsOf
<1>3. \A id \in identities : Calls(id) \subseteq Calls(id)'
  BY DEF Calls
<1>4. "save" \in RunStages \ {"write"}
  BY DEF RunStages
<1> QED BY <1>2, <1>3, <1>4, EndsSays, QuietAlone

LEMMA NextRunAlone == ASSUME CallsInv, AloneInv, NEW p \in Procs, NextRun(p) PROVE AloneInv'
<1> DEFINE run == Min(Left(p))
<1>1. UNCHANGED <<identities, ledger, records, reports, sent, overlapped>>
      /\ proc[p].at = "ready" /\ Left(p) # {}
  BY DEF NextRun, disk, ghosts
<1>2. proc[p] \in Processes /\ proc \in [Procs -> Processes]
  BY DEF CallsInv, CampaignType
<1>3. run \in Left(p)
  <2>1. Left(p) \subseteq Nat
    BY PlannedIsFinite DEF Left
  <2> QED BY <1>1, <2>1, LeastNumber
<1> HIDE DEF run
<1>4. AtWork(proc[p]) /\ proc[p].id # "canary" => run \notin Stored(proc[p].id)
  BY <1>1, <1>3 DEF AtWork, Left
<1>5. CASE Ends(p, run, "failed", FALSE)
  BY <1>1, <1>4, <1>5, EndsAlone
<1>6. CASE proc' = [proc EXCEPT ![p].at = "setup", ![p].run = run, ![p].turn = 0]
  <2>1. /\ \A q \in Procs : q # p => proc'[q] = proc[q]
        /\ proc'[p].at = "setup" /\ proc'[p].id = proc[p].id /\ proc'[p].run = run
        /\ proc'[p].seen = proc[p].seen
    BY <1>2, <1>6 DEF Processes
  <2>2. \A id \in identities : Calls(id) \subseteq Calls(id)'
    BY <1>1 DEF Calls
  <2>3. "setup" \in RunStages \ {"write"} /\ "setup" # "save"
    BY DEF RunStages
  <2> QED BY <1>1, <1>4, <2>1, <2>2, <2>3, QuietAlone
<1> QED BY <1>5, <1>6 DEF NextRun, run

(* A step to another stage of the run. *)
LEMMA StageAlone ==
  ASSUME CallsInv, AloneInv, NEW p \in Procs, proc[p].at \in RunStages,
         NEW at \in RunStages \ {"save", "write"}, proc' = [proc EXCEPT ![p].at = at],
         UNCHANGED <<identities, records, reports, overlapped>>,
         \A id \in identities : Invocations(ledger'[id]) = Invocations(ledger[id]),
         \A id \in identities : Calls(id) \subseteq Calls(id)'
  PROVE  AloneInv'
<1>1. at \in Stages
  BY DEF Stages
<1>2. AtWork(proc[p]) /\ proc[p].id # "canary" => proc[p].run \notin Stored(proc[p].id)
  BY DEF AtWork
<1>3. /\ \A q \in Procs : q # p => proc'[q] = proc[q]
      /\ proc'[p].at = at /\ proc'[p].id = proc[p].id /\ proc'[p].run = proc[p].run
      /\ proc'[p].seen = proc[p].seen
  BY <1>1, StageChanges
<1>4. proc'[p].at \in RunStages \ {"write"} /\ proc'[p].at # "save"
  BY <1>3
<1>5. AtWork(proc[p]) /\ proc[p].id # "canary" => proc'[p].run \notin Stored(proc[p].id)
  BY <1>2, <1>3
<1> QED BY <1>3, <1>4, <1>5, QuietAlone

LEMMA SetUpAlone == ASSUME CallsInv, AloneInv, NEW p \in Procs, SetUp(p) PROVE AloneInv'
<1>1. /\ UNCHANGED <<identities, ledger, records, reports, sent, overlapped>>
      /\ proc[p].at \in RunStages
  BY DEF SetUp, ghosts, RunStages
<1>2. AtWork(proc[p]) /\ proc[p].id # "canary" => proc[p].run \notin Stored(proc[p].id)
  BY <1>1 DEF AtWork
<1>3. CASE \E status \in {"collision", "failed"} : Ends(p, proc[p].run, status, FALSE)
  BY <1>1, <1>2, <1>3, EndsAlone
<1>4. CASE proc' = [proc EXCEPT ![p].at = "select"]
  <2>1. /\ "select" \in RunStages \ {"save", "write"}
        /\ \A id \in identities : Calls(id) \subseteq Calls(id)'
    BY <1>1 DEF RunStages, Calls
  <2> QED BY <1>1, <1>4, <2>1, StageAlone
<1> QED BY <1>3, <1>4 DEF SetUp

LEMMA CorrectedPassAlone ==
  ASSUME CallsInv, AloneInv, NEW p \in Procs, CorrectedPass(p) PROVE AloneInv'
<1>1. /\ UNCHANGED <<identities, ledger, records, reports, sent, overlapped>>
      /\ proc[p].at \in RunStages /\ proc' = [proc EXCEPT ![p].at = "corrected"]
  BY DEF CorrectedPass, disk, RunStages
<1>2. /\ "corrected" \in RunStages \ {"save", "write"}
      /\ \A id \in identities : Calls(id) \subseteq Calls(id)'
  BY <1>1 DEF RunStages, Calls
<1> QED BY <1>1, <1>2, StageAlone

LEMMA FinishRunAlone == ASSUME CallsInv, AloneInv, NEW p \in Procs, FinishRun(p) PROVE AloneInv'
<1>1. /\ UNCHANGED <<identities, ledger, records, reports, sent, overlapped>>
      /\ proc[p].at \in RunStages
  BY DEF FinishRun, disk, ghosts, RunStages
<1>2. AtWork(proc[p]) /\ proc[p].id # "canary" => proc[p].run \notin Stored(proc[p].id)
  BY <1>1 DEF AtWork
<1>3. PICK status, good : Ends(p, proc[p].run, status, good)
  BY DEF FinishRun
<1> QED BY <1>1, <1>2, <1>3, EndsAlone

LEMMA SendAlone == ASSUME CallsInv, AloneInv, NEW p \in Procs, Send(p) PROVE AloneInv'
<1> DEFINE id == proc[p].id
           c == <<proc[p].run, proc[p].turn>>
<1>1. /\ UNCHANGED <<identities, ledger, records, reports, overlapped>>
      /\ proc[p].at \in RunStages /\ proc' = [proc EXCEPT ![p].at = "wait"]
      /\ sent' = [sent EXCEPT ![id][c] = @ + 1]
  BY DEF Send, disk, RunStages
<1>2. ASSUME NEW x \in identities, NEW call \in PlannedCalls(x), sent[x][call] > 0
      PROVE  sent'[x][call] > 0
  <2>1. /\ Table(sent, identities) /\ sent[x] \in [PlannedCalls(x) -> Nat]
    BY DEF CallsInv, CampaignType
  <2>2. sent'[x] = IF x = id THEN [sent[x] EXCEPT ![c] = @ + 1] ELSE sent[x]
    BY <1>1, <2>1 DEF Table
  <2> HIDE DEF c, id
  <2> QED BY <1>2, <2>1, <2>2
<1>3. \A x \in identities : Calls(x) \subseteq Calls(x)'
  BY <1>2 DEF Calls, PlannedCalls
<1>4. "wait" \in RunStages \ {"save", "write"}
  BY DEF RunStages
<1> QED BY <1>1, <1>3, <1>4, StageAlone

LEMMA AnswerAlone == ASSUME CallsInv, AloneInv, NEW p \in Procs, Answer(p) PROVE AloneInv'
<1> DEFINE id == proc[p].id
           run == proc[p].run
           turn == proc[p].turn
<1>1. /\ UNCHANGED <<identities, records, reports, sent, overlapped>>
      /\ proc[p].at = "wait" /\ proc[p].at \in RunStages /\ Stands(proc[p])
  BY DEF Answer, ghosts, RunStages, CallsInv
<1>2. PICK status \in {"completed", "failed"}, tokens \in Usage \cup {Unreported} :
        /\ ledger' = [ledger EXCEPT ![id] = Complete(Binding(id), @, run, turn, status, tokens)]
        /\ IF status = "completed" THEN proc' = [proc EXCEPT ![p].at = "select"]
                                   ELSE Ends(p, run, "failed", FALSE)
  BY DEF Answer
<1> DEFINE m == Complete(Binding(id), ledger[id], run, turn, status, tokens)
<1>3. id \in identities /\ <<run, turn>> \in Pending(ledger[id])
  BY <1>1 DEF Stands, RunStages
<1>4. /\ ledger[id] \in Ledgers(PlannedCalls(id)) /\ Binding(id) \in Bindings
      /\ WithinLimits(Binding(id), ledger[id]) /\ IsFiniteSet(PlannedCalls(id))
      /\ Table(ledger, identities)
  BY <1>3, BindingIsTyped, PlannedIsFinite DEF CallsInv, CampaignType, CallsAreHeld
<1>5. Invocations(m) = Invocations(ledger[id])
  <2> HIDE DEF id, run, turn
  <2> QED BY <1>3, <1>4, CompleteKeeps
<1>6. ledger' = [ledger EXCEPT ![id] = m]
  BY <1>2
<1> HIDE DEF m
<1>7. \A x \in identities : Invocations(ledger'[x]) = Invocations(ledger[x])
  BY <1>4, <1>5, <1>6 DEF Table
<1>8. CASE status = "completed"
  <2>1. /\ "select" \in RunStages \ {"save", "write"}
        /\ \A x \in identities : Calls(x) \subseteq Calls(x)'
    BY <1>1 DEF RunStages, Calls
  <2> QED BY <1>1, <1>2, <1>7, <1>8, <2>1, StageAlone
<1>9. CASE status # "completed"
  <2>1. AtWork(proc[p]) /\ proc[p].id # "canary" => proc[p].run \notin Stored(proc[p].id)
    BY <1>1 DEF AtWork
  <2> QED BY <1>1, <1>2, <1>7, <1>9, <2>1, EndsAlone
<1> QED BY <1>8, <1>9

(* While the process that executes a run works alone, its run has no record
   and its identity no report. *)
LEMMA RunIsOpen ==
  ASSUME CallsInv, AloneInv, NEW p \in Procs, proc[p].at \in RunStages, proc[p].id \notin overlapped
  PROVE  /\ AtWork(proc[p]) /\ proc[p].id \in identities /\ proc[p].run \in Planned(proc[p].id)
         /\ proc[p].run \notin Stored(proc[p].id) /\ ~IsReport(reports[proc[p].id])
         /\ \A q \in Procs : q # p /\ Works(q) => proc[q].id # proc[p].id
<1>1. Stands(proc[p]) /\ Works(p)
  BY DEF CallsInv, RunStages, Works, Ended
<1>2. proc[p].id \in identities /\ proc[p].run \in Planned(proc[p].id)
  BY <1>1 DEF Stands, RunStages
<1>3. AtWork(proc[p])
  BY <1>1, <1>2 DEF AloneInv, Fares, Works
<1>4. \A q \in Procs : q # p /\ Works(q) => proc[q].id # proc[p].id
  BY <1>1 DEF AloneInv, OneWorks
<1>5. CASE proc[p].id = "canary"
  BY <1>2, <1>3, <1>4, <1>5 DEF AtWork, AloneInv, CanaryWritesNone, IsReport, NoReport
<1>6. CASE proc[p].id # "canary"
  <2>1. proc[p].run \notin Stored(proc[p].id)
    BY <1>3, <1>6 DEF AtWork
  <2>2. ReportSpeaks(proc[p].id)
    BY <1>2 DEF AloneInv
  <2> QED BY <1>2, <1>3, <1>4, <1>6, <2>1, <2>2 DEF ReportSpeaks
<1> QED BY <1>5, <1>6

LEMMA TakeTurnAlone == ASSUME CallsInv, AloneInv, NEW p \in Procs, TakeTurn(p) PROVE AloneInv'
<1> DEFINE id == proc[p].id
           run == proc[p].run
           b == Binding(id)
           turn == proc[p].turn + 1
           c == <<run, turn>>
           answer == Admission(b, ledger[id], run, turn)
<1>1. /\ UNCHANGED <<identities, records, reports, sent, overlapped>>
      /\ proc[p].at = "select" /\ proc[p].turn < MaxTurns /\ Stands(proc[p])
      /\ proc[p].at \in RunStages /\ proc[p] \in Processes /\ proc \in [Procs -> Processes]
  BY DEF TakeTurn, ghosts, CallsInv, CampaignType, RunStages
<1>2. /\ id \in identities /\ run \in Planned(id) /\ run \in Nat /\ c \in PlannedCalls(id)
  BY <1>1, CampaignConstants, PlannedIsFinite
  DEF Stands, RunStages, Processes, Turns, PlannedCalls
<1>3. /\ ledger[id] \in Ledgers(PlannedCalls(id)) /\ b \in Bindings
      /\ WithinLimits(b, ledger[id]) /\ IsFiniteSet(PlannedCalls(id))
      /\ Table(ledger, identities)
  BY <1>2, BindingIsTyped, PlannedIsFinite DEF CallsInv, CampaignType, CallsAreHeld
<1>4. CASE answer # "admitted"
  <2> DEFINE m == IF IsGlobalStop(b, ledger[id], answer)
                  THEN ForceStop(b, ledger[id], answer) ELSE ledger[id]
  <2>1. ledger' = [ledger EXCEPT ![id] = m] /\ Ends(p, run, "failed", FALSE)
    BY <1>4 DEF TakeTurn
  <2>2. Invocations(m) = Invocations(ledger[id])
    BY <1>3, ForcedStop DEF Invocations
  <2> HIDE DEF m
  <2>3. \A x \in identities : Invocations(ledger'[x]) = Invocations(ledger[x])
    BY <1>2, <1>3, <2>1, <2>2 DEF Table
  <2>4. AtWork(proc[p]) /\ proc[p].id # "canary" => proc[p].run \notin Stored(proc[p].id)
    BY <1>1 DEF AtWork
  <2> QED BY <1>1, <2>1, <2>3, <2>4, EndsAlone
<1>5. CASE answer = "admitted"
  <2> DEFINE m == Admit(ledger[id], run, turn)
  <2>1. ledger' = [ledger EXCEPT ![id] = m]
        /\ proc' = [proc EXCEPT ![p].at = "call", ![p].turn = turn]
    BY <1>5 DEF TakeTurn
  <2>2. /\ \A q \in Procs : q # p => proc'[q] = proc[q]
        /\ proc'[p].at = "call" /\ proc'[p].id = id /\ proc'[p].run = run
        /\ proc'[p].seen = proc[p].seen
    BY <1>1, <2>1 DEF Processes
  <2>3. Invocations(m) = Invocations(ledger[id]) \cup {c}
    <3> HIDE DEF turn, run, b, id
    <3> QED BY <1>2, <1>3, <1>5, AdmitKeeps DEF answer
  <2> HIDE DEF m, answer, b
  <2>4. /\ ledger'[id] = m
        /\ \A x \in identities : x # id => Invocations(ledger'[x]) = Invocations(ledger[x])
    BY <1>2, <1>3, <2>1 DEF Table
  <2>5. \A x \in identities : Calls(x) \subseteq Calls(x)'
    BY <1>1 DEF Calls
  <2>6. \A y : y # run => AttemptedBy(m, y) = AttemptedBy(ledger[id], y)
    <3>1. \A y : y # run => InvocationsOf(m, y) = InvocationsOf(ledger[id], y)
      BY <2>3 DEF InvocationsOf
    <3> QED BY <3>1 DEF AttemptedBy
  <2>7. PICK i \in identities : i = id
    BY <1>2
  <2>8. Stored(i)' = Stored(i) /\ (Whole(i)' <=> Whole(i)) /\ (Excused(i)' <=> Excused(i))
    BY <1>1 DEF Stored, Whole, Excused
  <2>9. i \notin overlapped => RecordsCount(i)' /\ ReportSpeaks(i)'
    <3> SUFFICES ASSUME i \notin overlapped PROVE RecordsCount(i)' /\ ReportSpeaks(i)'
      OBVIOUS
    <3>1. run \notin Stored(i) /\ ~IsReport(reports[i])
      BY <1>1, <2>7, RunIsOpen
    <3>2. RecordsCount(i) /\ ledger'[i] = m /\ ledger[i] = ledger[id]
      BY <2>4, <2>7 DEF AloneInv
    <3> HIDE DEF id
    <3>3. RecordsCount(i)'
      <4>1. \A y \in Stored(i) : y # run
        BY <3>1
      <4> HIDE DEF run
      <4> QED BY <1>1, <2>6, <2>8, <3>2, <4>1 DEF RecordsCount
    <3>4. ReportSpeaks(i)'
      BY <1>1, <3>1 DEF ReportSpeaks, IsReport
    <3> QED BY <3>3, <3>4
  <2>10. id \notin overlapped => AtWork(proc[p])'
    <3> SUFFICES ASSUME id \notin overlapped PROVE AtWork(proc[p])'
      OBVIOUS
    <3>1. AtWork(proc[p])
      BY <1>1, RunIsOpen
    <3> QED BY <1>1, <2>2, <2>7, <2>8, <3>1 DEF AtWork, RunStages
  <2>11. id \notin overlapped => \A q \in Procs : q # p /\ Works(q) => proc[q].id # id
    BY <1>1, RunIsOpen
  <2> QED BY <1>1, <2>2, <2>4, <2>5, <2>7, <2>8, <2>9, <2>10, <2>11, StepAlone
<1> QED BY <1>4, <1>5

LEMMA KeepRunAlone == ASSUME CallsInv, AloneInv, NEW p \in Procs, KeepRun(p) PROVE AloneInv'
<1>1. /\ UNCHANGED <<identities, ledger, records, reports, sent, overlapped>>
      /\ proc[p].id = "canary" /\ Works(p) /\ proc \in [Procs -> Processes]
  BY DEF KeepRun, disk, ghosts, Works, Ended, CallsInv, CampaignType
<1>2. PICK at, seen, mine :
        at \in {"report", "ready"} /\ proc' = [proc EXCEPT ![p] = At("canary", at, seen, mine)]
  <2> DEFINE mine == [r \in DOMAIN proc[p].mine \cup {proc[p].run} |->
                        IF r = proc[p].run THEN proc[p].paper ELSE proc[p].mine[r]]
             seen == proc[p].seen \cup {proc[p].run}
  <2>1. \/ proc' = [proc EXCEPT ![p] = At("canary", "report", seen, mine)]
        \/ proc' = [proc EXCEPT ![p] = At("canary", "ready", seen, mine)]
    BY <1>1 DEF KeepRun
  <2> HIDE DEF mine, seen
  <2> QED BY ONLY <2>1
<1>3. /\ \A q \in Procs : q # p => proc'[q] = proc[q]
      /\ proc'[p].id = "canary" /\ proc'[p].at = at
  BY <1>1, <1>2, AtSays
<1>4. AtWork(proc[p]) => AtWork(proc'[p])
  BY <1>1, <1>2, <1>3 DEF AtWork
<1>5. \A id \in identities : Calls(id) \subseteq Calls(id)'
  BY <1>1 DEF Calls
<1>6. proc'[p].at # "write" /\ proc'[p].at # "failed"
  BY <1>2, <1>3
<1> QED BY <1>1, <1>3, <1>4, <1>5, <1>6, LoneMoves

(* Working alone, a process never meets a record of the run it executed. *)
LEMMA CheckRecordAlone == ASSUME CallsInv, AloneInv, NEW p \in Procs, CheckRecord(p) PROVE AloneInv'
<1>1. /\ UNCHANGED <<identities, ledger, records, reports, sent, overlapped>>
      /\ proc[p].at = "save" /\ proc[p].id # "canary" /\ Works(p)
      /\ proc \in [Procs -> Processes] /\ Stands(proc[p])
  BY DEF CheckRecord, disk, ghosts, Works, Ended, CallsInv, CampaignType
<1>2. proc[p].id \in identities /\ proc[p].run \in Planned(proc[p].id)
  BY <1>1 DEF Stands, RunStages
<1>3. records[proc[p].id] \in [Planned(proc[p].id) -> Papers]
  BY <1>2 DEF CallsInv, CampaignType
<1>4. AtWork(proc[p]) => ~(Torn \in Range(records[proc[p].id])
                           \/ records[proc[p].id][proc[p].run] # NoPaper)
  BY <1>1, <1>2, <1>3 DEF AtWork, RunStages, Whole, Stored, Range
<1>5. \A id \in identities : Calls(id) \subseteq Calls(id)'
  BY <1>1 DEF Calls
<1>6. CASE /\ proc' = [proc EXCEPT ![p] = At(proc[p].id, "failed", {}, <<>>)]
           /\ ~AtWork(proc[p])
  <2>1. /\ \A q \in Procs : q # p => proc'[q] = proc[q]
        /\ proc'[p].id = proc[p].id /\ proc'[p].at = "failed"
    BY <1>1, <1>6, AtSays
  <2> QED BY <1>1, <1>5, <1>6, <2>1, LoneMoves
<1>7. CASE proc' = [proc EXCEPT ![p].at = "write"]
  <2>1. "write" \in Stages
    BY DEF Stages, RunStages
  <2>2. /\ \A q \in Procs : q # p => proc'[q] = proc[q]
        /\ proc'[p].at = "write" /\ proc'[p].id = proc[p].id /\ proc'[p].run = proc[p].run
        /\ proc'[p].seen = proc[p].seen /\ proc'[p].paper = proc[p].paper
    BY <1>7, <2>1, StageChanges
  <2>3. AtWork(proc[p]) => AtWork(proc'[p])
    BY <1>1, <2>2 DEF AtWork, RunStages
  <2> QED BY <1>1, <1>5, <2>2, <2>3, LoneMoves
<1>8. \/ /\ proc' = [proc EXCEPT ![p] = At(proc[p].id, "failed", {}, <<>>)]
         /\ ~AtWork(proc[p])
      \/ proc' = [proc EXCEPT ![p] = [proc[p] EXCEPT !.at = "write"]]
  BY <1>1, <1>4 DEF CheckRecord
<1> QED BY <1>1, <1>6, <1>7, <1>8

LEMMA WriteRecordAlone == ASSUME CallsInv, AloneInv, NEW p \in Procs, WriteRecord(p) PROVE AloneInv'
<1> DEFINE run == proc[p].run
           paper == proc[p].paper
<1>1. /\ UNCHANGED <<identities, ledger, reports, sent, overlapped>>
      /\ proc[p].at = "write" /\ proc[p].at \in RunStages /\ Stands(proc[p])
      /\ proc \in [Procs -> Processes] /\ proc[p].id # "canary"
      /\ records' = [records EXCEPT ![proc[p].id][run] = paper]
      /\ proc' = [proc EXCEPT ![p] = At(proc[p].id, "ready", proc[p].seen \cup {run}, <<>>)]
  BY DEF WriteRecord, ghosts, CallsInv, CampaignType, RunStages, AloneInv, CanaryWritesNone
<1>2. PICK i \in identities : i = proc[p].id /\ run \in Planned(i)
  BY <1>1 DEF Stands
<1>3. paper # NoPaper /\ paper # Torn
  BY <1>1 DEF Stands, NoPaper, Torn
<1>4. /\ \A q \in Procs : q # p => proc'[q] = proc[q]
      /\ proc'[p].id = i /\ proc'[p].at = "ready" /\ proc'[p].seen = proc[p].seen \cup {run}
  BY <1>1, <1>2, AtSays
<1>5. Table(records, identities) /\ records[i] \in [Planned(i) -> Papers]
  BY DEF CallsInv, CampaignType
<1>6. /\ records'[i] = [records[i] EXCEPT ![run] = paper]
      /\ \A id \in identities : id # i => records'[id] = records[id]
  BY <1>1, <1>2, <1>5 DEF Table
<1>7. /\ records'[i][run] = paper
      /\ \A y \in Planned(i) : y # run => records'[i][y] = records[i][y]
  BY <1>2, <1>5, <1>6
<1>8. \A id \in identities : Calls(id) \subseteq Calls(id)'
  BY <1>1 DEF Calls
<1>9. Stored(i)' = Stored(i) \cup {run}
  BY <1>2, <1>3, <1>7 DEF Stored, Planned
<1>10. ASSUME i \notin overlapped
       PROVE  /\ \A q \in Procs : q # p /\ Works(q) => proc[q].id # i
              /\ RecordsCount(i)' /\ ReportSpeaks(i)' /\ (Excused(i) => Excused(i)')
              /\ AtWork(proc[p])'
  <2>1. /\ AtWork(proc[p]) /\ run \notin Stored(i) /\ ~IsReport(reports[i])
        /\ \A q \in Procs : q # p /\ Works(q) => proc[q].id # i
    BY <1>1, <1>2, <1>10, RunIsOpen
  <2>2. /\ Whole(i) /\ proc[p].seen = Stored(i) /\ paper.calls = AttemptedBy(ledger[i], run)
    BY <1>1, <1>2, <2>1 DEF AtWork, RunStages
  <2> HIDE DEF run, paper
  <2>3. RecordsCount(i)
    BY <1>10 DEF AloneInv
  <2>4. RecordsCount(i)'
    <3> SUFFICES ASSUME NEW y \in Stored(i) \cup {run}
                 PROVE  records'[i][y] # Torn => records'[i][y].calls = AttemptedBy(ledger[i], y)
      BY <1>1, <1>9 DEF RecordsCount
    <3>1. CASE y = run
      BY <1>7, <2>2, <3>1
    <3>2. CASE y # run
      BY <1>7, <2>3, <3>2 DEF RecordsCount, Stored
    <3> QED BY <3>1, <3>2
  <2>5. ReportSpeaks(i)'
    BY <1>1, <2>1 DEF ReportSpeaks, IsReport
  <2>6. Excused(i) => Excused(i)'
    BY <1>1, <2>2 DEF Excused
  <2>7. Whole(i)'
    BY <1>3, <1>7, <2>2 DEF Whole, Planned
  <2>8. AtWork(proc[p])'
    BY <1>1, <1>2, <1>4, <1>9, <2>2, <2>7 DEF AtWork, RunStages
  <2> QED BY <2>1, <2>4, <2>5, <2>6, <2>8
<1>11. i # "canary" /\ proc'[p].at # "failed" /\ overlapped' = overlapped
  BY <1>1, <1>2, <1>4
<1>12. \A id \in identities : id # i => /\ records'[id] = records[id]
                                        /\ reports'[id] = reports[id]
                                        /\ Invocations(ledger'[id]) = Invocations(ledger[id])
                                        /\ Calls(id) \subseteq Calls(id)'
  BY <1>1, <1>6, <1>8
<1>13. proc'[p].at # "write" /\ UNCHANGED identities
  BY <1>1, <1>4
<1> HIDE DEF run, paper
<1> QED BY <1>4, <1>10, <1>11, <1>12, <1>13, StepAlone

(* The records of an identity in which every run has one add up to its calls. *)
LEMMA RecordsAddUp ==
  ASSUME CallsInv, NEW id \in identities, RecordsCount(id), Whole(id), Stored(id) = Planned(id)
  PROVE  CallsIn(records[id]) = Attempted(ledger[id])
<1> DEFINE f == [run \in Planned(id) |-> records[id][run].calls]
<1>1. records[id] \in [Planned(id) -> Papers] /\ ledger[id] \in Ledgers(PlannedCalls(id))
  BY DEF CallsInv, CampaignType
<1>2. \A run \in Planned(id) : f[run] = AttemptedBy(ledger[id], run)
  BY DEF RecordsCount, Whole
<1>3. /\ IsFiniteSet(Invocations(ledger[id]))
      /\ Invocations(ledger[id]) \subseteq Planned(id) \X Turns
  BY <1>1, LedgerBasics, PlannedIsFinite DEF PlannedCalls
<1>4. SumOver(f, Planned(id)) = Attempted(ledger[id])
  <2>1. Planned(id) \subseteq Nat /\ IsFiniteSet(Planned(id))
    BY PlannedIsFinite
  <2> HIDE DEF f
  <2> QED BY <1>2, <1>3, <2>1, RunsAddUp
<1>5. CallsIn(records[id]) = SumOver(f, Planned(id))
  <2>1. DOMAIN records[id] = Planned(id) /\ IsFiniteSet(Planned(id))
    BY <1>1, PlannedIsFinite
  <2> QED BY <2>1, CallsInIsSum
<1> QED BY <1>4, <1>5

(* What BuildReport concludes in favour of the Agent rests on good runs. *)
LEMMA FavourRests ==
  ASSUME CallsInv, NEW id \in identities, id # "canary", NEW conclusion,
         conclusion \in IF id = "locked" THEN LockedConclusions(records[id], ledger[id])
                                         ELSE {DevelopmentConclusion(records[id])},
         Favours(id, conclusion)
  PROVE  RestsOnRuns(id)
<1>1. records[id] \in [Planned(id) -> Papers] /\ id \in Development \cup {"locked"}
  BY DEF CallsInv, CampaignType, Development
<1>2. AllGood(records[id])
  BY <1>1 DEF Favours, LockedConclusions, DevelopmentConclusion, Development
<1>3. \A run \in Planned(id) : Founded(id, run, records[id][run])
  BY DEF CallsInv, CallsAreHeld
<1> QED BY <1>1, <1>2, <1>3 DEF AllGood, RestsOnRuns, Founded

LEMMA BuildReportAlone == ASSUME CallsInv, AloneInv, NEW p \in Procs, BuildReport(p) PROVE AloneInv'
<1> DEFINE id == proc[p].id
           papers == IF id = "canary" THEN proc[p].mine ELSE records[id]
           conclusions == CASE id = "canary" -> {CanaryConclusion(papers)}
                            [] id = "locked" -> LockedConclusions(papers, ledger[id])
                            [] OTHER -> {DevelopmentConclusion(papers)}
           calls == Attempted(ledger[id])
           fails == Torn \in Range(papers) \/ (id = "canary" /\ calls # CallsIn(papers))
<1>1. /\ UNCHANGED <<identities, ledger, records, reports, sent, overlapped>>
      /\ proc[p].at \in {"ready", "report"} /\ Stands(proc[p]) /\ id \in identities
      /\ proc \in [Procs -> Processes] /\ Works(p)
  BY DEF BuildReport, disk, ghosts, CallsInv, CampaignType, Stands, Works, Ended
<1>2. \A x \in identities : Calls(x) \subseteq Calls(x)'
  BY <1>1 DEF Calls
<1>3. AtWork(proc[p]) /\ id # "canary"
        => /\ Whole(id) /\ Stored(id) = Planned(id) /\ Torn \notin Range(papers)
  <2> SUFFICES ASSUME AtWork(proc[p]), id # "canary"
               PROVE  /\ Whole(id) /\ Stored(id) = Planned(id) /\ Torn \notin Range(papers)
    OBVIOUS
  <2>1. Whole(id) /\ proc[p].at = "ready" /\ proc[p].seen = Stored(id)
    BY <1>1 DEF AtWork
  <2>2. Left(p) = {}
    BY <2>1 DEF BuildReport
  <2>3. Stored(id) = Planned(id)
    BY <2>1, <2>2 DEF Left, Stored
  <2>4. records[id] \in [Planned(id) -> Papers]
    BY <1>1 DEF CallsInv, CampaignType
  <2> QED BY <2>1, <2>3, <2>4 DEF Range, Whole
<1>4. CASE fails
  <2>1. proc' = [proc EXCEPT ![p] = At(id, "failed", {}, <<>>)]
    BY <1>4 DEF BuildReport
  <2>2. /\ \A q \in Procs : q # p => proc'[q] = proc[q]
        /\ proc'[p].id = id /\ proc'[p].at = "failed"
    BY <1>1, <2>1, AtSays
  <2>3. id \in identities \ overlapped /\ AtWork(proc[p]) => id = "canary"
    BY <1>3, <1>4
  <2> HIDE DEF papers, fails
  <2> QED BY <1>1, <1>2, <2>2, <2>3, LoneMoves DEF Ended
<1>5. CASE ~fails
  <2>1. PICK conclusion \in conclusions :
          proc' = [proc EXCEPT ![p] = [At(id, "publish", {}, <<>>) EXCEPT
            !.report = [conclusion |-> conclusion, calls |-> calls,
                        recorded |-> CallsIn(papers)]]]
    BY <1>5 DEF BuildReport
  <2> DEFINE report == [conclusion |-> conclusion, calls |-> calls, recorded |-> CallsIn(papers)]
  <2>2. /\ \A q \in Procs : q # p => proc'[q] = proc[q]
        /\ proc'[p].id = id /\ proc'[p].at = "publish" /\ proc'[p].report = report
    <3> HIDE DEF report, id
    <3> QED BY <1>1, <2>1 DEF At, Absent, report
  <2>3. IsReport(report)
    BY DEF IsReport, CanaryConclusion, LockedConclusions, DevelopmentConclusion
  <2>4. AtWork(proc[p]) /\ id \notin overlapped
          => report.calls = Attempted(ledger[id]) /\ report.recorded = Attempted(ledger[id])
    BY <1>1, <1>3, <1>5, RecordsAddUp DEF AloneInv
  <2>5. AtWork(proc[p]) /\ Favours(id, report.conclusion) => RestsOnRuns(id)
    <3>1. CASE id # "canary"
      BY <1>1, <3>1, FavourRests
    <3>2. CASE id = "canary"
      <4>1. Favours(id, conclusion) => DOMAIN papers = Planned("canary") /\ AllGood(papers)
        BY <3>2 DEF Favours, CanaryConclusion, Development
      <4>2. \A run \in DOMAIN papers : Founded("canary", run, papers[run])
        BY <1>1, <3>2 DEF Stands
      <4> QED BY <3>2, <4>1, <4>2 DEF RestsOnRuns, AllGood, Founded
    <3> QED BY <3>1, <3>2
  <2> HIDE DEF report, papers, conclusions, calls, fails
  <2>6. AtWork(proc[p]) /\ id \notin overlapped => AtWork(proc'[p])
    BY <1>3, <2>2, <2>3, <2>4, <2>5 DEF AtWork, RunStages, Speaks
  <2> QED BY <1>1, <1>2, <2>2, <2>6, LoneMoves
<1> QED BY <1>4, <1>5

(* A step that leaves every record, and the ledger, of its identity alone. *)
LEMMA RecordsStay ==
  ASSUME AloneInv, NEW i \in identities \ overlapped, UNCHANGED <<identities, ledger, sent>>,
         records'[i] = records[i]
  PROVE  /\ RecordsCount(i)' /\ (Whole(i)' <=> Whole(i)) /\ Stored(i)' = Stored(i)
         /\ \A report : Speaks(i, report) => Speaks(i, report)'
<1>1. Whole(i)' <=> Whole(i)
  BY DEF Whole
<1>2. Stored(i)' = Stored(i)
  BY DEF Stored
<1>3. RecordsCount(i)'
  BY <1>2 DEF AloneInv, RecordsCount
<1>4. RestsOnRuns(i)' <=> RestsOnRuns(i)
  BY DEF RestsOnRuns, CallsOf, Calls
<1>5. \A report : Speaks(i, report) => Speaks(i, report)'
  BY <1>4 DEF Speaks, Favours
<1> QED BY <1>1, <1>2, <1>3, <1>5

LEMMA PublishReportAlone ==
  ASSUME CallsInv, AloneInv, NEW p \in Procs, PublishReport(p) PROVE AloneInv'
<1> DEFINE report == proc[p].report
<1>1. /\ UNCHANGED <<identities, ledger, records, sent, overlapped>>
      /\ proc[p].at = "publish" /\ Stands(proc[p]) /\ Works(p)
      /\ proc \in [Procs -> Processes]
  BY DEF PublishReport, ghosts, CallsInv, CampaignType, Works, Ended
<1>2. PICK i \in identities : i = proc[p].id
  BY <1>1 DEF Stands
<1>3. reports' = IF reports[i] = NoReport THEN [reports EXCEPT ![i] = report] ELSE reports
  BY <1>2 DEF PublishReport
<1>4. PICK at : /\ at = "done" \/ (at = "failed" /\ reports[i] # NoReport)
                /\ proc' = [proc EXCEPT ![p] = At(i, at, {}, <<>>)]
  BY <1>2 DEF PublishReport
<1>5. /\ \A q \in Procs : q # p => proc'[q] = proc[q]
      /\ proc'[p].id = i /\ proc'[p].at = at
  BY <1>1, <1>4, AtSays
<1>6. /\ reports'[i] = IF reports[i] = NoReport THEN report ELSE reports[i]
      /\ \A id \in identities : id # i => reports'[id] = reports[id]
  <2>1. Table(reports, identities)
    BY DEF CallsInv, CampaignType
  <2> QED BY <1>3, <2>1 DEF Table
<1>7. \A id \in identities : Calls(id) \subseteq Calls(id)'
  BY <1>1 DEF Calls
<1>8. ASSUME i \notin overlapped
      PROVE  /\ \A q \in Procs : q # p /\ Works(q) => proc[q].id # i
             /\ RecordsCount(i)' /\ ReportSpeaks(i)' /\ (Excused(i) => Excused(i)')
             /\ at = "failed" => Excused(i)'
  <2>1. AtWork(proc[p]) /\ \A q \in Procs : q # p /\ Works(q) => proc[q].id # i
    BY <1>1, <1>2, <1>8 DEF AloneInv, OneWorks, Fares, Works
  <2>2. /\ IsReport(report) /\ Speaks(i, report)
        /\ i # "canary" => Whole(i) /\ Stored(i) = Planned(i)
    BY <1>1, <1>2, <2>1 DEF AtWork
  <2> HIDE DEF report
  <2>3. /\ RecordsCount(i)' /\ (Whole(i)' <=> Whole(i)) /\ Stored(i)' = Stored(i)
        /\ \A paper : Speaks(i, paper) => Speaks(i, paper)'
    BY <1>1, <1>8, RecordsStay
  <2>4. PICK now : now = reports'[i]
    OBVIOUS
  <2>5. IsReport(now) => Speaks(i, now) /\ (i # "canary" => Whole(i) /\ Stored(i) = Planned(i))
    BY <1>6, <1>8, <2>2, <2>4 DEF AloneInv, ReportSpeaks
  <2>6. ReportSpeaks(i)'
    <3>1. Speaks(i, now) => Speaks(i, reports[i])'
      BY <2>3, <2>4
    <3> QED BY <2>3, <2>4, <2>5, <3>1 DEF ReportSpeaks, IsReport
  <2>7. reports[i] # NoReport => Excused(i)'
    BY <1>6 DEF Excused
  <2>8. Excused(i) => Excused(i)'
    BY <2>3, <2>7 DEF Excused
  <2> QED BY <1>4, <2>1, <2>3, <2>6, <2>7, <2>8
<1>9. at # "write" /\ at \in Ended
  BY <1>4 DEF Ended
<1>10. \A id \in identities : id # i => /\ records'[id] = records[id]
                                        /\ reports'[id] = reports[id]
                                        /\ Invocations(ledger'[id]) = Invocations(ledger[id])
                                        /\ Calls(id) \subseteq Calls(id)'
  BY <1>1, <1>6, <1>7
<1>11. ~Works(p)'
  BY <1>5, <1>9 DEF Works
<1> QED BY <1>1, <1>5, <1>8, <1>9, <1>10, <1>11, StepAlone

LEMMA CrashAlone == ASSUME CallsInv, AloneInv, NEW p \in Procs, Crash(p) PROVE AloneInv'
<1>1. /\ UNCHANGED <<identities, ledger, sent, overlapped>>
      /\ Stands(proc[p]) /\ Works(p) /\ proc \in [Procs -> Processes]
      /\ proc' = [proc EXCEPT ![p] = Absent]
  BY DEF Crash, ghosts, CallsInv, CampaignType
<1>2. PICK i \in identities : i = proc[p].id
  BY <1>1 DEF Stands, Works, Ended
<1>3. \A q \in Procs : q # p => proc'[q] = proc[q]
  BY <1>1
<1>4. proc'[p].at = "down" /\ ~Works(p)'
  BY <1>1, AbsentIsTyped DEF Works, Ended
<1>5. \A id \in identities : Calls(id) \subseteq Calls(id)'
  BY <1>1 DEF Calls
<1>6. i \notin overlapped => \A q \in Procs : q # p /\ Works(q) => proc[q].id # i
  BY <1>1, <1>2 DEF AloneInv, OneWorks
<1>7. CASE UNCHANGED <<records, reports>>
  <2>1. i \notin overlapped
          => RecordsCount(i)' /\ ReportSpeaks(i)' /\ (Excused(i) => Excused(i)')
    BY <1>1, <1>5, <1>7, FilesKept DEF AloneInv
  <2> QED BY <1>1, <1>3, <1>4, <1>5, <1>6, <1>7, <2>1, StepAlone
<1>8. CASE /\ proc[p].at = "write" /\ UNCHANGED reports
           /\ records' = [records EXCEPT ![proc[p].id][proc[p].run] = Torn]
  <2> DEFINE run == proc[p].run
  <2>1. Table(records, identities) /\ records[i] \in [Planned(i) -> Papers]
        /\ run \in Planned(i) /\ i # "canary" /\ proc[p].at \in RunStages
    BY <1>1, <1>2, <1>8 DEF CallsInv, CampaignType, Stands, RunStages, AloneInv, CanaryWritesNone
  <2>2. /\ records'[i] = [records[i] EXCEPT ![run] = Torn]
        /\ \A id \in identities : id # i => records'[id] = records[id]
    BY <1>2, <1>8, <2>1 DEF Table
  <2>3. /\ records'[i][run] = Torn
        /\ \A y \in Planned(i) : y # run => records'[i][y] = records[i][y]
    BY <2>1, <2>2
  <2>4. ~Whole(i)' /\ Excused(i)'
    BY <2>1, <2>3 DEF Whole, Excused, Planned
  <2>5. i \notin overlapped => RecordsCount(i)' /\ ReportSpeaks(i)'
    <3> SUFFICES ASSUME i \notin overlapped PROVE RecordsCount(i)' /\ ReportSpeaks(i)'
      OBVIOUS
    <3>1. RecordsCount(i) /\ ~IsReport(reports[i])
      BY <1>2, <2>1, RunIsOpen DEF AloneInv
    <3>2. ReportSpeaks(i)'
      BY <1>8, <3>1 DEF ReportSpeaks, IsReport
    <3>3. RecordsCount(i)'
      <4> HIDE DEF run
      <4> QED BY <1>1, <2>3, <3>1 DEF RecordsCount, Stored, Planned
    <3> QED BY <3>2, <3>3
  <2>6. \A id \in identities : id # i => /\ records'[id] = records[id]
                                         /\ reports'[id] = reports[id]
                                         /\ Invocations(ledger'[id]) = Invocations(ledger[id])
                                         /\ Calls(id) \subseteq Calls(id)'
    BY <1>1, <1>5, <1>8, <2>2
  <2>7. i # "canary"
    BY <2>1
  <2> HIDE DEF run
  <2> QED BY <1>1, <1>3, <1>4, <1>6, <2>4, <2>5, <2>6, <2>7, StepAlone
<1>9. CASE /\ reports[proc[p].id] = NoReport /\ UNCHANGED records
           /\ reports' = [reports EXCEPT ![proc[p].id] = TornReport]
  <2>1. Table(reports, identities)
    BY DEF CallsInv, CampaignType
  <2>2. /\ reports'[i] = TornReport
        /\ \A id \in identities : id # i => reports'[id] = reports[id]
    BY <1>2, <1>9, <2>1 DEF Table
  <2>3. Excused(i)' /\ ReportSpeaks(i)'
    BY <2>2 DEF Excused, ReportSpeaks, IsReport, NoReport, TornReport
  <2>4. i \notin overlapped => RecordsCount(i)'
    BY <1>1, <1>9, RecordsStay
  <2>5. \A id \in identities : id # i => /\ records'[id] = records[id]
                                         /\ reports'[id] = reports[id]
                                         /\ Invocations(ledger'[id]) = Invocations(ledger[id])
                                         /\ Calls(id) \subseteq Calls(id)'
    BY <1>1, <1>5, <1>9, <2>2
  <2> QED BY <1>1, <1>3, <1>4, <1>6, <1>9, <2>3, <2>4, <2>5, StepAlone
<1> QED BY <1>7, <1>8, <1>9 DEF Crash

LEMMA StartAlone ==
  ASSUME CallsInv, AloneInv, NEW p \in Procs, NEW i \in identities, Start(p, i) PROVE AloneInv'
<1>1. /\ UNCHANGED <<identities, records, reports, sent>> /\ proc \in [Procs -> Processes]
      /\ ledger' = ledger \/ ledger' = [ledger EXCEPT ![i] = Reopen(Binding(i), @)]
      /\ overlapped' = IF \E q \in Procs \ {p} : Works(q) /\ proc[q].id = i
                       THEN overlapped \cup {i} ELSE overlapped
  BY DEF Start, CallsInv, CampaignType
<1>2. records[i] \in [Planned(i) -> Papers]
  BY DEF CallsInv, CampaignType
<1>3. Torn \in Range(records[i]) <=> ~Whole(i)
  BY <1>2 DEF Range, Whole
<1>4. PICK at, seen :
        /\ proc' = [proc EXCEPT ![p] = At(i, at, seen, <<>>)]
        /\ \/ at = "failed" /\ (i = "canary" \/ Excused(i))
           \/ at = "done"
           \/ /\ at = "ready" /\ seen = Loaded(i) /\ Whole(i)
              /\ i = "canary" => reports[i] = NoReport
  <2>1. CASE i = "canary" /\ reports[i] # NoReport
    BY <2>1 DEF Start
  <2>2. CASE i # "canary" /\ i = "locked" /\ reports[i] # NoReport
    BY <2>2 DEF Start, Excused
  <2>3. CASE ~(i = "canary" /\ reports[i] # NoReport) /\ ~(i = "locked" /\ reports[i] # NoReport)
    <3>1. proc' = [proc EXCEPT ![p] = IF Torn \in Range(records[i]) THEN At(i, "failed", {}, <<>>)
                                      ELSE At(i, "ready", Loaded(i), <<>>)]
      BY <2>3 DEF Start
    <3> QED BY <1>3, <2>3, <3>1 DEF Excused
  <2> QED BY <2>1, <2>2, <2>3
<1>5. /\ \A q \in Procs : q # p => proc'[q] = proc[q]
      /\ proc'[p].id = i /\ proc'[p].at = at /\ proc'[p].seen = seen
  BY <1>1, <1>4, AtSays
<1>6. \A id \in identities : Invocations(ledger'[id]) = Invocations(ledger[id])
  <2>1. /\ Table(ledger, identities)
        /\ \A id \in identities : ledger[id] \in Ledgers(PlannedCalls(id))
    BY DEF CallsInv, CampaignType
  <2>2. Invocations(Reopen(Binding(i), ledger[i])) = Invocations(ledger[i])
    BY <2>1, Reopened DEF Invocations
  <2> QED BY <1>1, <2>1, <2>2 DEF Table
<1>7. \A id \in identities : Calls(id) \subseteq Calls(id)'
  BY <1>1 DEF Calls
<1>8. ASSUME i \notin overlapped'
      PROVE  /\ \A q \in Procs : q # p /\ Works(q) => proc[q].id # i
             /\ RecordsCount(i)' /\ ReportSpeaks(i)' /\ (Excused(i) => Excused(i)')
             /\ Works(p)' => AtWork(proc[p])'
             /\ at = "failed" /\ i # "canary" => Excused(i)'
  <2>1. /\ i \notin overlapped
        /\ \A q \in Procs : q # p /\ Works(q) => proc[q].id # i
    BY <1>1, <1>8
  <2>2. /\ RecordsCount(i)' /\ ReportSpeaks(i)' /\ (Excused(i) <=> Excused(i)')
        /\ Stored(i)' = Stored(i) /\ (Whole(i)' <=> Whole(i))
    BY <1>1, <1>6, <1>7, <2>1, FilesKept DEF AloneInv
  <2>3. Works(p)' => AtWork(proc[p])'
    <3>1. Works(p)' => /\ at = "ready" /\ seen = Loaded(i) /\ Whole(i)
                       /\ i = "canary" => reports[i] = NoReport
      BY <1>4, <1>5 DEF Works, Ended
    <3> QED BY <1>1, <1>5, <2>2, <3>1 DEF AtWork, RunStages, Loaded
  <2> QED BY <1>4, <2>1, <2>2, <2>3
<1>9. at # "write" /\ overlapped' \in {overlapped, overlapped \cup {i}}
  BY <1>1, <1>4
<1>10. \A id \in identities : id # i => /\ records'[id] = records[id]
                                        /\ reports'[id] = reports[id]
                                        /\ Invocations(ledger'[id]) = Invocations(ledger[id])
                                        /\ Calls(id) \subseteq Calls(id)'
  BY <1>1, <1>6, <1>7
<1> QED BY <1>1, <1>5, <1>8, <1>9, <1>10, StepAlone

LEMMA AloneInvNext == CallsInv /\ AloneInv /\ [CampaignNext]_campaignVars => AloneInv'
<1> SUFFICES ASSUME CallsInv, AloneInv, [CampaignNext]_campaignVars PROVE AloneInv'
  OBVIOUS
<1>1. CASE UNCHANGED <<identities, ledger, records, reports, proc, sent, overlapped>>
  <2>1. \A id \in identities : Calls(id) \subseteq Calls(id)'
    BY <1>1 DEF Calls
  <2>2. \A id \in identities \ overlapped : RecordsCount(id)' /\ ReportSpeaks(id)'
    BY <1>1, <2>1, FilesKept DEF AloneInv
  <2>3. OneWorks' /\ CanaryWritesNone'
    BY <1>1 DEF AloneInv, OneWorks, Works, CanaryWritesNone, Stored
  <2>4. ASSUME NEW r, Fares(r) PROVE Fares(r)'
    BY <1>1, <2>1, <2>4, FilesKept DEF Fares
  <2>5. \A p \in Procs : Fares(proc[p])'
    BY <1>1, <2>4 DEF AloneInv
  <2> QED BY <1>1, <2>2, <2>3, <2>5 DEF AloneInv
<1>2. CASE UNCHANGED campaignVars \/ \E id \in identities : Authorize(id)
  BY <1>1, <1>2 DEF Authorize, campaignVars, disk, ghosts
<1>3. ASSUME NEW p \in Procs, Step(p) PROVE AloneInv'
  BY <1>3, StartAlone, NextRunAlone, SetUpAlone, TakeTurnAlone, SendAlone, AnswerAlone,
     CorrectedPassAlone, FinishRunAlone, KeepRunAlone, CheckRecordAlone, WriteRecordAlone,
     BuildReportAlone, PublishReportAlone, CrashAlone DEF Step
<1> QED BY <1>2, <1>3 DEF CampaignNext

LEMMA AloneInvHolds == CampaignSpec => []AloneInv
  BY AloneInvInit, AloneInvNext, CallsInvHolds, PTL DEF CampaignSpec

(* accounting_for and _record_from_evidence, whatever crashes: with one process
   at a time a record counts every call of its run, and the report of an
   identity adds up to its records. *)
THEOREM CallsAreCounted == CampaignSpec => []RecordsCountEveryCall
<1>1. CallsInv /\ AloneInv => RecordsCountEveryCall
  <2> SUFFICES ASSUME CallsInv, AloneInv, NEW id \in identities \ overlapped
               PROVE  /\ \A run \in Stored(id) : records[id][run] # Torn
                           => records[id][run].calls >= Cardinality(CallsOf(id, run))
                      /\ IsReport(reports[id])
                           => /\ reports[id].calls = reports[id].recorded
                              /\ reports[id].calls >= Cardinality(Calls(id))
    BY DEF RecordsCountEveryCall
  <2>1. RecordsCount(id) /\ ReportSpeaks(id)
    BY DEF AloneInv
  <2>2. /\ IsFiniteSet(Invocations(ledger[id])) /\ IsFiniteSet(Calls(id))
        /\ Cardinality(Calls(id)) <= Cardinality(Invocations(ledger[id]))
        /\ \A run : /\ Cardinality(CallsOf(id, run)) \in Nat
                    /\ Cardinality(CallsOf(id, run)) <= Cardinality(InvocationsOf(ledger[id], run))
    BY CallsAreInvocations
  <2>3. \A run : Cardinality(InvocationsOf(ledger[id], run)) \in Nat
    <3>1. \A run : InvocationsOf(ledger[id], run) \in SUBSET Invocations(ledger[id])
      BY DEF InvocationsOf
    <3> QED BY <2>2, <3>1, FS_Subset, FS_CardinalityType
  <2>4. Cardinality(Calls(id)) \in Nat /\ Cardinality(Invocations(ledger[id])) \in Nat
    BY <2>2, FS_CardinalityType
  <2>5. ASSUME NEW run \in Stored(id), records[id][run] # Torn
        PROVE  records[id][run].calls >= Cardinality(CallsOf(id, run))
    BY <2>1, <2>2, <2>3, <2>5 DEF RecordsCount, AttemptedBy
  <2>6. ASSUME IsReport(reports[id])
        PROVE  /\ reports[id].calls = reports[id].recorded
               /\ reports[id].calls >= Cardinality(Calls(id))
    BY <2>1, <2>2, <2>4, <2>6 DEF ReportSpeaks, Speaks, Attempted
  <2> QED BY <2>5, <2>6
<1> QED BY <1>1, CallsInvHolds, AloneInvHolds, PTL

(* The conclusions of the programmes: with one process at a time no report
   speaks for the Agent but over a complete set of completed, good runs whose
   agents asked the provider. *)
THEOREM FavourIsEarned == CampaignSpec => []FavourableMeansComplete
<1>1. CallsInv /\ AloneInv => FavourableMeansComplete
  <2> SUFFICES ASSUME CallsInv, AloneInv, NEW id \in identities \ overlapped,
                      Favours(id, reports[id].conclusion)
               PROVE  RestsOnRuns(id)
    BY DEF FavourableMeansComplete, Favours, RestsOnRuns
  <2>1. IsReport(reports[id])
    BY DEF Favours, IsReport
  <2> QED BY <2>1 DEF AloneInv, ReportSpeaks, Speaks
<1> QED BY <1>1, CallsInvHolds, AloneInvHolds, PTL

(* The exits of the Development and Locked commands: alone on its identity, a
   command fails only when its report exists or a crash cut a file off. *)
THEOREM FailureIsExplained == CampaignSpec => []FailureLeavesReport
<1>1. CallsInv /\ AloneInv => FailureLeavesReport
  <2> SUFFICES ASSUME CallsInv, AloneInv, NEW p \in Procs, proc[p].at = "failed",
                      proc[p].id \notin overlapped \cup {"canary"}
               PROVE  reports[proc[p].id] # NoReport \/ Torn \in Range(records[proc[p].id])
    BY DEF FailureLeavesReport
  <2>1. proc[p].id \in identities
    BY DEF CallsInv, Stands
  <2>2. Excused(proc[p].id)
    BY <2>1 DEF AloneInv, Fares
  <2>3. records[proc[p].id] \in [Planned(proc[p].id) -> Papers]
    BY <2>1 DEF CallsInv, CampaignType
  <2> QED BY <2>2, <2>3 DEF Excused, Whole, Range
<1> QED BY <1>1, CallsInvHolds, AloneInvHolds, PTL

(* A Development identity is worked on, and calls the provider, only with its
   package; the package of the contingency rests on a report that stays. *)
PackagesOpen ==
    /\ \A id \in identities \cap Development :
         /\ \A p \in Procs : proc[p].id = id => package[id]
         /\ Calls(id) # {} => package[id]
    /\ identities = Development /\ package["contingency"] => PriorFailedBeforeAdmission

(* A process keeps its identity, or gives it up, in every step but a start. *)
LEMMA IdsStay ==
  ASSUME CallsInv, NEW p \in Procs, Step(p), ~\E id \in identities : Start(p, id)
  PROVE  \A q \in Procs : proc'[q].id \in {proc[q].id, "none"}
<1>1. proc \in [Procs -> Processes] /\ proc[p] \in Processes
  BY DEF CallsInv, CampaignType
<1>2. CASE \E run, status, good : Ends(p, run, status, good)
  BY <1>2, EndsSays
<1>3. CASE \E at, seen, mine : proc' = [proc EXCEPT ![p] = At(proc[p].id, at, seen, mine)]
  BY <1>1, <1>3, AtSays
<1>4. CASE \E at : proc' = [proc EXCEPT ![p].at = at]
  BY <1>1, <1>4 DEF Processes
<1>5. CASE NextRun(p)
  <2>1. CASE proc' = [proc EXCEPT ![p].at = "setup", ![p].run = Min(Left(p)), ![p].turn = 0]
    BY <1>1, <2>1 DEF Processes
  <2> QED BY <1>2, <1>5, <2>1 DEF NextRun
<1>6. CASE TakeTurn(p)
  <2>1. CASE proc' = [proc EXCEPT ![p].at = "call", ![p].turn = proc[p].turn + 1]
    BY <1>1, <2>1 DEF Processes
  <2> QED BY <1>2, <1>6, <2>1 DEF TakeTurn
<1>7. CASE SetUp(p) \/ Answer(p) \/ FinishRun(p)
  BY <1>2, <1>4, <1>7 DEF SetUp, Answer, FinishRun
<1>8. CASE Send(p) \/ CorrectedPass(p)
  BY <1>4, <1>8 DEF Send, CorrectedPass
<1>9. CASE KeepRun(p)
  <2>1. PICK at, seen, mine : proc' = [proc EXCEPT ![p] = At("canary", at, seen, mine)]
    BY <1>1, <1>9 DEF KeepRun
  <2>2. proc[p].id = "canary"
    BY <1>9 DEF KeepRun
  <2> QED BY <1>3, <2>1, <2>2
<1>10. CASE CheckRecord(p)
  <2>1. \/ proc' = [proc EXCEPT ![p] = At(proc[p].id, "failed", {}, <<>>)]
        \/ proc' = [proc EXCEPT ![p] = [proc[p] EXCEPT !.at = "write"]]
    BY <1>1, <1>10 DEF CheckRecord
  <2> QED BY <1>3, <1>4, <2>1
<1>11. CASE WriteRecord(p)
  BY <1>1, <1>3, <1>11 DEF WriteRecord
<1>12. CASE BuildReport(p)
  <2> DEFINE id == proc[p].id
             papers == IF id = "canary" THEN proc[p].mine ELSE records[id]
  <2>1. CASE \E report : proc' = [proc EXCEPT ![p] = [At(id, "publish", {}, <<>>) EXCEPT
                                                       !.report = report]]
    BY <1>1, <2>1 DEF At, Absent
  <2>2. \/ proc' = [proc EXCEPT ![p] = At(id, "failed", {}, <<>>)]
        \/ \E report : proc' = [proc EXCEPT ![p] = [At(id, "publish", {}, <<>>) EXCEPT
                                                     !.report = report]]
    BY <1>12 DEF BuildReport
  <2> QED BY <1>3, <2>1, <2>2
<1>13. CASE PublishReport(p)
  BY <1>3, <1>13 DEF PublishReport
<1>14. CASE Crash(p)
  BY <1>1, <1>14, AbsentIsTyped DEF Crash
<1> QED BY <1>5, <1>6, <1>7, <1>8, <1>9, <1>10, <1>11, <1>12, <1>13, <1>14 DEF Step

(* Only Send makes a call, and only for the identity of its process. *)
LEMMA CallsOfOthersStay ==
  ASSUME CallsInv, NEW p \in Procs, Step(p), NEW id \in identities, id # proc[p].id \/ ~Send(p)
  PROVE  Calls(id)' = Calls(id)
<1>1. CASE ~Send(p)
  <2>1. sent' = sent
    BY <1>1 DEF Step, Start, NextRun, SetUp, TakeTurn, Answer, CorrectedPass, FinishRun, KeepRun,
       CheckRecord, WriteRecord, BuildReport, PublishReport, Crash, ghosts
  <2> QED BY <2>1 DEF Calls
<1>2. CASE Send(p)
  <2>1. Table(sent, identities)
    BY DEF CallsInv, CampaignType
  <2>2. sent'[id] = sent[id]
    BY <1>2, <2>1 DEF Send, Table
  <2> QED BY <2>2 DEF Calls
<1> QED BY <1>1, <1>2

(* save_report writes a report once. *)
LEMMA ReportsStay ==
  ASSUME CallsInv, NEW p \in Procs, Step(p), NEW id \in identities, IsReport(reports[id])
  PROVE  reports'[id] = reports[id]
<1>1. reports[id] # NoReport /\ Table(reports, identities)
  BY DEF IsReport, NoReport, CallsInv, CampaignType
<1>2. CASE PublishReport(p)
  BY <1>1, <1>2 DEF PublishReport, Table
<1>3. CASE Crash(p)
  BY <1>1, <1>3 DEF Crash, Table
<1>4. CASE ~PublishReport(p) /\ ~Crash(p)
  BY <1>4 DEF Step, Start, NextRun, SetUp, TakeTurn, Send, Answer, CorrectedPass, FinishRun,
     KeepRun, CheckRecord, WriteRecord, BuildReport, disk
<1> QED BY <1>2, <1>3, <1>4

LEMMA PackagesOpenInit == CampaignInit => PackagesOpen
<1> SUFFICES ASSUME CampaignInit PROVE PackagesOpen
  OBVIOUS
<1>1. \A p \in Procs : proc[p] = Absent
  BY DEF CampaignInit
<1>2. \A id \in identities : Calls(id) = {} /\ ~package[id]
  BY DEF CampaignInit, Calls
<1> QED BY <1>1, <1>2, AbsentIsTyped DEF PackagesOpen, Development

LEMMA PackagesOpenNext == CallsInv /\ PackagesOpen /\ [CampaignNext]_campaignVars => PackagesOpen'
<1> SUFFICES ASSUME CallsInv, PackagesOpen, [CampaignNext]_campaignVars PROVE PackagesOpen'
  OBVIOUS
<1>1. CASE UNCHANGED campaignVars
  BY <1>1 DEF campaignVars, disk, ghosts, PackagesOpen, PriorFailedBeforeAdmission, Calls
<1>2. ASSUME NEW i \in identities, Authorize(i) PROVE PackagesOpen'
  <2>1. /\ package' = [package EXCEPT ![i] = TRUE] /\ UNCHANGED <<identities, reports, proc, sent>>
        /\ i = "contingency" => PriorFailedBeforeAdmission
    BY <1>2 DEF Authorize, ghosts
  <2>2. /\ package'[i] = TRUE /\ \A id \in identities : id # i => package'[id] = package[id]
    <3>1. Table(package, identities)
      BY DEF CallsInv, CampaignType
    <3> QED BY <2>1, <3>1 DEF Table
  <2>3. \A id \in identities : Calls(id)' = Calls(id)
    BY <2>1 DEF Calls
  <2>4. PriorFailedBeforeAdmission' <=> PriorFailedBeforeAdmission
    BY <2>1 DEF PriorFailedBeforeAdmission
  <2>5. identities = Development /\ package'["contingency"] => PriorFailedBeforeAdmission
    BY <2>1, <2>2 DEF PackagesOpen, Development
  <2>6. \A id \in identities \cap Development :
          /\ \A p \in Procs : proc[p].id = id => package'[id]
          /\ Calls(id) # {} => package'[id]
    BY <2>2 DEF PackagesOpen
  <2> QED BY <2>1, <2>3, <2>4, <2>5, <2>6 DEF PackagesOpen
<1>3. ASSUME NEW p \in Procs, Step(p) PROVE PackagesOpen'
  <2>1. UNCHANGED <<identities, package>>
    BY <1>3 DEF Step, Start, NextRun, SetUp, TakeTurn, Send, Answer, CorrectedPass, FinishRun,
       KeepRun, CheckRecord, WriteRecord, BuildReport, PublishReport, Crash, disk
  <2>2. ASSUME NEW id \in identities \cap Development, NEW q \in Procs, proc'[q].id = id
        PROVE  package[id]
    <3>1. CASE \E i \in identities : Start(p, i)
      <4>1. PICK i \in identities : Start(p, i)
        BY <3>1
      <4>2. PICK at, seen : proc' = [proc EXCEPT ![p] = At(i, at, seen, <<>>)]
        BY <4>1 DEF Start
      <4>3. i \in Development => package[i]
        BY <4>1 DEF Start
      <4>4. proc'[q].id = i \/ proc'[q] = proc[q]
        BY <4>2, AtSays DEF CallsInv, CampaignType
      <4> QED BY <2>2, <4>3, <4>4 DEF PackagesOpen
    <3>2. CASE ~\E i \in identities : Start(p, i)
      BY <1>3, <2>2, <3>2, IdsStay DEF PackagesOpen, Development
    <3> QED BY <3>1, <3>2
  <2>3. ASSUME NEW id \in identities \cap Development, Calls(id)' # {} PROVE package[id]
    <3>1. CASE id = proc[p].id
      BY <3>1 DEF PackagesOpen
    <3>2. CASE id # proc[p].id
      BY <1>3, <2>3, <3>2, CallsOfOthersStay DEF PackagesOpen
    <3> QED BY <3>1, <3>2
  <2>4. identities = Development /\ package["contingency"] => PriorFailedBeforeAdmission'
    <3>1. identities = Development => "formal" \in identities
      BY DEF Development
    <3> QED BY <1>3, <3>1, ReportsStay DEF PackagesOpen, PriorFailedBeforeAdmission, IsReport
  <2> QED BY <2>1, <2>2, <2>3, <2>4 DEF PackagesOpen
<1> QED BY <1>1, <1>2, <1>3 DEF CampaignNext

(* _validate_prior_failed_before_admission: the contingency, with its budget
   of its own, calls the provider only when the first identity never did. *)
THEOREM BudgetsAreNotAdded == CampaignSpec => []OneBudgetForBoth
<1>1. CampaignSpec => []PackagesOpen
  BY PackagesOpenInit, PackagesOpenNext, CallsInvHolds, PTL DEF CampaignSpec
<1>2. CallsInv /\ AloneInv /\ PackagesOpen => OneBudgetForBoth
  <2> SUFFICES ASSUME CallsInv, AloneInv, PackagesOpen, identities = Development,
                      "formal" \notin overlapped, Calls("contingency") # {}
               PROVE  Calls("formal") = {} /\ "formal" \notin unseen
    BY DEF OneBudgetForBoth
  <2>1. "formal" \in identities /\ "contingency" \in identities \cap Development
    BY DEF Development
  <2>2. PriorFailedBeforeAdmission
    BY <2>1 DEF PackagesOpen
  <2>3. ReportSpeaks("formal")
    BY <2>1 DEF AloneInv
  <2>4. Attempted(ledger["formal"]) = 0
    BY <2>2, <2>3 DEF PriorFailedBeforeAdmission, ReportSpeaks, Speaks
  <2>5. Invocations(ledger["formal"]) = {}
    <3>1. IsFiniteSet(Invocations(ledger["formal"]))
      BY <2>1, CallsAreInvocations
    <3> QED BY <2>4, <3>1, FS_EmptySet DEF Attempted
  <2>6. Calls("formal") = {}
    BY <2>1, <2>5, CallsAreInvocations
  <2> QED BY <2>1, <2>6 DEF CallsInv, CallsAreHeld
<1> QED BY <1>1, <1>2, CallsInvHolds, AloneInvHolds, PTL
=============================================================================
