-------------------------- MODULE OrganizationProofs --------------------------
(***************************************************************************)
(* Proofs about Organization for any groups, pointers, labels and files.   *)
(*                                                                         *)
(* That the groups form a tree is kept as a statement about sets closed    *)
(* under parents: each that has a group has the root.  It needs no depth   *)
(* and no counting, so it holds of any number of groups.  That collect     *)
(* ends is kept as the same statement the other way: what passes from the  *)
(* children to their parent is true of all groups.                         *)
(***************************************************************************)
EXTENDS Organization, Integers, FiniteSetTheorems, Induction, TLAPS

\* The groups form a tree: the root has no parent, every other group a known
\* one, and whoever goes up comes to the root.
Rooted ==
    /\ Root \in DOMAIN parent /\ parent[Root] = Nil
    /\ Closed(DOMAIN parent)
    /\ \A S \in SUBSET (Groups \cup {Nil}) :
          Closed(S) /\ S \cap DOMAIN parent # {} => Root \in S

\* What the overlay and the views refer to is there.
Refers ==
    /\ DOMAIN placement \cup DOMAIN alias \subseteq selected
    /\ \A p \in DOMAIN placement : placement[p] \in DOMAIN parent
    /\ \A f \in DOMAIN focused : focused[f] \in selected \cup DOMAIN parent \cup {Nil}

OverlayInv == TypeOK /\ Rooted /\ Refers /\ ValidViews(views, focused, main)

\* What is true of a group when it is true of its children is true of all.
Grounded ==
    \A S \in SUBSET DOMAIN parent :
        (\A g \in DOMAIN parent : Children(g) \subseteq S => g \in S) => S = DOMAIN parent

\* The tree is finite, and has leaves to begin at.
TreeInv == IsFiniteSet(DOMAIN parent) /\ Grounded

-----------------------------------------------------------------------------
(***************************************************************************)
(* Sequences that list a set.                                              *)
(***************************************************************************)
\* s lists S: every element once, and nothing else.
Lists(s, S) == s \in Seq(S) /\ ToSet(s) = S /\ IsInjective(s)

\* A list of S is as long as S is large.
LEMMA ListsLength ==
  ASSUME NEW S, NEW s, Lists(s, S)
  PROVE  Len(s) = Cardinality(S)
<1>1. Len(s) \in Nat /\ s \in [1..Len(s) -> S] /\ DOMAIN s = 1..Len(s)
  BY DEF Lists
<1>2. s \in Bijection(1..Len(s), S)
  BY <1>1 DEF Lists, ToSet, IsInjective, Bijection, Injection, Surjection
<1>3. IsFiniteSet(1..Len(s)) /\ Cardinality(1..Len(s)) = Len(s)
  BY <1>1, FS_Interval
<1> QED
  BY <1>2, <1>3, FS_Bijection DEF ExistsBijection

\* SetToSeq lists a finite set.
LEMMA SetToSeqLists ==
  ASSUME NEW S, IsFiniteSet(S)
  PROVE  Lists(SetToSeq(S), S)
<1> DEFINE n == Cardinality(S)
           s == SetToSeq(S)
<1>1. n \in Nat /\ ExistsBijection(1..n, S)
  BY FS_CardinalityType
<1>2. \E f \in [1..n -> S] : IsInjective(f)
  BY <1>1 DEF ExistsBijection, Bijection, Injection
<1>3. s \in [1..n -> S] /\ IsInjective(s)
  BY <1>2 DEF SetToSeq
<1>4. IsFiniteSet(1..n) /\ Cardinality(1..n) = n
  BY <1>1, FS_Interval
<1> HIDE DEF n, s
<1>5. s \in Injection(1..n, S)
  BY <1>3 DEF Injection
<1>6. s \in Surjection(1..n, S)
  BY <1>4, <1>5, FS_Injection DEF n
<1>7. s \in Seq(S) /\ DOMAIN s = 1..n
  BY <1>1, <1>3
<1>8. ToSet(s) = S
  BY <1>3, <1>6, <1>7 DEF ToSet, Surjection
<1> QED
  BY <1>3, <1>7, <1>8 DEF Lists, s

\* The empty sequence lists the empty set, and <<x>> the set of x.
LEMMA ListsSmall == Lists(<<>>, {}) /\ \A x : Lists(<<x>>, {x})
BY DEF Lists, ToSet, IsInjective

\* Lists of sets that have nothing in common make one list.
LEMMA ListsConcat ==
  ASSUME NEW S, NEW T, NEW s, NEW t, Lists(s, S), Lists(t, T), S \cap T = {}
  PROVE  Lists(s \o t, S \cup T)
<1> DEFINE r == s \o t
<1>1. /\ Len(s) \in Nat /\ s \in [1..Len(s) -> S] /\ s \in Seq(S \cup T)
      /\ Len(t) \in Nat /\ t \in [1..Len(t) -> T] /\ t \in Seq(S \cup T)
  BY DEF Lists
<1>2. /\ r \in Seq(S \cup T) /\ Len(r) = Len(s) + Len(t) /\ DOMAIN r = 1..(Len(s) + Len(t))
      /\ \A i \in 1..Len(s) : r[i] = s[i]
      /\ \A i \in 1..Len(t) : r[Len(s) + i] = t[i]
  BY <1>1
<1>3. \A i \in DOMAIN r : i \in 1..Len(s) \/ (i - Len(s) \in 1..Len(t) /\ Len(s) + (i - Len(s)) = i)
  BY <1>1, <1>2
<1> HIDE DEF r
<1>4. ToSet(r) = S \cup T
  <2>1. ToSet(r) \subseteq S \cup T
    BY <1>2, <1>1 DEF ToSet
  <2>2. \A x \in S : x \in ToSet(r)
    <3>1. \A x \in S : \E i \in 1..Len(s) : s[i] = x
      BY <1>1 DEF Lists, ToSet
    <3>2. 1..Len(s) \subseteq DOMAIN r
      BY <1>1, <1>2
    <3> QED
      BY <1>2, <3>1, <3>2 DEF ToSet
  <2>3. \A x \in T : x \in ToSet(r)
    <3>1. \A x \in T : \E i \in 1..Len(t) : t[i] = x
      BY <1>1 DEF Lists, ToSet
    <3>2. \A i \in 1..Len(t) : Len(s) + i \in DOMAIN r
      BY <1>1, <1>2
    <3> QED
      BY <1>2, <3>1, <3>2 DEF ToSet
  <2> QED
    BY <2>1, <2>2, <2>3
<1>5. IsInjective(r)
  <2> SUFFICES ASSUME NEW i \in DOMAIN r, NEW j \in DOMAIN r, r[i] = r[j]
               PROVE  i = j
    BY DEF IsInjective
  <2>1. CASE i \in 1..Len(s) /\ j \in 1..Len(s)
    BY <1>1, <1>2, <2>1 DEF Lists, IsInjective
  <2>2. CASE i \notin 1..Len(s) /\ j \notin 1..Len(s)
    <3>1. /\ i - Len(s) \in 1..Len(t) /\ r[i] = t[i - Len(s)]
          /\ j - Len(s) \in 1..Len(t) /\ r[j] = t[j - Len(s)]
      BY <1>2, <1>3, <2>2
    <3>2. i - Len(s) = j - Len(s)
      BY <1>1, <3>1 DEF Lists, IsInjective
    <3> QED
      BY <1>1, <1>2, <3>2
  <2>3. CASE i \in 1..Len(s) /\ j \notin 1..Len(s)
    BY <1>1, <1>2, <1>3, <2>3
  <2>4. CASE i \notin 1..Len(s) /\ j \in 1..Len(s)
    BY <1>1, <1>2, <1>3, <2>4
  <2> QED
    BY <2>1, <2>2, <2>3, <2>4
<1> QED
  BY <1>2, <1>4, <1>5 DEF Lists, r

\* FlattenSeq goes along its argument and appends one part after the other.
LEMMA FlattenTurns ==
  ASSUME NEW U, NEW n \in Nat, NEW seqs \in [1..n -> Seq(U)]
  PROVE  \E f : /\ f \in [0..n -> Seq(U)] /\ f[0] = <<>>
                /\ \A i \in 1..n : f[i] = f[i - 1] \o seqs[i]
                /\ FlattenSeq(seqs) = f[n]
<1> DEFINE step == [i \in 1..n |-> [l \in Seq(U) |-> l \o seqs[i]]]
           Solves(g) == g = [i \in 1..n |-> IF i = 1 THEN seqs[i] ELSE g[i - 1] \o seqs[i]]
           flatten == CHOOSE g : Solves(g)
<1>1. step \in [1..n -> [Seq(U) -> Seq(U)]]
  OBVIOUS
<1>2. PICK f \in [0..n -> Seq(U)] : Along(f, n, <<>>, step)
  <2> HIDE DEF step
  <2>1. <<>> \in Seq(U)
    OBVIOUS
  <2> QED
    BY <1>1, <2>1, AlongExists
<1>3. f[0] = <<>>
  BY <1>2 DEF Along
<1>4. ASSUME NEW i \in 1..n PROVE f[i] = f[i - 1] \o seqs[i]
  <2>1. i \in 0..n /\ i # 0 /\ f[i - 1] \in Seq(U)
    OBVIOUS
  <2>2. f[i] = step[i][f[i - 1]]
    <3> HIDE DEF step
    <3> QED
      BY <1>2, <2>1 DEF Along
  <2> QED
    BY <2>1, <2>2
<1>5. Len(seqs) = n
  OBVIOUS
<1>6. CASE n = 0
  <2>1. FlattenSeq(seqs) = seqs /\ seqs = <<>>
    BY <1>5, <1>6 DEF FlattenSeq
  <2> QED
    BY <1>3, <1>4, <1>6, <2>1
<1>7. CASE n # 0
  <2>1. Solves([i \in 1..n |-> f[i]])
    <3> DEFINE h == [i \in 1..n |-> f[i]]
    <3>1. ASSUME NEW i \in 1..n
          PROVE  h[i] = IF i = 1 THEN seqs[i] ELSE h[i - 1] \o seqs[i]
      <4>1. CASE i = 1
        <5>1. i - 1 = 0 /\ seqs[i] \in Seq(U) /\ h[i] = f[i]
          BY <4>1
        <5>2. f[i] = f[i - 1] \o seqs[i]
          BY <1>4
        <5>3. <<>> \o seqs[i] = seqs[i]
          BY <5>1
        <5> QED
          BY <1>3, <4>1, <5>1, <5>2, <5>3
      <4>2. CASE i # 1
        <5>1. i - 1 \in 1..n /\ h[i - 1] = f[i - 1] /\ h[i] = f[i]
          BY <4>2
        <5>2. f[i] = f[i - 1] \o seqs[i]
          BY <1>4
        <5> QED
          BY <4>2, <5>1, <5>2
      <4> QED
        BY <4>1, <4>2
    <3>2. h = [i \in 1..n |-> h[i]]
      OBVIOUS
    <3> HIDE DEF h
    <3>3. Solves(h)
      BY <3>1, <3>2
    <3> QED
      BY <3>3 DEF h
  <2>2. Solves(flatten)
    <3> HIDE DEF Solves
    <3> QED
      BY <2>1
  <2>3. FlattenSeq(seqs) = flatten[n]
    BY <1>5, <1>7 DEF FlattenSeq
  <2> HIDE DEF flatten
  <2> DEFINE S == {k \in Nat : k \in 1..n => flatten[k] = f[k]}
  <2>4. 0 \in S
    OBVIOUS
  <2>5. ASSUME NEW k \in Nat, k \in S
        PROVE  k + 1 \in S
    <3> SUFFICES ASSUME k + 1 \in 1..n PROVE flatten[k + 1] = f[k + 1]
      OBVIOUS
    <3>0. (k + 1) - 1 = k
      OBVIOUS
    <3>1. flatten[k + 1] = IF k + 1 = 1 THEN seqs[k + 1] ELSE flatten[(k + 1) - 1] \o seqs[k + 1]
      BY <2>2
    <3>2. f[k + 1] = f[(k + 1) - 1] \o seqs[k + 1]
      BY <1>4
    <3>3. CASE k = 0
      <4>1. f[k + 1] = <<>> \o seqs[k + 1] /\ seqs[k + 1] \in Seq(U)
        BY <1>3, <3>0, <3>2, <3>3
      <4>2. <<>> \o seqs[k + 1] = seqs[k + 1]
        BY <4>1
      <4> QED
        BY <3>1, <3>3, <4>1, <4>2
    <3>4. CASE k # 0
      <4>1. k \in 1..n /\ k + 1 # 1 /\ flatten[k] = f[k]
        BY <2>5, <3>4
      <4> QED
        BY <3>0, <3>1, <3>2, <4>1
    <3> QED
      BY <3>3, <3>4
  <2> HIDE DEF S
  <2>6. Nat \subseteq S
    BY <2>4, <2>5, SetInduction
  <2>7. flatten[n] = f[n]
    BY <1>7, <2>6 DEF S
  <2> QED
    BY <1>3, <1>4, <2>3, <2>7
<1> QED
  BY <1>6, <1>7

\* Lists of sets that have nothing in common, flattened, list their union.
LEMMA ListsFlatten ==
  ASSUME NEW n \in Nat, NEW seqs, NEW sets, DOMAIN seqs = 1..n, seqs = [i \in 1..n |-> seqs[i]],
         \A i \in 1..n : Lists(seqs[i], sets[i]),
         \A i, j \in 1..n : i # j => sets[i] \cap sets[j] = {}
  PROVE  Lists(FlattenSeq(seqs), UNION {sets[i] : i \in 1..n})
<1> DEFINE U == UNION {sets[i] : i \in 1..n}
           Upto(k) == UNION {sets[i] : i \in 1..k}
<1>1. seqs \in [1..n -> Seq(U)]
  <2>1. ASSUME NEW i \in 1..n PROVE seqs[i] \in Seq(U)
    <3>1. seqs[i] \in Seq(sets[i]) /\ sets[i] \subseteq U
      BY DEF Lists
    <3> HIDE DEF U
    <3> QED
      BY <3>1
  <2> HIDE DEF U
  <2> QED
    BY <2>1
<1>2. PICK f : /\ f \in [0..n -> Seq(U)] /\ f[0] = <<>>
               /\ \A i \in 1..n : f[i] = f[i - 1] \o seqs[i]
               /\ FlattenSeq(seqs) = f[n]
  <2> HIDE DEF U
  <2> QED
    BY <1>1, FlattenTurns
<1> DEFINE S == {k \in Nat : k <= n => Lists(f[k], Upto(k))}
<1>3. 0 \in S
  <2>1. Upto(0) = {}
    OBVIOUS
  <2> QED
    BY <1>2, <2>1, ListsSmall
<1>4. ASSUME NEW k \in Nat, k \in S
      PROVE  k + 1 \in S
  <2> SUFFICES ASSUME k + 1 <= n PROVE Lists(f[k + 1], Upto(k + 1))
    OBVIOUS
  <2>1. k + 1 \in 1..n /\ (k + 1) - 1 = k
    OBVIOUS
  <2>2. f[k + 1] = f[k] \o seqs[k + 1]
    BY <1>2, <2>1
  <2>3. Upto(k + 1) = Upto(k) \cup sets[k + 1]
    <3>1. 1..(k + 1) = (1..k) \cup {k + 1}
      OBVIOUS
    <3> QED
      BY <3>1
  <2>4. Upto(k) \cap sets[k + 1] = {}
    <3>1. \A i \in 1..k : i \in 1..n /\ i # k + 1
      OBVIOUS
    <3> QED
      BY <2>1, <3>1
  <2>5. Lists(f[k], Upto(k)) /\ Lists(seqs[k + 1], sets[k + 1])
    BY <1>4, <2>1
  <2> HIDE DEF Upto
  <2> QED
    BY <2>2, <2>3, <2>4, <2>5, ListsConcat
<1> HIDE DEF S
<1>5. n \in S
  BY <1>3, <1>4, SetInduction
<1> QED
  BY <1>2, <1>5 DEF S

-----------------------------------------------------------------------------
(***************************************************************************)
(* The overlay loads.                                                      *)
(***************************************************************************)
\* A partial function has its domain and its values in the two sets.
LEMMA PartialIs ==
  ASSUME NEW S, NEW T, NEW f
  PROVE  f \in Partial(S, T) <=> DOMAIN f \subseteq S /\ f \in [DOMAIN f -> T]
BY DEF Partial

\* Taking a key out keeps a partial function one.
LEMMA WithoutPartial ==
  ASSUME NEW S, NEW T, NEW f, f \in Partial(S, T), NEW x
  PROVE  Without(f, x) \in Partial(S, T)
<1>1. DOMAIN f \subseteq S /\ f \in [DOMAIN f -> T]
  BY PartialIs
<1>2. DOMAIN Without(f, x) = DOMAIN f \ {x} /\ Without(f, x) \in [DOMAIN f \ {x} -> T]
  BY <1>1 DEF Without
<1>3. DOMAIN Without(f, x) \subseteq S /\ Without(f, x) \in [DOMAIN Without(f, x) -> T]
  BY <1>1, <1>2
<1> QED
  BY <1>3, PartialIs

\* Setting one keeps it one too.
LEMMA WithPartial ==
  ASSUME NEW S, NEW T, NEW f, f \in Partial(S, T), NEW x \in S, NEW v \in T
  PROVE  With(f, x, v) \in Partial(S, T)
<1>1. DOMAIN f \subseteq S /\ f \in [DOMAIN f -> T]
  BY PartialIs
<1>2. DOMAIN With(f, x, v) = DOMAIN f \cup {x} /\ With(f, x, v) \in [DOMAIN f \cup {x} -> T]
  BY <1>1 DEF With
<1>3. DOMAIN With(f, x, v) \subseteq S /\ With(f, x, v) \in [DOMAIN With(f, x, v) -> T]
  BY <1>1, <1>2
<1> QED
  BY <1>3, PartialIs

\* What is moved comes to its new pointer, with a value it had.
LEMMA MovedIs ==
  ASSUME NEW S, NEW T, NEW f \in Partial(S, T), NEW new \in SUBSET S, Nil \notin S,
         NEW m, \A p \in DOMAIN f : m[p] \in new \cup {Nil}
  PROVE  /\ Moved(f, m) \in Partial(S, T) /\ DOMAIN Moved(f, m) \subseteq new
         /\ \A q \in DOMAIN Moved(f, m) : \E p \in DOMAIN f : Moved(f, m)[q] = f[p]
<1>1. DOMAIN Moved(f, m) = {m[p] : p \in DOMAIN f} \ {Nil} /\ DOMAIN Moved(f, m) \subseteq new
  BY DEF Moved
<1>2. \A q \in DOMAIN Moved(f, m) : \E p \in DOMAIN f : Moved(f, m)[q] = f[p]
  <2> SUFFICES ASSUME NEW q \in DOMAIN Moved(f, m)
               PROVE  \E p \in DOMAIN f : Moved(f, m)[q] = f[p]
    OBVIOUS
  <2>1. (CHOOSE p \in DOMAIN f : m[p] = q) \in DOMAIN f
    BY <1>1
  <2>2. Moved(f, m)[q] = f[CHOOSE p \in DOMAIN f : m[p] = q]
    BY <1>1 DEF Moved
  <2> QED
    BY <2>1, <2>2
<1>3. \A q \in DOMAIN Moved(f, m) : Moved(f, m)[q] \in T
  BY <1>2, PartialIs
<1>4. Moved(f, m) = [q \in DOMAIN Moved(f, m) |-> Moved(f, m)[q]]
  BY <1>1 DEF Moved
<1>5. Moved(f, m) \in [DOMAIN Moved(f, m) -> T]
  BY <1>3, <1>4
<1> QED
  BY <1>1, <1>2, <1>5, PartialIs

\* A tree in terms of closed sets is one in terms of ancestors.
LEMMA RootedIsOneTree == ASSUME TypeOK, Rooted PROVE OneTree
<1>1. DOMAIN parent \in SUBSET (Groups \cup {Nil})
  BY PartialIs DEF TypeOK
<1>2. ASSUME NEW g \in DOMAIN parent PROVE Root \in Above(g)
  BY <1>2, OrganizationAssumption DEF Rooted, Above
<1>3. ASSUME NEW g \in DOMAIN parent PROVE Above(g) \subseteq DOMAIN parent
  BY <1>1, <1>3 DEF Rooted, Above
<1> QED
  BY <1>2, <1>3 DEF Rooted, OneTree

-----------------------------------------------------------------------------
\* There is the root, and one view.
LEMMA InitOverlay == Init => OverlayInv
<1> SUFFICES ASSUME Init PROVE OverlayInv
  OBVIOUS
<1>1. <<>> \in Partial(Pointers, Groups) /\ <<>> \in Partial(Pointers, Labels)
      /\ <<>> \in Partial(Files, Groups \cup Pointers \cup {Nil}) /\ DOMAIN <<>> = {}
  <2>1. \A T : <<>> \in [DOMAIN <<>> -> T] /\ DOMAIN <<>> = {}
    OBVIOUS
  <2> QED
    BY <2>1, PartialIs
<1>2. parent \in Partial(Groups, Groups \cup {Nil}) /\ DOMAIN parent = {Root} /\ parent[Root] = Nil
  <2>1. parent \in [{Root} -> Groups \cup {Nil}] /\ DOMAIN parent = {Root} /\ parent[Root] = Nil
    BY DEF Init
  <2> QED
    BY <2>1, PartialIs, OrganizationAssumption
<1>3. TypeOK
  BY <1>1, <1>2, OrganizationAssumption DEF Init, TypeOK
<1>4. Rooted
  BY <1>2 DEF Rooted, Closed
<1>5. Refers
  BY <1>1 DEF Init, Refers
<1>6. Cardinality(views) = 1
  BY FS_Singleton DEF Init
<1>7. ValidViews(views, focused, main)
  BY <1>1, <1>6, OrganizationAssumption DEF Init, ValidViews
<1> QED
  BY <1>3, <1>4, <1>5, <1>7 DEF OverlayInv

\* A new group has a known parent, and so a way to the root.
LEMMA AddGroupStep ==
  ASSUME OverlayInv, NEW g \in Groups, NEW up \in Groups, AddGroup(g, up)
  PROVE  OverlayInv'
<1>1. /\ g \notin DOMAIN parent /\ up \in DOMAIN parent /\ parent' = With(parent, g, up)
      /\ UNCHANGED <<selected, placement, alias, focused, main, views>>
  BY DEF AddGroup, Known
<1>2. /\ parent' \in Partial(Groups, Groups \cup {Nil}) /\ DOMAIN parent' = DOMAIN parent \cup {g}
      /\ parent'[g] = up /\ \A h \in DOMAIN parent : parent'[h] = parent[h]
  <2>1. parent \in Partial(Groups, Groups \cup {Nil}) /\ g \in Groups /\ up \in Groups \cup {Nil}
    BY DEF OverlayInv, TypeOK
  <2>2. With(parent, g, up) \in Partial(Groups, Groups \cup {Nil})
    BY <2>1, WithPartial
  <2>3. /\ DOMAIN With(parent, g, up) = DOMAIN parent \cup {g}
        /\ With(parent, g, up)[g] = up
        /\ \A y \in DOMAIN parent \ {g} : With(parent, g, up)[y] = parent[y]
    BY DEF With
  <2> QED
    BY <1>1, <2>2, <2>3
<1>3. TypeOK'
  BY <1>1, <1>2 DEF OverlayInv, TypeOK
<1>4. Rooted'
  <2>1. Root \in DOMAIN parent' /\ parent'[Root] = Nil /\ Closed(DOMAIN parent)
    BY <1>2 DEF OverlayInv, Rooted
  <2>2. Closed(DOMAIN parent)'
    BY <1>1, <1>2, <2>1 DEF Closed
  <2>3. ASSUME NEW S \in SUBSET (Groups \cup {Nil}), Closed(S)', S \cap DOMAIN parent' # {}
        PROVE  Root \in S
    <3>1. Closed(S)
      BY <1>2, <2>3 DEF Closed
    <3>2. g # Root
      BY <1>1 DEF OverlayInv, Rooted
    <3>3. S \cap DOMAIN parent # {}
      BY <1>1, <1>2, <2>3, <3>2 DEF Closed
    <3> QED
      BY <3>1, <3>3 DEF OverlayInv, Rooted
  <2> QED
    BY <2>1, <2>2, <2>3 DEF Rooted
<1>5. Refers' /\ ValidViews(views, focused, main)'
  BY <1>1, <1>2 DEF OverlayInv, Refers, ValidViews
<1> QED
  BY <1>3, <1>4, <1>5 DEF OverlayInv

\* A group that is removed was nobody's parent and held nothing.
LEMMA RemoveGroupStep ==
  ASSUME OverlayInv, NEW g \in Groups, RemoveGroup(g)
  PROVE  OverlayInv'
<1>1. /\ g # Root /\ g \in DOMAIN parent /\ parent' = Without(parent, g)
      /\ \A h \in DOMAIN parent : parent[h] # g
      /\ \A p \in DOMAIN placement : placement[p] # g
      /\ focused' = [f \in DOMAIN focused |-> IF focused[f] = g THEN Nil ELSE focused[f]]
      /\ UNCHANGED <<selected, placement, alias, main, views>>
  BY DEF RemoveGroup, Known, Removable, Emptied
<1>2. /\ parent' \in Partial(Groups, Groups \cup {Nil}) /\ DOMAIN parent' = DOMAIN parent \ {g}
      /\ \A h \in DOMAIN parent' : parent'[h] = parent[h]
  <2>1. parent \in Partial(Groups, Groups \cup {Nil})
    BY DEF OverlayInv, TypeOK
  <2>2. Without(parent, g) \in Partial(Groups, Groups \cup {Nil})
    BY <2>1, WithoutPartial
  <2>3. /\ DOMAIN Without(parent, g) = DOMAIN parent \ {g}
        /\ \A y \in DOMAIN parent \ {g} : Without(parent, g)[y] = parent[y]
    BY DEF Without
  <2> QED
    BY <1>1, <2>2, <2>3
<1>3. focused' \in Partial(Files, Groups \cup Pointers \cup {Nil}) /\ DOMAIN focused' = DOMAIN focused
  BY <1>1, PartialIs DEF OverlayInv, TypeOK
<1>4. TypeOK'
  BY <1>1, <1>2, <1>3 DEF OverlayInv, TypeOK
<1>5. Rooted'
  <2>1. Root \in DOMAIN parent' /\ parent'[Root] = Nil /\ Closed(DOMAIN parent)
    BY <1>1, <1>2 DEF OverlayInv, Rooted
  <2>2. Closed(DOMAIN parent)'
    BY <1>1, <1>2, <2>1 DEF Closed
  <2>3. ASSUME NEW S \in SUBSET (Groups \cup {Nil}), Closed(S)', S \cap DOMAIN parent' # {}
        PROVE  Root \in S
    <3>1. Closed(S \ {g})
      BY <1>1, <1>2, <2>3 DEF Closed
    <3>2. S \ {g} \in SUBSET (Groups \cup {Nil}) /\ (S \ {g}) \cap DOMAIN parent # {}
      BY <1>2, <2>3
    <3> QED
      BY <3>1, <3>2 DEF OverlayInv, Rooted
  <2> QED
    BY <2>1, <2>2, <2>3 DEF Rooted
<1>6. Refers'
  BY <1>1, <1>2 DEF OverlayInv, Refers
<1>7. ValidViews(views, focused, main)'
  BY <1>1, <1>3 DEF OverlayInv, ValidViews
<1> QED
  BY <1>4, <1>5, <1>6, <1>7 DEF OverlayInv

\* A selected pointer is placed in a known group.
LEMMA AssignStep ==
  ASSUME OverlayInv, NEW p \in Pointers, NEW g \in Groups, NEW label \in Labels \cup {Nil},
         Assign(p, g, label)
  PROVE  OverlayInv'
<1>1. /\ p \in selected /\ g \in DOMAIN parent /\ placement' = With(placement, p, g)
      /\ alias' = alias \/ (label \in Labels /\ alias' = With(alias, p, label))
      /\ UNCHANGED <<selected, parent, focused, main, views>>
  BY DEF Assign, Known
<1>2. /\ placement' \in Partial(Pointers, Groups) /\ DOMAIN placement' = DOMAIN placement \cup {p}
      /\ placement'[p] = g /\ \A q \in DOMAIN placement \ {p} : placement'[q] = placement[q]
  <2>1. placement \in Partial(Pointers, Groups)
    BY DEF OverlayInv, TypeOK
  <2>2. With(placement, p, g) \in Partial(Pointers, Groups)
    BY <2>1, WithPartial
  <2>3. /\ DOMAIN With(placement, p, g) = DOMAIN placement \cup {p}
        /\ With(placement, p, g)[p] = g
        /\ \A y \in DOMAIN placement \ {p} : With(placement, p, g)[y] = placement[y]
    BY DEF With
  <2> QED
    BY <1>1, <2>2, <2>3
<1>3. alias' \in Partial(Pointers, Labels) /\ DOMAIN alias' \subseteq DOMAIN alias \cup {p}
  <2>1. alias \in Partial(Pointers, Labels)
    BY DEF OverlayInv, TypeOK
  <2>2. label \in Labels => With(alias, p, label) \in Partial(Pointers, Labels)
    BY <2>1, WithPartial
  <2>3. DOMAIN With(alias, p, label) = DOMAIN alias \cup {p}
    BY DEF With
  <2> QED
    BY <1>1, <2>1, <2>2, <2>3
<1>4. TypeOK'
  BY <1>1, <1>2, <1>3 DEF OverlayInv, TypeOK
<1>5. Rooted' /\ ValidViews(views, focused, main)'
  BY <1>1 DEF OverlayInv, Rooted, Closed, ValidViews
<1>6. Refers'
  BY <1>1, <1>2, <1>3 DEF OverlayInv, Refers
<1> QED
  BY <1>4, <1>5, <1>6 DEF OverlayInv

\* A pointer is taken out of its group.
LEMMA UnassignStep ==
  ASSUME OverlayInv, NEW p \in Pointers, Unassign(p)
  PROVE  OverlayInv'
<1>1. /\ placement' = Without(placement, p)
      /\ UNCHANGED <<selected, parent, alias, focused, main, views>>
  BY DEF Unassign
<1>2. /\ placement' \in Partial(Pointers, Groups) /\ DOMAIN placement' = DOMAIN placement \ {p}
      /\ \A q \in DOMAIN placement' : placement'[q] = placement[q]
  <2>1. placement \in Partial(Pointers, Groups)
    BY DEF OverlayInv, TypeOK
  <2>2. Without(placement, p) \in Partial(Pointers, Groups)
    BY <2>1, WithoutPartial
  <2>3. /\ DOMAIN Without(placement, p) = DOMAIN placement \ {p}
        /\ \A y \in DOMAIN placement \ {p} : Without(placement, p)[y] = placement[y]
    BY DEF Without
  <2> QED
    BY <1>1, <2>2, <2>3
<1>3. TypeOK'
  BY <1>1, <1>2 DEF OverlayInv, TypeOK
<1>4. Rooted' /\ ValidViews(views, focused, main)' /\ Refers'
  BY <1>1, <1>2 DEF OverlayInv, Rooted, Closed, ValidViews, Refers
<1> QED
  BY <1>3, <1>4 DEF OverlayInv

\* What a label names is a selected pointer or a group.
LEMMA FocusStep ==
  ASSUME OverlayInv, NEW label \in Labels, NEW f \in Files, Focus(label, f)
  PROVE  OverlayInv'
<1> DEFINE targets == Named(label) \cup (DOMAIN parent \cap {label})
           target == CHOOSE t \in targets : TRUE
<1>1. /\ Cardinality(targets) = 1 /\ focused' = With(focused, f, target)
      /\ views' = views \cup {f} /\ ValidViews(views', focused', main)
      /\ UNCHANGED <<selected, parent, placement, alias, main>>
  BY DEF Focus
<1>2. targets # {}
  BY <1>1, FS_EmptySet
<1>3. target \in targets
  BY <1>2
<1>4. targets \subseteq selected \cup DOMAIN parent
  BY DEF Named
<1>5. target \in selected \cup DOMAIN parent
  BY <1>3, <1>4
<1> HIDE DEF target
<1>6. selected \cup DOMAIN parent \subseteq Groups \cup Pointers
  BY PartialIs DEF OverlayInv, TypeOK
<1>7. /\ focused' \in Partial(Files, Groups \cup Pointers \cup {Nil})
      /\ DOMAIN focused' = DOMAIN focused \cup {f} /\ focused'[f] = target
      /\ \A h \in DOMAIN focused \ {f} : focused'[h] = focused[h]
  <2>1. focused \in Partial(Files, Groups \cup Pointers \cup {Nil}) /\ f \in Files /\ target \in Groups \cup Pointers \cup {Nil}
    BY <1>5, <1>6 DEF OverlayInv, TypeOK
  <2>2. With(focused, f, target) \in Partial(Files, Groups \cup Pointers \cup {Nil})
    BY <2>1, WithPartial
  <2>3. /\ DOMAIN With(focused, f, target) = DOMAIN focused \cup {f}
        /\ With(focused, f, target)[f] = target
        /\ \A y \in DOMAIN focused \ {f} : With(focused, f, target)[y] = focused[y]
    BY DEF With
  <2> QED
    BY <1>1, <2>2, <2>3
<1>8. TypeOK'
  BY <1>1, <1>7 DEF OverlayInv, TypeOK
<1>9. Rooted' /\ Refers'
  BY <1>1, <1>5, <1>7 DEF OverlayInv, Rooted, Closed, Refers
<1>10. ValidViews(views, focused, main)'
  BY <1>1
<1> QED
  BY <1>8, <1>9, <1>10 DEF OverlayInv

\* The view of everything is focused on nothing.
LEMMA EditorViewStep ==
  ASSUME OverlayInv, NEW f \in Files, EditorViewAt(f)
  PROVE  OverlayInv'
<1>1. /\ main' = f /\ views' = views \cup {f} /\ focused' = Without(focused, f)
      /\ ValidViews(views', focused', main')
      /\ UNCHANGED <<selected, parent, placement, alias>>
  BY DEF EditorViewAt
<1>2. /\ focused' \in Partial(Files, Groups \cup Pointers \cup {Nil})
      /\ DOMAIN focused' = DOMAIN focused \ {f}
      /\ \A h \in DOMAIN focused' : focused'[h] = focused[h]
  <2>1. focused \in Partial(Files, Groups \cup Pointers \cup {Nil})
    BY DEF OverlayInv, TypeOK
  <2>2. Without(focused, f) \in Partial(Files, Groups \cup Pointers \cup {Nil})
    BY <2>1, WithoutPartial
  <2>3. /\ DOMAIN Without(focused, f) = DOMAIN focused \ {f}
        /\ \A y \in DOMAIN focused \ {f} : Without(focused, f)[y] = focused[y]
    BY DEF Without
  <2> QED
    BY <1>1, <2>2, <2>3
<1>3. TypeOK'
  BY <1>1, <1>2 DEF OverlayInv, TypeOK
<1>4. Rooted' /\ Refers'
  BY <1>1, <1>2 DEF OverlayInv, Rooted, Closed, Refers
<1>5. ValidViews(views, focused, main)'
  BY <1>1
<1> QED
  BY <1>3, <1>4, <1>5 DEF OverlayInv

\* A view is retargeted to the successor of its pointer, and else left alone.
LEMMA RetargetedIs ==
  ASSUME OverlayInv, NEW new \in SUBSET Pointers, NEW m \in Remaps(new),
         NEW f \in DOMAIN focused
  PROVE  /\ focused[f] \in Pointers =>
               focused[f] \in selected /\ Retargeted(m)[f] = m[focused[f]]
               /\ m[focused[f]] \in new \cup {Nil}
               /\ (focused[f] \in new => m[focused[f]] = focused[f])
         /\ focused[f] \notin Pointers =>
               Retargeted(m)[f] = focused[f] /\ focused[f] \in DOMAIN parent \cup {Nil}
<1>1. Retargeted(m)[f] = IF focused[f] \in Pointers THEN m[focused[f]] ELSE focused[f]
  BY DEF Retargeted
<1>2. selected \subseteq Pointers /\ DOMAIN parent \cap Pointers = {}
  BY PartialIs, OrganizationAssumption DEF OverlayInv, TypeOK
<1>3. focused[f] \in selected \cup DOMAIN parent \cup {Nil}
  BY DEF OverlayInv, Refers
<1>4. focused[f] \in Pointers => focused[f] \in Referred
  BY DEF Referred
<1>5. focused[f] \in Pointers => focused[f] \in selected
  BY <1>2, <1>3, OrganizationAssumption
<1> QED
  BY <1>1, <1>2, <1>3, <1>4, <1>5 DEF Remaps

\* The overlay follows the new selection.
LEMMA ReselectStep ==
  ASSUME OverlayInv, NEW new \in SUBSET Pointers, NEW m \in Remaps(new), Reselect(new, m)
  PROVE  OverlayInv'
<1>1. /\ selected' = new /\ placement' = Moved(placement, m) /\ alias' = Moved(alias, m)
      /\ focused' = Retargeted(m) /\ UNCHANGED <<parent, main, views>>
  BY DEF Reselect
<1>2. /\ \A p \in DOMAIN placement : m[p] \in new \cup {Nil}
      /\ \A p \in DOMAIN alias : m[p] \in new \cup {Nil}
  BY DEF Remaps, Referred
<1>3. /\ placement' \in Partial(Pointers, Groups) /\ DOMAIN placement' \subseteq new
      /\ \A q \in DOMAIN placement' : \E p \in DOMAIN placement : placement'[q] = placement[p]
  <2>1. placement \in Partial(Pointers, Groups) /\ Nil \notin Pointers
    BY OrganizationAssumption DEF OverlayInv, TypeOK
  <2> QED
    BY <1>1, <1>2, <2>1, MovedIs
<1>4. alias' \in Partial(Pointers, Labels) /\ DOMAIN alias' \subseteq new
  <2>1. alias \in Partial(Pointers, Labels) /\ Nil \notin Pointers
    BY OrganizationAssumption DEF OverlayInv, TypeOK
  <2> QED
    BY <1>1, <1>2, <2>1, MovedIs
<1>5. DOMAIN focused' = DOMAIN focused /\ \A f \in DOMAIN focused : focused'[f] = Retargeted(m)[f]
  BY <1>1 DEF Retargeted
<1>6. \A f \in DOMAIN focused' : focused'[f] \in new \cup DOMAIN parent \cup {Nil}
  BY <1>5, RetargetedIs
<1>7. focused' \in Partial(Files, Groups \cup Pointers \cup {Nil})
  <2>1. DOMAIN parent \subseteq Groups /\ DOMAIN focused \subseteq Files
    BY PartialIs DEF OverlayInv, TypeOK
  <2>2. focused' = [f \in DOMAIN focused |-> focused'[f]]
    BY <1>1 DEF Retargeted
  <2>3. focused' \in [DOMAIN focused' -> Groups \cup Pointers \cup {Nil}]
    BY <1>5, <1>6, <2>1, <2>2
  <2> QED
    BY <1>5, <2>1, <2>3, PartialIs
<1>8. TypeOK'
  BY <1>1, <1>3, <1>4, <1>7 DEF OverlayInv, TypeOK
<1>9. Rooted' /\ ValidViews(views, focused, main)'
  BY <1>1, <1>5 DEF OverlayInv, Rooted, Closed, ValidViews
<1>10. Refers'
  BY <1>1, <1>3, <1>4, <1>6 DEF OverlayInv, Refers
<1> QED
  BY <1>8, <1>9, <1>10 DEF OverlayInv

\* Every step keeps the invariant.
LEMMA NextOverlay == OverlayInv /\ [Next]_vars => OverlayInv'
<1> SUFFICES ASSUME OverlayInv, [Next]_vars PROVE OverlayInv'
  OBVIOUS
<1>1. CASE UNCHANGED vars
  BY <1>1 DEF vars, OverlayInv, TypeOK, Rooted, Closed, Refers, ValidViews
<1>2. CASE Next
  BY <1>2, AddGroupStep, RemoveGroupStep, AssignStep, UnassignStep, FocusStep, EditorViewStep,
     ReselectStep DEF Next
<1> QED
  BY <1>1, <1>2

\* The invariant holds after any commands.
THEOREM OverlayInvariance == Spec => []OverlayInv
BY InitOverlay, NextOverlay, PTL DEF Spec

\* The overlay and the table of views keep their types.
THEOREM OverlayTypeCorrect == Spec => []TypeOK
<1>1. OverlayInv => TypeOK
  BY DEF OverlayInv
<1> QED
  BY <1>1, OverlayInvariance, PTL

\* No group, no reference, no view and no file name that a command saves keeps
\* the registry from loading.
THEOREM OverlayLoadsHolds == Spec => []OverlayLoads
<1>1. OverlayInv => OverlayLoads
  BY RootedIsOneTree DEF OverlayInv, Refers, OverlayLoads
<1> QED
  BY <1>1, OverlayInvariance, PTL

\* What a view is focused on changes by a focus command on it, or because the
\* group or the pointer is gone.
THEOREM FocusKeptHolds == Spec => FocusKept
<1>1. ASSUME OverlayInv, Next, NEW f \in DOMAIN focused \cap DOMAIN focused', focused'[f] # focused[f]
      PROVE  \/ \E label \in Labels : Focus(label, f)
             \/ /\ focused'[f] = Nil
                /\ focused[f] \in (DOMAIN parent \ DOMAIN parent') \cup (selected \ selected')
             \/ /\ focused[f] \in (Legacy \cap selected) \ selected'
                /\ focused'[f] \in selected'
  <2>1. ASSUME NEW label \in Labels, NEW h \in Files, Focus(label, h)
        PROVE  f = h
    BY <1>1, <2>1 DEF Focus, With
  <2>2. ASSUME NEW h \in Files, EditorViewAt(h) PROVE FALSE
    BY <1>1, <2>2 DEF EditorViewAt, Without
  <2>3. ASSUME NEW g \in Groups, RemoveGroup(g)
        PROVE  focused'[f] = Nil /\ focused[f] \in DOMAIN parent \ DOMAIN parent'
    BY <1>1, <2>3 DEF RemoveGroup, Emptied, Known, Without
  <2>4. ASSUME NEW new \in SUBSET Pointers, NEW m \in Remaps(new), Reselect(new, m)
        PROVE  \/ focused'[f] = Nil /\ focused[f] \in selected \ selected'
               \/ /\ focused[f] \in (Legacy \cap selected) \ selected'
                  /\ focused'[f] \in selected'
    <3>1. /\ selected' = new /\ focused'[f] = Retargeted(m)[f]
          /\ focused[f] \in selected \cup DOMAIN parent \cup {Nil}
      BY <1>1, <2>4 DEF Reselect, OverlayInv, Refers
    <3>2. focused[f] \in Pointers /\ focused'[f] = m[focused[f]]
      BY <1>1, <3>1 DEF Retargeted
    <3>3. focused[f] \in Referred
      BY <3>2 DEF Referred
    <3>4. focused[f] \in selected \ selected'
      BY <1>1, <2>4, RetargetedIs DEF Reselect
    <3>5. m[focused[f]] \in new \cup {Nil}
      BY <3>3 DEF Remaps
    <3>6. focused[f] \in Legacy \/ m[focused[f]] = Nil
      BY <3>1, <3>3, <3>4 DEF Remaps
    <3> QED
      BY <3>1, <3>2, <3>4, <3>5, <3>6
  <2>5. ASSUME \/ \E g \in Groups, up \in Groups : AddGroup(g, up)
               \/ \E p \in Pointers, g \in Groups, label \in Labels \cup {Nil} : Assign(p, g, label)
               \/ \E p \in Pointers : Unassign(p)
        PROVE  FALSE
    BY <1>1, <2>5 DEF AddGroup, Assign, Unassign
  <2> QED
    BY <1>1, <2>1, <2>2, <2>3, <2>4, <2>5 DEF Next
<1>2. OverlayInv /\ [Next]_vars =>
        [\A f \in DOMAIN focused \cap DOMAIN focused' :
          focused'[f] # focused[f] =>
              \/ \E label \in Labels : Focus(label, f)
              \/ /\ focused'[f] = Nil
                 /\ focused[f] \in (DOMAIN parent \ DOMAIN parent') \cup (selected \ selected')
              \/ /\ focused[f] \in (Legacy \cap selected) \ selected'
                 /\ focused'[f] \in selected']_vars
  BY <1>1
<1> QED
  BY <1>2, OverlayInvariance, PTL DEF Spec, FocusKept

-----------------------------------------------------------------------------
(***************************************************************************)
(* What is rendered.                                                       *)
(***************************************************************************)
\* The groups are known ones, and have known parents.
LEMMA ParentIs ==
  ASSUME TypeOK, Rooted
  PROVE  /\ DOMAIN parent \subseteq Groups /\ Nil \notin Groups
         /\ \A g \in DOMAIN parent : g # Root => parent[g] \in DOMAIN parent
         /\ \A g \in DOMAIN parent : Children(g) \subseteq DOMAIN parent \ {Root}
<1>1. DOMAIN parent \subseteq Groups
  BY PartialIs DEF TypeOK
<1> QED
  BY <1>1, OrganizationAssumption DEF Rooted, Closed, Children

\* A group is among its ancestors, which are closed under parents ...
LEMMA AboveClosed ==
  ASSUME TypeOK, NEW g \in Groups
  PROVE  g \in Above(g) /\ Closed(Above(g)) /\ Above(g) \in SUBSET (Groups \cup {Nil})
<1>1. \A h \in DOMAIN parent : parent[h] \in Groups \cup {Nil}
  BY PartialIs DEF TypeOK
<1> QED
  BY <1>1 DEF Above, Closed

\* ... and the fewest that are.
LEMMA AboveLeast ==
  ASSUME NEW g, NEW S \in SUBSET (Groups \cup {Nil}), g \in S, Closed(S)
  PROVE  Above(g) \subseteq S
BY DEF Above

\* The ancestors of an ancestor are ancestors.
LEMMA AboveTransitive ==
  ASSUME TypeOK, NEW g \in Groups, NEW h \in Above(g)
  PROVE  Above(h) \subseteq Above(g)
BY AboveClosed, AboveLeast

\* One goes up by way of the parent ...
LEMMA AboveParent ==
  ASSUME TypeOK, Rooted, NEW g \in DOMAIN parent, g # Root
  PROVE  Above(g) = {g} \cup Above(parent[g])
<1>1. g \in Groups /\ parent[g] \in Groups /\ parent[g] \in DOMAIN parent
  BY ParentIs
<1>2. parent[g] \in Above(g)
  BY <1>1, AboveClosed DEF Closed
<1>3. Closed({g} \cup Above(parent[g]))
  BY <1>1, AboveClosed DEF Closed
<1>4. Above(g) \subseteq {g} \cup Above(parent[g])
  BY <1>1, <1>3, AboveClosed, AboveLeast
<1> QED
  BY <1>1, <1>2, <1>4, AboveClosed, AboveTransitive

\* ... and arrives by way of a child.
LEMMA AboveChild ==
  ASSUME TypeOK, Rooted, NEW x \in DOMAIN parent, NEW g \in DOMAIN parent
  PROVE  g \in Above(x) <=> g = x \/ \E h \in Children(g) : h \in Above(x)
<1>1. x \in Groups /\ g \in Groups /\ Children(g) \subseteq DOMAIN parent \ {Root}
  BY ParentIs
<1>2. ASSUME NEW h \in Children(g), h \in Above(x) PROVE g \in Above(x)
  BY <1>1, <1>2, AboveClosed DEF Closed, Children
<1>3. ASSUME g \in Above(x), g # x, \A h \in Children(g) : h \notin Above(x) PROVE FALSE
  <2>1. Closed(Above(x) \ {g})
    BY <1>1, <1>3, AboveClosed DEF Closed, Children
  <2>2. x \in Above(x) \ {g} /\ Above(x) \ {g} \in SUBSET (Groups \cup {Nil})
    BY <1>1, <1>3, AboveClosed
  <2>3. Above(x) \subseteq Above(x) \ {g}
    BY <2>1, <2>2, AboveLeast
  <2> QED
    BY <1>3, <2>3
<1> QED
  BY <1>1, <1>2, <1>3, AboveClosed

\* No child is among the ancestors of its parent.
LEMMA NoCycle ==
  ASSUME TypeOK, Rooted, Grounded
  PROVE  \A g \in DOMAIN parent : \A h \in Children(g) : h \notin Above(g)
<1> DEFINE S == {g \in DOMAIN parent : \A h \in Children(g) : h \notin Above(g)}
<1>1. ASSUME NEW g \in DOMAIN parent, Children(g) \subseteq S PROVE g \in S
  <2> SUFFICES ASSUME NEW h \in Children(g), h \in Above(g) PROVE FALSE
    OBVIOUS
  <2>1. h \in DOMAIN parent /\ h \in S /\ g \in Groups /\ h \in Groups
    BY <1>1, ParentIs
  <2>2. CASE h = g
    BY <2>1, <2>2
  <2>3. CASE h # g
    <3>1. PICK k \in Children(h) : k \in Above(g)
      BY <2>1, <2>3, AboveChild
    <3>2. g \in Above(h)
      BY <2>1, AboveChild, AboveClosed
    <3>3. k \in Above(h)
      BY <2>1, <3>1, <3>2, AboveTransitive
    <3> QED
      BY <2>1, <3>3
  <2> QED
    BY <2>2, <2>3
<1> HIDE DEF S
<1>2. S \in SUBSET DOMAIN parent
  BY DEF S
<1>3. S = DOMAIN parent
  BY <1>1, <1>2 DEF Grounded
<1> QED
  BY <1>3 DEF S

\* The ancestors of a group are a chain.
LEMMA AboveChain ==
  ASSUME TypeOK, Rooted, NEW x \in DOMAIN parent, NEW a \in Above(x), NEW b \in Above(x)
  PROVE  a \in Above(b) \/ b \in Above(a)
<1>1. Above(x) \subseteq DOMAIN parent /\ x \in Groups /\ DOMAIN parent \subseteq Groups
  BY RootedIsOneTree, ParentIs DEF OneTree
<1> DEFINE T == {y \in Above(x) : a \in Above(y)} \cup Above(a)
<1>2. a \in Groups /\ T \in SUBSET (Groups \cup {Nil})
  BY <1>1, AboveClosed
<1>3. ASSUME NEW y \in DOMAIN parent, y # Root, y \in T PROVE parent[y] \in T
  <2>1. CASE y \in Above(a)
    BY <1>2, <1>3, <2>1, AboveClosed DEF Closed
  <2>2. CASE y \notin Above(a)
    <3>1. y \in Above(x) /\ a \in Above(y) /\ y # a
      BY <1>2, <1>3, <2>2, AboveClosed
    <3>2. parent[y] \in Above(x)
      BY <1>1, <1>3, <3>1, AboveClosed DEF Closed
    <3>3. a \in Above(parent[y])
      BY <1>3, <3>1, AboveParent
    <3> QED
      BY <3>2, <3>3
  <2> QED
    BY <2>1, <2>2
<1>4. Closed(T)
  <2> HIDE DEF T
  <2> QED
    BY <1>3 DEF Closed
<1>5. x \in T
  BY <1>1, AboveClosed
<1>6. Above(x) \subseteq T
  <2> HIDE DEF T
  <2> QED
    BY <1>2, <1>4, <1>5, AboveLeast
<1> QED
  BY <1>6

\* One arrives by way of one child.
LEMMA OneChild ==
  ASSUME TypeOK, Rooted, Grounded, NEW x \in DOMAIN parent, NEW g \in DOMAIN parent,
         NEW h \in Children(g), NEW k \in Children(g), h \in Above(x), k \in Above(x)
  PROVE  h = k
<1>1. ASSUME NEW a \in Children(g), NEW b \in Children(g), a \in Above(b), a # b PROVE FALSE
  <2>1. b \in DOMAIN parent /\ b # Root /\ parent[b] = g
    BY ParentIs DEF Children
  <2>2. a \in Above(g)
    BY <1>1, <2>1, AboveParent
  <2> QED
    BY <2>2, NoCycle
<1> QED
  BY <1>1, AboveChain

-----------------------------------------------------------------------------
\* What lies in a group or in a group below it.
Below(g) == {p \in DOMAIN placement : g \in Above(placement[p])}

\* It is what lies in the group and what lies below each of its children.
LEMMA BelowParts ==
  ASSUME OverlayInv, Grounded, NEW g \in DOMAIN parent
  PROVE  /\ Below(g) = PlacedIn(g) \cup UNION {Below(h) : h \in Children(g)}
         /\ \A h \in Children(g) : PlacedIn(g) \cap Below(h) = {}
         /\ \A h, k \in Children(g) : h # k => Below(h) \cap Below(k) = {}
<1>1. TypeOK /\ Rooted /\ \A p \in DOMAIN placement : placement[p] \in DOMAIN parent
  BY DEF OverlayInv, Refers
<1>2. \A p \in DOMAIN placement :
         p \in Below(g) <=> p \in PlacedIn(g) \/ \E h \in Children(g) : p \in Below(h)
  BY <1>1, AboveChild DEF Below, PlacedIn
<1>3. Below(g) = PlacedIn(g) \cup UNION {Below(h) : h \in Children(g)}
  BY <1>2 DEF Below, PlacedIn
<1>4. \A h \in Children(g) : PlacedIn(g) \cap Below(h) = {}
  BY <1>1, NoCycle DEF Below, PlacedIn
<1>5. \A h, k \in Children(g) : h # k => Below(h) \cap Below(k) = {}
  BY <1>1, OneChild DEF Below
<1> QED
  BY <1>3, <1>4, <1>5

-----------------------------------------------------------------------------
\* What collect makes of a group, given what it makes of the others.
Collected(g, below) ==
    LET children == SetToSeq(Children(g))
    IN  SetToSeq(PlacedIn(g)) \o FlattenSeq([i \in DOMAIN children |-> below[children[i]]])

\* c is what collect computes for the groups of P and all below them.
Solution(P, c) ==
    /\ P \subseteq DOMAIN parent /\ \A g \in P : Children(g) \subseteq P
    /\ c = [g \in P |-> Collected(g, c)]

\* Only what it makes of the children counts.
LEMMA CollectedDepends ==
  ASSUME NEW g, IsFiniteSet(Children(g)), NEW c, NEW d, \A h \in Children(g) : c[h] = d[h]
  PROVE  Collected(g, c) = Collected(g, d)
<1> DEFINE children == SetToSeq(Children(g))
<1>1. \A i \in DOMAIN children : children[i] \in Children(g)
  BY SetToSeqLists DEF Lists, ToSet
<1>2. [i \in DOMAIN children |-> c[children[i]]] = [i \in DOMAIN children |-> d[children[i]]]
  <2> HIDE DEF children
  <2> QED
    BY <1>1
<1> QED
  BY <1>2 DEF Collected

\* The children of a group are finitely many.
LEMMA ChildrenFinite ==
  ASSUME TreeInv, NEW g
  PROVE  IsFiniteSet(Children(g))
BY FS_Subset DEF TreeInv, Children

\* Two solutions agree where both are defined.
LEMMA SolutionUnique ==
  ASSUME TreeInv, NEW P, NEW c, Solution(P, c), NEW Q, NEW d, Solution(Q, d)
  PROVE  \A x \in P \cap Q : c[x] = d[x]
<1> DEFINE S == {x \in DOMAIN parent : x \in P \cap Q => c[x] = d[x]}
<1>1. ASSUME NEW g \in DOMAIN parent, Children(g) \subseteq S PROVE g \in S
  <2> SUFFICES ASSUME g \in P \cap Q PROVE c[g] = d[g]
    OBVIOUS
  <2>1. c[g] = Collected(g, c) /\ d[g] = Collected(g, d)
    BY DEF Solution
  <2>2. \A h \in Children(g) : c[h] = d[h]
    BY <1>1 DEF Solution
  <2> QED
    BY <2>1, <2>2, ChildrenFinite, CollectedDepends
<1> HIDE DEF S
<1>2. S \in SUBSET DOMAIN parent
  BY DEF S
<1>3. S = DOMAIN parent
  BY <1>1, <1>2 DEF TreeInv, Grounded
<1> QED
  BY <1>3 DEF S, Solution

\* There is one for all groups: the recursion of collect ends.
LEMMA SolutionExists ==
  ASSUME TreeInv
  PROVE  \E c : Solution(DOMAIN parent, c)
<1> DEFINE S == {x \in DOMAIN parent : \E P, c : x \in P /\ Solution(P, c)}
           value(x) == CHOOSE v : \E P, c : x \in P /\ Solution(P, c) /\ v = c[x]
           full == [x \in S |-> value(x)]
<1>1. ASSUME NEW P, NEW c, Solution(P, c), NEW x \in P
      PROVE  x \in S /\ full[x] = c[x]
  <2>1. x \in S
    BY <1>1 DEF Solution
  <2>2. \E Q, d : x \in Q /\ Solution(Q, d) /\ value(x) = d[x]
    BY <1>1
  <2>3. value(x) = c[x]
    <3> HIDE DEF value
    <3> QED
      BY <1>1, <2>2, SolutionUnique
  <2> QED
    BY <2>1, <2>3
<1>2. S \subseteq DOMAIN parent /\ full = [x \in S |-> full[x]]
  OBVIOUS
<1>3. \A x \in S : \E P, c : x \in P /\ Solution(P, c)
  OBVIOUS
<1> HIDE DEF S, full
<1>4. ASSUME NEW x \in S
      PROVE  Children(x) \subseteq S /\ full[x] = Collected(x, full)
  <2>1. PICK P, c : x \in P /\ Solution(P, c)
    BY <1>3
  <2>2. Children(x) \subseteq P /\ c[x] = Collected(x, c)
    BY <2>1 DEF Solution
  <2>3. \A h \in Children(x) : h \in S /\ full[h] = c[h]
    BY <1>1, <2>1, <2>2
  <2>4. Collected(x, c) = Collected(x, full)
    BY <2>3, ChildrenFinite, CollectedDepends
  <2> QED
    BY <1>1, <2>1, <2>2, <2>3, <2>4
<1>5. Solution(S, full)
  BY <1>2, <1>4 DEF Solution
<1>6. ASSUME NEW g \in DOMAIN parent, Children(g) \subseteq S PROVE g \in S
  <2> SUFFICES ASSUME g \notin S PROVE FALSE
    OBVIOUS
  <2> DEFINE Q == S \cup {g}
             d == [x \in Q |-> IF x = g THEN Collected(g, full) ELSE full[x]]
  <2>1. ASSUME NEW x \in Q PROVE Children(x) \subseteq S
    BY <1>4, <1>6
  <2>2. \A h \in S : d[h] = full[h]
    OBVIOUS
  <2>3. ASSUME NEW x \in Q PROVE d[x] = Collected(x, d)
    <3>1. Collected(x, d) = Collected(x, full)
      <4> HIDE DEF d
      <4> QED
        BY <2>1, <2>2, ChildrenFinite, CollectedDepends
    <3>2. d[x] = Collected(x, full)
      BY <1>4
    <3> QED
      BY <3>1, <3>2
  <2>4. d = [x \in Q |-> d[x]]
    OBVIOUS
  <2>5. Solution(Q, d)
    <3> HIDE DEF d
    <3> QED
      BY <1>2, <2>1, <2>3, <2>4 DEF Solution
  <2> QED
    BY <1>1, <2>5
<1>7. S = DOMAIN parent
  BY <1>2, <1>6 DEF TreeInv, Grounded
<1> QED
  BY <1>5, <1>7

\* Collect is this solution.
LEMMA CollectIs ==
  ASSUME TreeInv
  PROVE  \A g \in DOMAIN parent :
            \E c : /\ \A h \in DOMAIN parent : c[h] = Collect(h)
                  /\ Collect(g) = Collected(g, c)
<1> DEFINE collect == CHOOSE c : c = [g \in DOMAIN parent |-> Collected(g, c)]
<1>1. \E c : c = [g \in DOMAIN parent |-> Collected(g, c)]
  BY SolutionExists DEF Solution
<1>2. collect = [g \in DOMAIN parent |-> Collected(g, collect)]
  BY <1>1
<1>3. \A g : Collect(g) = collect[g]
  BY DEF Collect, Collected
<1> HIDE DEF collect
<1> QED
  BY <1>2, <1>3

\* A group is collected to a list of what lies in it and below it.
LEMMA CollectLists ==
  ASSUME OverlayInv, TreeInv
  PROVE  \A g \in DOMAIN parent : Lists(Collect(g), Below(g))
<1> DEFINE S == {g \in DOMAIN parent : Lists(Collect(g), Below(g))}
<1>1. ASSUME NEW g \in DOMAIN parent, Children(g) \subseteq S PROVE g \in S
  <2> DEFINE children == SetToSeq(Children(g))
             n == Len(children)
  <2>1. PICK c : /\ \A h \in DOMAIN parent : c[h] = Collect(h)
                 /\ Collect(g) = Collected(g, c)
    BY CollectIs
  <2>2. Lists(children, Children(g))
    BY ChildrenFinite, SetToSeqLists
  <2> DEFINE seqs == [i \in DOMAIN children |-> c[children[i]]]
             sets == [i \in DOMAIN children |-> Below(children[i])]
  <2>3. Collect(g) = SetToSeq(PlacedIn(g)) \o FlattenSeq(seqs)
    BY <2>1 DEF Collected
  <2> HIDE DEF children
  <2>4. n \in Nat /\ DOMAIN children = 1..n /\ \A i \in 1..n : children[i] \in Children(g)
    BY <2>2 DEF Lists
  <2>5. \A i \in 1..n : Lists(seqs[i], sets[i])
    BY <1>1, <2>1, <2>4
  <2>6. \A i, j \in 1..n : i # j => sets[i] \cap sets[j] = {}
    <3>1. \A i, j \in 1..n : i # j => children[i] # children[j]
      BY <2>2, <2>4 DEF Lists, IsInjective
    <3> QED
      BY <2>4, <3>1, BelowParts DEF TreeInv
  <2>7. DOMAIN seqs = 1..n /\ seqs = [i \in 1..n |-> seqs[i]]
    BY <2>4
  <2>8. UNION {sets[i] : i \in 1..n} = UNION {Below(h) : h \in Children(g)}
    <3>1. \A h \in Children(g) : \E i \in 1..n : children[i] = h
      BY <2>2, <2>4 DEF Lists, ToSet
    <3>2. \A i \in 1..n : sets[i] = Below(children[i])
      BY <2>4
    <3> HIDE DEF sets
    <3> QED
      BY <2>4, <3>1, <3>2
  <2> HIDE DEF seqs, sets
  <2>9. Lists(FlattenSeq(seqs), UNION {Below(h) : h \in Children(g)})
    <3> HIDE DEF n
    <3>1. Lists(FlattenSeq(seqs), UNION {sets[i] : i \in 1..n})
      BY <2>4, <2>5, <2>6, <2>7, ListsFlatten
    <3> QED
      BY <2>8, <3>1
  <2>10. Lists(SetToSeq(PlacedIn(g)), PlacedIn(g))
    <3>1. PlacedIn(g) \in SUBSET Pointers
      BY PartialIs DEF OverlayInv, TypeOK, PlacedIn
    <3> QED
      BY <3>1, OrganizationAssumption, FS_Subset, SetToSeqLists
  <2>11. PlacedIn(g) \cap UNION {Below(h) : h \in Children(g)} = {}
    BY BelowParts DEF TreeInv
  <2>12. Lists(Collect(g), PlacedIn(g) \cup UNION {Below(h) : h \in Children(g)})
    BY <2>3, <2>9, <2>10, <2>11, ListsConcat
  <2> QED
    BY <2>12, BelowParts DEF TreeInv
<1> HIDE DEF S
<1>2. S \in SUBSET DOMAIN parent
  BY DEF S
<1>3. S = DOMAIN parent
  BY <1>1, <1>2 DEF TreeInv, Grounded
<1> QED
  BY <1>3 DEF S

-----------------------------------------------------------------------------
\* A tree can be grown from its leaves whatever groups come and go.
LEMMA InitTree == Init => TreeInv
<1> SUFFICES ASSUME Init PROVE TreeInv
  OBVIOUS
<1>1. DOMAIN parent = {Root} /\ parent[Root] = Nil /\ Root # Nil
  BY OrganizationAssumption DEF Init
<1>2. IsFiniteSet(DOMAIN parent)
  BY <1>1, FS_Singleton
<1>3. Children(Root) = {}
  BY <1>1 DEF Children
<1>4. Grounded
  BY <1>1, <1>3 DEF Grounded
<1> QED
  BY <1>2, <1>4 DEF TreeInv

\* The other commands do not touch the groups.
LEMMA NextTree == OverlayInv /\ TreeInv /\ [Next]_vars => TreeInv'
<1> SUFFICES ASSUME OverlayInv, TreeInv, [Next]_vars PROVE TreeInv'
  OBVIOUS
<1>1. ASSUME NEW g \in Groups, NEW up \in Groups, AddGroup(g, up) PROVE TreeInv'
  <2>1. /\ g \notin DOMAIN parent /\ parent' = With(parent, g, up)
    BY <1>1 DEF AddGroup
  <2>2. /\ DOMAIN parent' = DOMAIN parent \cup {g}
        /\ \A h \in DOMAIN parent : parent'[h] = parent[h]
        /\ \A h \in DOMAIN parent : parent[h] # g
    <3>1. \A h \in DOMAIN parent : parent[h] # g
      BY <2>1, ParentIs, OrganizationAssumption DEF OverlayInv, Rooted
    <3> QED
      BY <2>1, <3>1 DEF With
  <2>3. IsFiniteSet(DOMAIN parent')
    BY <2>2, FS_AddElement DEF TreeInv
  <2>4. ASSUME NEW S \in SUBSET DOMAIN parent',
               \A h \in DOMAIN parent' : Children(h)' \subseteq S => h \in S
        PROVE  S = DOMAIN parent'
    <3>1. up # g
      BY <1>1 DEF AddGroup, Known
    <3>2. Children(g)' = {}
      BY <2>1, <2>2, <3>1 DEF Children, With
    <3>3. g \in S
      BY <2>2, <2>4, <3>2
    <3>4. ASSUME NEW h \in DOMAIN parent, Children(h) \subseteq S \ {g} PROVE h \in S \ {g}
      <4>1. Children(h)' \subseteq Children(h) \cup {g}
        BY <2>2 DEF Children
      <4> QED
        BY <2>1, <2>2, <2>4, <3>3, <3>4, <4>1
    <3>5. S \ {g} = DOMAIN parent
      <4>1. S \ {g} \in SUBSET DOMAIN parent
        BY <2>2
      <4> QED
        BY <3>4, <4>1 DEF TreeInv, Grounded
    <3> QED
      BY <2>2, <3>3, <3>5
  <2> QED
    BY <2>3, <2>4 DEF TreeInv, Grounded
<1>2. ASSUME NEW g \in Groups, RemoveGroup(g) PROVE TreeInv'
  <2>1. parent' = Without(parent, g) /\ g \in DOMAIN parent
    BY <1>2 DEF RemoveGroup, Known
  <2>2. /\ DOMAIN parent' = DOMAIN parent \ {g}
        /\ \A h \in DOMAIN parent' : parent'[h] = parent[h]
    BY <2>1 DEF Without
  <2>3. IsFiniteSet(DOMAIN parent')
    BY <2>2, FS_RemoveElement DEF TreeInv
  <2>4. ASSUME NEW S \in SUBSET DOMAIN parent',
               \A h \in DOMAIN parent' : Children(h)' \subseteq S => h \in S
        PROVE  S = DOMAIN parent'
    <3>1. ASSUME NEW h \in DOMAIN parent, Children(h) \subseteq S \cup {g}
          PROVE  h \in S \cup {g}
      <4>1. h # g => Children(h)' \subseteq S
        BY <2>2, <3>1 DEF Children
      <4> QED
        BY <2>2, <2>4, <4>1
    <3>2. S \cup {g} = DOMAIN parent
      <4>1. S \cup {g} \in SUBSET DOMAIN parent
        BY <2>1, <2>2
      <4> QED
        BY <3>1, <4>1 DEF TreeInv, Grounded
    <3> QED
      BY <2>2, <3>2
  <2> QED
    BY <2>3, <2>4 DEF TreeInv, Grounded
<1>3. ASSUME UNCHANGED parent PROVE TreeInv'
  BY <1>3 DEF TreeInv, Grounded, Children
<1>4. CASE UNCHANGED vars
  BY <1>3, <1>4 DEF vars
<1>5. CASE Next
  <2>1. CASE \E g \in Groups, up \in Groups : AddGroup(g, up)
    BY <1>1, <2>1
  <2>2. CASE \E g \in Groups : RemoveGroup(g)
    BY <1>2, <2>2
  <2>3. CASE \/ \E p \in Pointers, g \in Groups, label \in Labels \cup {Nil} : Assign(p, g, label)
             \/ \E p \in Pointers : Unassign(p)
             \/ \E label \in Labels, f \in Files : Focus(label, f)
             \/ \E f \in Files : EditorViewAt(f)
             \/ \E new \in SUBSET Pointers : \E m \in Remaps(new) : Reselect(new, m)
    BY <1>3, <2>3 DEF Assign, Unassign, Focus, EditorViewAt, Reselect
  <2> QED
    BY <1>5, <2>1, <2>2, <2>3 DEF Next
<1> QED
  BY <1>4, <1>5

\* Both invariants hold after any commands.
THEOREM TreeInvariance == Spec => [](OverlayInv /\ TreeInv)
<1>1. Init => OverlayInv /\ TreeInv
  BY InitOverlay, InitTree
<1>2. (OverlayInv /\ TreeInv) /\ [Next]_vars => (OverlayInv /\ TreeInv)'
  BY NextOverlay, NextTree
<1> QED
  BY <1>1, <1>2, PTL DEF Spec

\* The tree and its Unorganized section show every selected pointer once.
THEOREM TreeShowsSelectionHolds == Spec => []TreeShowsSelection
<1>1. ASSUME OverlayInv, TreeInv PROVE TreeShowsSelection
  <2>1. /\ TypeOK /\ Rooted /\ Root \in DOMAIN parent /\ selected \subseteq Pointers
        /\ DOMAIN placement \subseteq selected
        /\ \A p \in DOMAIN placement : placement[p] \in DOMAIN parent
    BY <1>1 DEF OverlayInv, TypeOK, Rooted, Refers
  <2>2. Below(Root) = DOMAIN placement
    BY <2>1, RootedIsOneTree DEF OneTree, Below
  <2>3. Lists(Collect(Root), DOMAIN placement)
    BY <1>1, <2>1, <2>2, CollectLists
  <2>4. Lists(SetToSeq(selected \ DOMAIN placement), selected \ DOMAIN placement)
    <3>1. selected \ DOMAIN placement \in SUBSET Pointers
      BY <2>1
    <3> QED
      BY <3>1, OrganizationAssumption, FS_Subset, SetToSeqLists
  <2>5. DOMAIN placement \cup (selected \ DOMAIN placement) = selected
    BY <2>1
  <2>6. DOMAIN placement \cap (selected \ DOMAIN placement) = {}
    OBVIOUS
  <2>7. Lists(TreeLines, selected)
    BY <2>3, <2>4, <2>5, <2>6, ListsConcat DEF TreeLines
  <2> QED
    BY <2>7, ListsLength DEF Lists, TreeShowsSelection
<1> QED
  BY <1>1, TreeInvariance, PTL

\* A view is about the pointers it should show, each once.
LEMMA PointersOfDue ==
  ASSUME OverlayInv, TreeInv, NEW f \in views
  PROVE  Lists(PointersOf(f), Due(f)) /\ Due(f) \subseteq Pointers
<1>1. /\ TypeOK /\ Rooted /\ selected \subseteq Pointers /\ DOMAIN placement \subseteq selected
      /\ \A p \in DOMAIN placement : placement[p] \in DOMAIN parent
      /\ \A h \in DOMAIN focused : focused[h] \in selected \cup DOMAIN parent \cup {Nil}
  BY DEF OverlayInv, TypeOK, Refers
<1>2. /\ DOMAIN parent \subseteq Groups /\ Nil \notin Groups /\ Groups \cap Pointers = {}
      /\ Nil \notin Pointers
  BY <1>1, ParentIs, OrganizationAssumption
<1>3. \A p \in DOMAIN placement : Above(placement[p]) \subseteq DOMAIN parent
  BY <1>1, RootedIsOneTree DEF OneTree
<1>4. CASE f \notin DOMAIN focused
  <2>1. Lists(SetToSeq(selected), selected)
    BY <1>1, OrganizationAssumption, FS_Subset, SetToSeqLists
  <2>2. Due(f) = selected
    BY <1>4 DEF Due
  <2> QED
    BY <1>1, <1>4, <2>1, <2>2 DEF PointersOf
<1>5. CASE f \in DOMAIN focused /\ focused[f] \in DOMAIN parent
  <2>1. PointersOf(f) = Collect(focused[f])
    BY <1>2, <1>5 DEF PointersOf
  <2>2. Lists(Collect(focused[f]), Below(focused[f]))
    BY <1>5, CollectLists
  <2>3. Due(f) = Below(focused[f])
    BY <1>1, <1>2, <1>5 DEF Due, Below
  <2> QED
    BY <1>1, <2>1, <2>2, <2>3 DEF Due
<1>6. CASE f \in DOMAIN focused /\ focused[f] \in selected
  <2>1. PointersOf(f) = <<focused[f]>>
    BY <1>1, <1>2, <1>6 DEF PointersOf
  <2>2. Lists(<<focused[f]>>, {focused[f]})
    BY ListsSmall
  <2>3. Due(f) = {focused[f]}
    BY <1>1, <1>2, <1>3, <1>6 DEF Due
  <2> QED
    BY <1>1, <2>1, <2>2, <2>3 DEF Due
<1>7. CASE f \in DOMAIN focused /\ focused[f] = Nil
  <2>1. PointersOf(f) = <<>>
    BY <1>2, <1>7 DEF PointersOf
  <2>2. Due(f) = {}
    BY <1>1, <1>2, <1>3, <1>7 DEF Due
  <2> QED
    BY <2>1, <2>2, ListsSmall
<1> QED
  BY <1>1, <1>4, <1>5, <1>6, <1>7

\* What add does to a list of folders.
LEMMA AddLists ==
  ASSUME NEW S, NEW fs, Lists(fs, S), fs # <<>>, NEW d
  PROVE  /\ Lists(Add(fs, d), S \cup ({d} \ {Nil}))
         /\ Add(fs, d) # <<>> /\ Add(fs, d)[1] = fs[1]
<1>0. fs \in Seq(S) /\ ToSet(fs) = S
  BY DEF Lists
<1>1. CASE d = Nil \/ d \in S
  <2>1. S \cup ({d} \ {Nil}) = S
    BY <1>1
  <2>2. Add(fs, d) = fs
    BY <1>0, <1>1 DEF Add
  <2> QED
    BY <2>1, <2>2
<1>2. CASE ~(d = Nil \/ d \in S)
  <2>1. Add(fs, d) = Append(fs, d)
    BY <1>0, <1>2 DEF Add
  <2>2. fs \in Seq(S \cup {d})
    BY <1>0
  <2>3. Append(fs, d) = fs \o <<d>>
    BY <2>2
  <2>4. Lists(fs \o <<d>>, S \cup {d})
    <3>1. Lists(<<d>>, {d})
      BY ListsSmall
    <3>2. S \cap {d} = {}
      BY <1>2
    <3> QED
      BY <3>1, <3>2, ListsConcat
  <2>5. S \cup ({d} \ {Nil}) = S \cup {d}
    BY <1>2
  <2>6. Append(fs, d) # <<>> /\ Append(fs, d)[1] = fs[1]
    BY <2>2
  <2> QED
    BY <2>1, <2>3, <2>4, <2>5, <2>6
<1> QED
  BY <1>1, <1>2

\* editor_folders goes along the candidates: the manager's directory first, then
\* each that is one, once.
LEMMA FoldersLists ==
  ASSUME NEW n \in Nat, NEW dirs \in [1..n -> Dirs \cup {Nil}], Len(dirs) = n
  PROVE  /\ Lists(Folders(dirs), {Manager} \cup (ToSet(dirs) \ {Nil}))
         /\ Folders(dirs)[1] = Manager
<1> DEFINE Solves(g) == g = [k \in 0..n |-> IF k = 0 THEN <<Manager>> ELSE Add(g[k - 1], dirs[k])]
           after == CHOOSE g : Solves(g)
           step == [i \in 1..n |-> [l \in Seq(Dirs) |-> Add(l, dirs[i])]]
           Shown(k) == {Manager} \cup ({dirs[i] : i \in 1..k} \ {Nil})
<1>0. Manager \in Dirs /\ Nil \notin Dirs
  BY OrganizationAssumption
<1>1. step \in [1..n -> [Seq(Dirs) -> Seq(Dirs)]]
  <2>1. ASSUME NEW i \in 1..n, NEW l \in Seq(Dirs) PROVE Add(l, dirs[i]) \in Seq(Dirs)
    <3>1. CASE dirs[i] = Nil
      BY <3>1 DEF Add
    <3>2. CASE dirs[i] \in Dirs
      <4>1. Append(l, dirs[i]) \in Seq(Dirs)
        BY <3>2
      <4> QED
        BY <4>1 DEF Add
    <3> QED
      BY <3>1, <3>2
  <2> QED
    BY <2>1
<1>2. PICK f \in [0..n -> Seq(Dirs)] : Along(f, n, <<Manager>>, step)
  <2> HIDE DEF step
  <2>1. <<Manager>> \in Seq(Dirs)
    BY <1>0
  <2> QED
    BY <1>1, <2>1, AlongExists
<1>3. ASSUME NEW k \in 0..n
      PROVE  f[k] = IF k = 0 THEN <<Manager>> ELSE Add(f[k - 1], dirs[k])
  <2>1. CASE k = 0
    BY <1>2, <2>1 DEF Along
  <2>2. CASE k # 0
    <3>1. k \in 1..n /\ k - 1 \in 0..n /\ f[k - 1] \in Seq(Dirs)
      BY <2>2, <1>2
    <3>2. f[k] = step[k][f[k - 1]]
      <4> HIDE DEF step
      <4> QED
        BY <3>1, <1>2 DEF Along
    <3> QED
      BY <2>2, <3>1, <3>2
  <2> QED
    BY <2>1, <2>2
<1>4. Solves(after)
  <2>1. Solves(f)
    BY <1>2, <1>3
  <2> HIDE DEF Solves
  <2> QED
    BY <2>1
<1>5. Folders(dirs) = after[n]
  BY DEF Folders
<1> HIDE DEF after
<1> DEFINE S == {k \in Nat : k <= n => /\ Lists(after[k], Shown(k))
                                       /\ after[k] # <<>> /\ after[k][1] = Manager}
<1>6. 0 \in S
  <2>1. after[0] = <<Manager>>
    BY <1>4
  <2>2. Shown(0) = {Manager}
    OBVIOUS
  <2>3. Lists(<<Manager>>, {Manager})
    BY ListsSmall
  <2>4. <<Manager>> # <<>> /\ <<Manager>>[1] = Manager
    OBVIOUS
  <2> HIDE DEF Shown
  <2> QED
    BY <2>1, <2>2, <2>3, <2>4
<1>7. ASSUME NEW k \in Nat, k \in S
      PROVE  k + 1 \in S
  <2> SUFFICES ASSUME k + 1 <= n
               PROVE  /\ Lists(after[k + 1], Shown(k + 1))
                      /\ after[k + 1] # <<>> /\ after[k + 1][1] = Manager
    OBVIOUS
  <2>1. Lists(after[k], Shown(k)) /\ after[k] # <<>> /\ after[k][1] = Manager
    BY <1>7
  <2>2. after[k + 1] = Add(after[k], dirs[k + 1])
    <3>1. k + 1 \in 0..n /\ k + 1 # 0 /\ (k + 1) - 1 = k
      OBVIOUS
    <3> QED
      BY <3>1, <1>4
  <2>3. Shown(k + 1) = Shown(k) \cup ({dirs[k + 1]} \ {Nil})
    <3>1. 1..(k + 1) = 1..k \cup {k + 1}
      OBVIOUS
    <3> QED
      BY <3>1
  <2> HIDE DEF Shown
  <2>4. /\ Lists(Add(after[k], dirs[k + 1]), Shown(k) \cup ({dirs[k + 1]} \ {Nil}))
        /\ Add(after[k], dirs[k + 1]) # <<>> /\ Add(after[k], dirs[k + 1])[1] = after[k][1]
    BY <2>1, AddLists
  <2> QED
    BY <2>1, <2>2, <2>3, <2>4
<1> HIDE DEF S
<1>8. Nat \subseteq S
  BY <1>6, <1>7, SetInduction
<1>9. Lists(after[n], Shown(n)) /\ after[n][1] = Manager
  BY <1>8 DEF S
<1>10. Shown(n) = {Manager} \cup (ToSet(dirs) \ {Nil})
  BY DEF ToSet
<1> QED
  BY <1>5, <1>9, <1>10

\* The directories that a view is asked to open.
LEMMA CandidatesAre ==
  ASSUME OverlayInv, TreeInv, NEW f \in views, NEW host \in Hosts, NEW native \in SUBSET Native
  PROVE  /\ \E n \in Nat : /\ Candidates(f, host, native) \in [1..n -> Dirs \cup {Nil}]
                           /\ Len(Candidates(f, host, native)) = n
         /\ ToSet(Candidates(f, host, native)) \ {Nil} =
                {host[p] : p \in {q \in Due(f) : host[q] \in SelectedFor(q)}}
                \cup (IF f \in DOMAIN focused THEN {} ELSE native)
<1> DEFINE ps == PointersOf(f)
           D == Dirs \cup {Nil}
           s == [i \in DOMAIN ps |-> IF Verified(ps[i], host) THEN host[ps[i]] ELSE Nil]
           t == IF f \in DOMAIN focused THEN <<>> ELSE SetToSeq(native)
           T == IF f \in DOMAIN focused THEN {} ELSE native
<1>1. /\ ps \in Seq(Due(f)) /\ ToSet(ps) = Due(f) /\ Due(f) \subseteq Pointers
      /\ Len(ps) \in Nat /\ DOMAIN ps = 1..Len(ps) /\ \A i \in DOMAIN ps : ps[i] \in Pointers
  BY PointersOfDue DEF Lists
<1>2. \A p \in Pointers : host[p] \in D
  BY DEF Hosts
<1>3. s \in Seq(D) /\ DOMAIN s = DOMAIN ps
  <2>1. \A i \in 1..Len(ps) : s[i] \in D
    BY <1>1, <1>2
  <2> QED
    BY <1>1, <2>1
<1>4. t \in Seq(D) /\ ToSet(t) = T
  <2>1. Lists(SetToSeq(native), native)
    BY OrganizationAssumption, FS_Subset, SetToSeqLists
  <2>2. native \subseteq D
    BY OrganizationAssumption
  <2>3. SetToSeq(native) \in Seq(native) /\ ToSet(SetToSeq(native)) = native
    BY <2>1 DEF Lists
  <2>4. SetToSeq(native) \in Seq(D)
    <3> DEFINE l == SetToSeq(native)
    <3>1. l \in Seq(native)
      BY <2>3
    <3> HIDE DEF l, D
    <3>2. l \in Seq(D)
      BY <2>2, <3>1
    <3> QED
      BY <3>2 DEF l
  <2>5. CASE f \in DOMAIN focused
    <3>1. t = <<>> /\ T = {}
      BY <2>5
    <3>2. ToSet(<<>>) = {}
      BY DEF ToSet
    <3>3. <<>> \in Seq(D)
      OBVIOUS
    <3> HIDE DEF t, T, D
    <3> QED
      BY <3>1, <3>2, <3>3
  <2>6. CASE f \notin DOMAIN focused
    <3>1. t = SetToSeq(native) /\ T = native
      BY <2>6
    <3> HIDE DEF t, T, D
    <3> QED
      BY <2>3, <2>4, <3>1
  <2> QED
    BY <2>5, <2>6
<1>5. Candidates(f, host, native) = s \o t
  BY DEF Candidates
<1>6. ToSet(s) \ {Nil} = {host[p] : p \in {q \in Due(f) : host[q] \in SelectedFor(q)}}
  <2>1. ASSUME NEW p \in Pointers
        PROVE  Verified(p, host) <=> host[p] \in SelectedFor(p)
    BY <1>2, <2>1, OrganizationAssumption DEF Verified, SelectedFor
  <2>2. \A p \in Pointers : Verified(p, host) => host[p] # Nil
    BY DEF Verified
  <2>3. \A i \in DOMAIN ps : s[i] = IF Verified(ps[i], host) THEN host[ps[i]] ELSE Nil
    OBVIOUS
  <2>4. ToSet(s) = {s[i] : i \in DOMAIN ps} /\ ToSet(ps) = {ps[i] : i \in DOMAIN ps}
    BY <1>3 DEF ToSet
  <2> HIDE DEF s, ps
  <2> QED
    BY <1>1, <2>1, <2>2, <2>3, <2>4
<1> HIDE DEF s, t, T, ps, D
<1>7. /\ s \o t \in Seq(D) /\ Len(s \o t) = Len(s) + Len(t)
      /\ Len(s) \in Nat /\ Len(t) \in Nat
  BY <1>3, <1>4
<1>8. s \o t \in [1..(Len(s) + Len(t)) -> D]
  <2>1. ASSUME NEW q, q \in Seq(D)
        PROVE  q \in [1..Len(q) -> D]
    BY <2>1
  <2>2. s \o t \in [1..Len(s \o t) -> D]
    BY <1>7, <2>1
  <2> QED
    BY <1>7, <2>2
<1>9. ToSet(s \o t) = ToSet(s) \cup ToSet(t)
  <2>1. /\ DOMAIN s = 1..Len(s) /\ DOMAIN t = 1..Len(t)
        /\ DOMAIN (s \o t) = 1..(Len(s) + Len(t))
        /\ \A i \in 1..Len(s) : (s \o t)[i] = s[i]
        /\ \A i \in 1..Len(t) : (s \o t)[Len(s) + i] = t[i]
    BY <1>3, <1>4
  <2>2. ASSUME NEW i \in 1..(Len(s) + Len(t))
        PROVE  i \in 1..Len(s) \/ \E j \in 1..Len(t) : i = Len(s) + j
    <3>1. i \in 1..Len(s) \/ (i - Len(s) \in 1..Len(t) /\ i = Len(s) + (i - Len(s)))
      BY <1>7
    <3> QED
      BY <3>1
  <2>3. \A i \in 1..Len(t) : Len(s) + i \in 1..(Len(s) + Len(t))
    BY <1>7
  <2>4. 1..Len(s) \subseteq 1..(Len(s) + Len(t))
    BY <1>7
  <2>5. ASSUME NEW x \in ToSet(s \o t)
        PROVE  x \in ToSet(s) \cup ToSet(t)
    <3>1. PICK i \in 1..(Len(s) + Len(t)) : x = (s \o t)[i]
      BY <2>1, <2>5 DEF ToSet
    <3>2. CASE i \in 1..Len(s)
      BY <2>1, <3>1, <3>2 DEF ToSet
    <3>3. CASE \E j \in 1..Len(t) : i = Len(s) + j
      <4>1. PICK j \in 1..Len(t) : i = Len(s) + j
        BY <3>3
      <4>2. x = t[j]
        BY <2>1, <3>1, <4>1
      <4> QED
        BY <2>1, <4>2 DEF ToSet
    <3> QED
      BY <2>2, <3>2, <3>3
  <2>6. ASSUME NEW x \in ToSet(s)
        PROVE  x \in ToSet(s \o t)
    <3>1. PICK i \in 1..Len(s) : x = s[i]
      BY <2>1, <2>6 DEF ToSet
    <3>2. i \in 1..(Len(s) + Len(t)) /\ (s \o t)[i] = x
      BY <2>1, <2>4, <3>1
    <3> QED
      BY <2>1, <3>2 DEF ToSet
  <2>7. ASSUME NEW x \in ToSet(t)
        PROVE  x \in ToSet(s \o t)
    <3>1. PICK i \in 1..Len(t) : x = t[i]
      BY <2>1, <2>7 DEF ToSet
    <3>2. Len(s) + i \in 1..(Len(s) + Len(t)) /\ (s \o t)[Len(s) + i] = x
      BY <2>1, <2>3, <3>1
    <3> QED
      BY <2>1, <3>2 DEF ToSet
  <2> QED
    BY <2>5, <2>6, <2>7
<1>10. Nil \notin T
  BY OrganizationAssumption DEF T
<1>11. ToSet(Candidates(f, host, native)) \ {Nil} =
           {host[p] : p \in {q \in Due(f) : host[q] \in SelectedFor(q)}} \cup T
  BY <1>4, <1>5, <1>6, <1>9, <1>10
<1>12. /\ Candidates(f, host, native) \in [1..(Len(s) + Len(t)) -> D]
       /\ Len(Candidates(f, host, native)) = Len(s) + Len(t)
       /\ Len(s) + Len(t) \in Nat
  BY <1>5, <1>7, <1>8
<1> QED
  BY <1>11, <1>12 DEF T, D

\* A view opens what its pointers were selected for and that is still there,
\* after the manager's own directory and each once.
THEOREM FocusedViewsExactHolds == Spec => []FocusedViewsExact
<1>1. ASSUME OverlayInv, TreeInv, NEW f \in views, NEW host \in Hosts, NEW native \in SUBSET Native
      PROVE  LET fs == Folders(Candidates(f, host, native))
             IN  /\ fs[1] = Manager
                 /\ \A i, j \in DOMAIN fs : fs[i] = fs[j] => i = j
                 /\ ToSet(fs) = {Manager}
                      \cup {host[p] : p \in {q \in Due(f) : host[q] \in SelectedFor(q)}}
                      \cup (IF f \in DOMAIN focused THEN {} ELSE native)
  <2> DEFINE dirs == Candidates(f, host, native)
  <2>1. PICK n \in Nat : dirs \in [1..n -> Dirs \cup {Nil}] /\ Len(dirs) = n
    BY <1>1, CandidatesAre
  <2>2. ToSet(dirs) \ {Nil} = {host[p] : p \in {q \in Due(f) : host[q] \in SelectedFor(q)}}
                              \cup (IF f \in DOMAIN focused THEN {} ELSE native)
    BY <1>1, CandidatesAre
  <2> HIDE DEF dirs
  <2>3. Lists(Folders(dirs), {Manager} \cup (ToSet(dirs) \ {Nil})) /\ Folders(dirs)[1] = Manager
    BY <2>1, FoldersLists
  <2>4. ToSet(Folders(dirs)) = {Manager} \cup (ToSet(dirs) \ {Nil})
    BY <2>3 DEF Lists
  <2>5. \A i, j \in DOMAIN Folders(dirs) : Folders(dirs)[i] = Folders(dirs)[j] => i = j
    BY <2>3 DEF Lists, IsInjective
  <2> QED
    BY <2>2, <2>3, <2>4, <2>5 DEF dirs
<1>2. OverlayInv /\ TreeInv => FocusedViewsExact
  BY <1>1 DEF FocusedViewsExact
<1> QED
  BY <1>2, TreeInvariance, PTL
=============================================================================
