---------------------------- MODULE EnvBatchProofs ----------------------------
(***************************************************************************)
(* The envs of a batch and their stage machines, for any number of envs    *)
(* and any control graphs: trees of any shape, with any timeouts, counts   *)
(* and conditions.                                                         *)
(***************************************************************************)
EXTENDS EnvBatch, SequenceTheorems, WellFoundedInduction, TLAPS

-----------------------------------------------------------------------------
(***************************************************************************)
(* Induction up to a number.                                               *)
(***************************************************************************)
LEMMA LeastOf == ASSUME NEW S \in SUBSET Nat, S # {} PROVE \E m \in S : \A n \in S : m <= n
<1> DEFINE R == OpToRel(<, Nat)
<1>1. \E x \in S : \A y \in S : ~ (<<y, x>> \in R)
  <2>1. IsWellFoundedOn(R, Nat)
    BY NatLessThanWellFounded
  <2> HIDE DEF R
  <2> QED BY <2>1, WFMin
<1>2. PICK x \in S : \A y \in S : ~ (<<y, x>> \in R)
  BY <1>1
<1>3. ASSUME NEW y \in S PROVE x <= y
  <2>1. x \in Nat /\ y \in Nat /\ ~ (<<y, x>> \in R)
    BY <1>2
  <2> QED BY <2>1 DEF OpToRel
<1> QED BY <1>3

\* What holds at 0 and of each number up to N with the one before it, holds to N.
LEMMA Climbs ==
    ASSUME NEW N \in Nat, NEW T, 0 \in T, \A n \in 1 .. N : n - 1 \in T => n \in T
    PROVE  0 .. N \subseteq T
<1> SUFFICES ASSUME (0 .. N) \ T # {} PROVE FALSE
  OBVIOUS
<1>1. PICK m \in (0 .. N) \ T : \A n \in (0 .. N) \ T : m <= n
  <2> DEFINE D == (0 .. N) \ T
  <2>1. D \in SUBSET Nat /\ D # {}
    OBVIOUS
  <2> HIDE DEF D
  <2>2. \E m \in D : \A n \in D : m <= n
    BY <2>1, LeastOf
  <2> QED BY <2>2 DEF D
<1>2. m # 0 /\ m \in 1 .. N
  BY <1>1
<1>3. m - 1 \in 0 .. N /\ m - 1 < m
  BY <1>2
<1>4. m - 1 \in T
  BY <1>1, <1>2, <1>3
<1> QED BY <1>1, <1>2, <1>4

-----------------------------------------------------------------------------
(***************************************************************************)
(* Control graphs, and what is left of one above a stack of frames.        *)
(***************************************************************************)
Children(g, n) == g[n].children

IsTree(g) ==
    /\ Root \in DOMAIN g /\ NoNode \notin DOMAIN g
    /\ \A n \in DOMAIN g :
         /\ g[n].kind \in {"Sequence", "Branch", "Repeat", "SubTask"}
         /\ Children(g, n) \in Seq(DOMAIN g)
         /\ g[n].kind = "Branch" => Len(Children(g, n)) = 2
         /\ g[n].kind = "Repeat" => Len(Children(g, n)) = 1
         /\ g[n].count \in Nat
         /\ g[n].kind = "SubTask" => g[n].timeout \in Nat \ {0}

LEMMA GraphsAreTrees == ASSUME NEW g \in Graphs PROVE IsTree(g) /\ MaxDescent \in Nat \ {0}
<1>1. \A n \in DOMAIN g : Children(g, n) \in Seq(DOMAIN g \ {Root})
  BY ControlAssumption DEF Children
<1>2. \A n \in DOMAIN g : Children(g, n) \in Seq(DOMAIN g)
  <2> SUFFICES ASSUME NEW n \in DOMAIN g PROVE Children(g, n) \in Seq(DOMAIN g)
    OBVIOUS
  <2>1. Children(g, n) \in Seq(DOMAIN g \ {Root})
    BY <1>1
  <2> QED BY <2>1
<1> QED BY <1>2, ControlAssumption DEF IsTree, Children

IsStage(g, n) == g[n].kind = "SubTask"

\* A frame of a Sequence stands at one of its children, that of a counted loop at one
\* of its rounds.
Frames(g) == [node : DOMAIN g, index : Nat]
Fits(g, f) ==
    /\ g[f.node].kind = "Sequence" => f.index + 1 \in 1 .. Len(Children(g, f.node))
    /\ g[f.node].kind = "Repeat" /\ g[f.node].count > 0 => f.index < g[f.node].count

Items(g) == [node : DOMAIN g, rounds : Nat]
Plans(g) == Seq(Items(g))

LEMMA RestTyped ==
    ASSUME NEW g, IsTree(g), NEW f \in Frames(g)
    PROVE  RestOf(g, f) \in Plans(g)
<1> DEFINE n == f.node
           children == Children(g, n)
<1>1. n \in DOMAIN g /\ f.index \in Nat /\ children \in Seq(DOMAIN g) /\ Len(children) \in Nat
  BY DEF Frames, IsTree
<1>2. g[n].kind \in {"Sequence", "Branch", "Repeat", "SubTask"}
  BY <1>1 DEF IsTree
<1>3. CASE g[n].kind = "SubTask"
  <2>1. RestOf(g, f) = <<Todo(n, 0)>> /\ Todo(n, 0) \in Items(g)
    BY <1>1, <1>3 DEF RestOf, Todo, Items
  <2> QED BY <2>1 DEF Plans
<1>4. CASE g[n].kind = "Repeat"
  <2>1. RestOf(g, f) = <<Todo(n, f.index + 1)>> /\ Todo(n, f.index + 1) \in Items(g)
    BY <1>1, <1>4 DEF RestOf, Todo, Items
  <2> QED BY <2>1 DEF Plans
<1>5. CASE g[n].kind = "Branch"
  BY <1>5 DEF RestOf, Plans
<1>6. CASE g[n].kind = "Sequence"
  <2> DEFINE m == Len(children) - f.index - 1
  <2>1. RestOf(g, f) = [i \in 1 .. m |-> Todo(children[f.index + 1 + i], 0)]
    BY <1>6 DEF RestOf, Children
  <2>2. m \in Int /\ \A i \in 1 .. m : f.index + 1 + i \in 1 .. Len(children)
    BY <1>1
  <2>3. \A i \in 1 .. m : children[f.index + 1 + i] \in DOMAIN g
    BY <1>1, <2>2
  <2>4. \A i \in 1 .. m : Todo(children[f.index + 1 + i], 0) \in Items(g)
    BY <2>3 DEF Todo, Items
  <2> HIDE DEF m, children
  <2>5. \E k \in Nat : 1 .. m = 1 .. k
    <3>1. CASE m >= 0
      BY <2>2, <3>1
    <3>2. CASE m < 0
      <4>1. 1 .. m = 1 .. 0
        BY <2>2, <3>2
      <4> QED BY <4>1
    <3> QED BY <2>2, <3>1, <3>2
  <2>6. PICK k \in Nat : 1 .. m = 1 .. k
    BY <2>5
  <2>7. RestOf(g, f) \in [1 .. k -> Items(g)]
    BY <2>1, <2>4, <2>6
  <2> QED BY <2>7 DEF Plans
<1> QED BY <1>2, <1>3, <1>4, <1>5, <1>6

\* The plan of a stack, level by level from the root.
IsRest(g, stack, r) ==
    /\ DOMAIN r = 0 .. Len(stack) /\ r[0] = << >>
    /\ \A k \in 1 .. Len(stack) : r[k] = RestOf(g, stack[k]) \o r[k - 1]
    /\ \A k \in 0 .. Len(stack) : r[k] \in Plans(g)
    /\ RestOfStack(g, stack) = r[Len(stack)]

LEMMA RestLevels ==
    ASSUME NEW g, IsTree(g), NEW stack \in Seq(Frames(g))
    PROVE  \E r : IsRest(g, stack, r)
<1> DEFINE N == Len(stack)
           F(h) == [k \in 0 .. N |-> IF k = 0 THEN << >> ELSE RestOf(g, stack[k]) \o h[k - 1]]
           Loop(h, m) == h[0] = << >> /\ \A k \in 1 .. m : h[k] = RestOf(g, stack[k]) \o h[k - 1]
           T == {m \in 0 .. N : \E h \in [0 .. m -> Plans(g)] : Loop(h, m)}
<1>1. N \in Nat /\ \A k \in 1 .. N : RestOf(g, stack[k]) \in Plans(g)
  BY RestTyped
<1>2. RestOfStack(g, stack) = (CHOOSE h : h = F(h))[N]
  BY DEF RestOfStack
<1> HIDE DEF N
<1>3. 0 \in T
  <2> DEFINE z == [k \in 0 .. 0 |-> << >>]
  <2>1. z \in [0 .. 0 -> Plans(g)] /\ Loop(z, 0)
    BY DEF Plans
  <2>2. 0 \in 0 .. N
    BY <1>1
  <2> HIDE DEF z, Loop
  <2> QED BY <2>1, <2>2
<1>4. ASSUME NEW m \in 1 .. N, m - 1 \in T PROVE m \in T
  <2>1. PICK h \in [0 .. m - 1 -> Plans(g)] : Loop(h, m - 1)
    BY <1>4
  <2> DEFINE x == RestOf(g, stack[m]) \o h[m - 1]
             l == [k \in 0 .. m |-> IF k = m THEN x ELSE h[k]]
  <2>2. m - 1 \in 0 .. m - 1 /\ m \in Nat
    BY <1>1
  <2>3. RestOf(g, stack[m]) \in Plans(g) /\ h[m - 1] \in Plans(g)
    BY <1>1, <2>2
  <2>4. x \in Plans(g)
    BY <2>3 DEF Plans
  <2> HIDE DEF x
  <2>5. l \in [0 .. m -> Plans(g)] /\ l[m] = x /\ \A k \in 0 .. m - 1 : l[k] = h[k]
    BY <2>2, <2>4
  <2> HIDE DEF l
  <2>6. \A k \in 1 .. m : l[k] = RestOf(g, stack[k]) \o l[k - 1]
    <3> SUFFICES ASSUME NEW k \in 1 .. m PROVE l[k] = RestOf(g, stack[k]) \o l[k - 1]
      OBVIOUS
    <3>1. CASE k = m
      BY <2>2, <2>5, <3>1 DEF x
    <3>2. CASE k # m
      BY <2>1, <2>2, <2>5, <3>2
    <3> QED BY <3>1, <3>2
  <2>7. Loop(l, m)
    BY <2>1, <2>2, <2>5, <2>6
  <2>8. m \in 0 .. N
    BY <1>1
  <2> HIDE DEF Loop
  <2> QED BY <2>5, <2>7, <2>8
<1>5. N \in T
  <2> HIDE DEF T
  <2>1. 0 .. N \subseteq T
    BY <1>1, <1>3, <1>4, Climbs
  <2> QED BY <1>1, <2>1
<1>6. PICK h \in [0 .. N -> Plans(g)] : Loop(h, N)
  BY <1>5
<1>7. h = F(h)
  <2>1. \A k \in 0 .. N : h[k] = IF k = 0 THEN << >> ELSE RestOf(g, stack[k]) \o h[k - 1]
    BY <1>1, <1>6
  <2> QED BY <1>6, <2>1
<1> DEFINE r == CHOOSE f : f = F(f)
<1>8. r = F(r)
  BY <1>7
<1> HIDE DEF r
<1>9. /\ DOMAIN r = 0 .. N /\ r[0] = << >>
      /\ \A k \in 1 .. N : r[k] = RestOf(g, stack[k]) \o r[k - 1]
  <2>1. DOMAIN r = 0 .. N /\ \A k \in 0 .. N : r[k] = IF k = 0 THEN << >> ELSE RestOf(g, stack[k]) \o r[k - 1]
    BY <1>8
  <2>2. 0 \in 0 .. N /\ \A k \in 1 .. N : k \in 0 .. N /\ k # 0
    BY <1>1
  <2> QED BY <2>1, <2>2
<1>10. \A k \in 0 .. N : r[k] \in Plans(g)
  <2> DEFINE U == {k \in 0 .. N : r[k] \in Plans(g)}
  <2>1. 0 \in U
    <3>1. 0 \in 0 .. N
      BY <1>1
    <3>2. << >> \in Plans(g)
      BY DEF Plans
    <3> QED BY <1>9, <3>1, <3>2
  <2>2. ASSUME NEW k \in 1 .. N, k - 1 \in U PROVE k \in U
    <3>1. RestOf(g, stack[k]) \in Plans(g) /\ r[k - 1] \in Plans(g)
      BY <1>1, <2>2
    <3>2. RestOf(g, stack[k]) \o r[k - 1] \in Plans(g)
      BY <3>1 DEF Plans
    <3>3. k \in 0 .. N
      BY <1>1
    <3> QED BY <1>9, <3>2, <3>3
  <2> HIDE DEF U
  <2>3. 0 .. N \subseteq U
    BY <1>1, <2>1, <2>2, Climbs
  <2> QED BY <2>3 DEF U
<1>11. RestOfStack(g, stack) = r[N]
  BY <1>2 DEF r
<1>12. IsRest(g, stack, r)
  BY <1>9, <1>10, <1>11 DEF IsRest, N
<1> QED BY <1>12

LEMMA RestOfStackIs ==
    ASSUME NEW g, IsTree(g), NEW stack \in Seq(Frames(g))
    PROVE  /\ RestOfStack(g, stack) \in Plans(g)
           /\ stack = << >> => RestOfStack(g, stack) = << >>
           /\ \A f \in Frames(g) :
                RestOfStack(g, Append(stack, f)) = RestOf(g, f) \o RestOfStack(g, stack)
<1>1. PICK r : IsRest(g, stack, r)
  BY RestLevels
<1>2. Len(stack) \in Nat
  OBVIOUS
<1>3. RestOfStack(g, stack) \in Plans(g)
  BY <1>1, <1>2 DEF IsRest
<1>4. stack = << >> => RestOfStack(g, stack) = << >>
  BY <1>1 DEF IsRest
<1>5. ASSUME NEW f \in Frames(g)
      PROVE  RestOfStack(g, Append(stack, f)) = RestOf(g, f) \o RestOfStack(g, stack)
  <2> DEFINE grown == Append(stack, f)
             N == Len(stack)
  <2>1. /\ grown \in Seq(Frames(g)) /\ Len(grown) = N + 1 /\ N \in Nat /\ grown[N + 1] = f
        /\ \A k \in 1 .. N : grown[k] = stack[k]
    OBVIOUS
  <2> HIDE DEF grown
  <2>2. PICK q : IsRest(g, grown, q)
    BY <2>1, RestLevels
  <2> DEFINE T == {k \in 0 .. N : q[k] = r[k]}
  <2>3. 0 \in T
    BY <1>1, <2>1, <2>2 DEF IsRest
  <2>4. ASSUME NEW k \in 1 .. N, k - 1 \in T PROVE k \in T
    <3>1. k \in 1 .. N + 1 /\ k \in 0 .. N /\ q[k - 1] = r[k - 1]
      BY <2>1, <2>4
    <3>2. q[k] = RestOf(g, grown[k]) \o q[k - 1]
      BY <2>1, <2>2, <3>1 DEF IsRest
    <3>3. r[k] = RestOf(g, stack[k]) \o r[k - 1]
      BY <1>1, <3>1 DEF IsRest
    <3> QED BY <2>1, <3>1, <3>2, <3>3
  <2>5. q[N] = r[N]
    <3> HIDE DEF T, N
    <3>1. 0 .. N \subseteq T
      BY <2>1, <2>3, <2>4, Climbs
    <3> QED BY <2>1, <3>1 DEF T
  <2>6. N + 1 \in 1 .. Len(grown) /\ (N + 1) - 1 = N
    BY <2>1
  <2>7. q[N + 1] = RestOf(g, grown[N + 1]) \o q[(N + 1) - 1]
    BY <2>2, <2>6 DEF IsRest
  <2>8. RestOfStack(g, grown) = q[N + 1] /\ RestOfStack(g, stack) = r[N]
    BY <1>1, <2>1, <2>2 DEF IsRest
  <2>9. RestOfStack(g, grown) = RestOf(g, f) \o RestOfStack(g, stack)
    BY <2>1, <2>5, <2>6, <2>7, <2>8
  <2> QED BY <2>9 DEF grown
<1> QED BY <1>3, <1>4, <1>5

\* A stack that is not empty is its top on what is below.
LEMMA StackParts ==
    ASSUME NEW S, NEW stack \in Seq(S), stack # << >>
    PROVE  /\ Below(stack) \in Seq(S) /\ Top(stack) \in S
           /\ stack = Append(Below(stack), Top(stack))
           /\ Len(Below(stack)) = Len(stack) - 1
           /\ \A i \in 1 .. Len(stack) - 1 : Below(stack)[i] = stack[i]
<1>1. Len(stack) \in Nat \ {0}
  OBVIOUS
<1>2. Top(stack) \in S
  BY <1>1 DEF Top
<1>3. /\ Below(stack) \in Seq(S) /\ Len(Below(stack)) = Len(stack) - 1
      /\ \A i \in 1 .. Len(stack) - 1 : Below(stack)[i] = stack[i]
  <2> DEFINE n == Len(stack) - 1
             rest == [i \in 1 .. n |-> stack[i]]
  <2>1. n \in Nat /\ 1 .. n \subseteq 1 .. Len(stack)
    BY <1>1
  <2>2. Below(stack) = rest
    BY <1>1 DEF Below
  <2>3. rest \in [1 .. n -> S]
    BY <2>1
  <2>4. rest \in Seq(S) /\ Len(rest) = n
    BY <2>1, <2>3
  <2>5. \A i \in 1 .. n : rest[i] = stack[i]
    OBVIOUS
  <2> QED BY <2>2, <2>4, <2>5
<1> DEFINE whole == Append(Below(stack), Top(stack))
<1>4. /\ Len(whole) = Len(stack) /\ whole \in Seq(S)
      /\ \A i \in 1 .. Len(stack) : whole[i] = stack[i]
  BY <1>1, <1>2, <1>3 DEF Top
<1>5. stack = whole
  BY <1>4
<1> QED BY <1>2, <1>3, <1>5

-----------------------------------------------------------------------------
(***************************************************************************)
(* Unfolding a plan.                                                       *)
(***************************************************************************)
\* One iteration of a walk leaves the plan as it is or unfolds its first item.
UnfoldsOrNot(p, q, holds) == q = p \/ (~Plan!Settled(p) /\ q = Plan!Unfold(p, holds))

LEMMA Prefixed ==
    ASSUME NEW S, NEW x \in S, NEW p \in Seq(S)
    PROVE  /\ <<x>> \o p \in Seq(S) /\ <<x>> \o p # << >>
           /\ Head(<<x>> \o p) = x /\ Tail(<<x>> \o p) = p
           /\ Len(<<x>> \o p) = Len(p) + 1
           /\ (<<x>> \o p)[1] = x
           /\ \A i \in 1 .. Len(p) : (<<x>> \o p)[i + 1] = p[i]
<1> DEFINE whole == <<x>> \o p
<1>1. /\ whole \in Seq(S) /\ Len(whole) = Len(p) + 1 /\ Len(p) \in Nat
      /\ whole[1] = x /\ \A i \in 1 .. Len(p) : whole[i + 1] = p[i]
  OBVIOUS
<1> HIDE DEF whole
<1>2. whole # << >>
  BY <1>1
<1>3. Head(whole) = x
  BY <1>1
<1>4. /\ Tail(whole) \in Seq(S) /\ Len(Tail(whole)) = Len(p)
      /\ \A i \in 1 .. Len(p) : Tail(whole)[i] = whole[i + 1]
  BY <1>1, <1>2, HeadTailProperties
<1>5. Tail(whole) = p
  BY <1>1, <1>4, SeqEqual
<1> QED BY <1>1, <1>2, <1>3, <1>5 DEF whole

\* The children of a Sequence from number k on.
From(children, k) == [i \in 1 .. Len(children) - k |-> Todo(children[k + i], 0)]

LEMMA FromTyped ==
    ASSUME NEW g, NEW children \in Seq(DOMAIN g), NEW k \in 0 .. Len(children)
    PROVE  /\ From(children, k) \in Plans(g)
           /\ Len(From(children, k)) = Len(children) - k
           /\ \A i \in 1 .. Len(children) - k : From(children, k)[i] = Todo(children[k + i], 0)
<1> DEFINE m == Len(children) - k
<1>1. m \in Nat /\ \A i \in 1 .. m : k + i \in 1 .. Len(children)
  OBVIOUS
<1>2. \A i \in 1 .. m : Todo(children[k + i], 0) \in Items(g)
  BY <1>1 DEF Todo, Items
<1>3. From(children, k) = [i \in 1 .. m |-> Todo(children[k + i], 0)]
  BY DEF From
<1> HIDE DEF m
<1>4. From(children, k) \in [1 .. m -> Items(g)]
  BY <1>2, <1>3
<1>5. From(children, k) \in Plans(g) /\ Len(From(children, k)) = m
  BY <1>1, <1>4 DEF Plans
<1> QED BY <1>3, <1>5 DEF m

LEMMA FromFirst ==
    ASSUME NEW g, NEW children \in Seq(DOMAIN g), NEW k \in 0 .. Len(children) - 1
    PROVE  From(children, k) = <<Todo(children[k + 1], 0)>> \o From(children, k + 1)
<1> DEFINE x == Todo(children[k + 1], 0)
           p == From(children, k + 1)
           q == From(children, k)
           m == Len(children) - k
<1>1. /\ m \in Nat \ {0} /\ k + 1 \in 0 .. Len(children) /\ k \in 0 .. Len(children)
      /\ Len(children) - (k + 1) = m - 1 /\ k \in Nat
  OBVIOUS
<1>2. children[k + 1] \in DOMAIN g
  OBVIOUS
<1>3. x \in Items(g)
  BY <1>2 DEF Todo, Items
<1>4. /\ p \in Plans(g) /\ Len(p) = m - 1
      /\ \A i \in 1 .. m - 1 : p[i] = Todo(children[(k + 1) + i], 0)
  <2> DEFINE next == k + 1
  <2>1. next \in 0 .. Len(children) /\ Len(children) - next = m - 1
    BY <1>1
  <2>2. next = k + 1 /\ p = From(children, next)
    OBVIOUS
  <2> HIDE DEF p, m, next
  <2>3. /\ p \in Plans(g) /\ Len(p) = m - 1
        /\ \A i \in 1 .. m - 1 : p[i] = Todo(children[next + i], 0)
    BY <2>1, <2>2, FromTyped
  <2> QED BY <2>2, <2>3
<1>5. q \in Plans(g) /\ Len(q) = m /\ \A i \in 1 .. m : q[i] = Todo(children[k + i], 0)
  BY <1>1, FromTyped
<1> HIDE DEF p, q, m
<1>6. /\ <<x>> \o p \in Plans(g) /\ Len(<<x>> \o p) = (m - 1) + 1
      /\ (<<x>> \o p)[1] = x
      /\ \A i \in 1 .. m - 1 : (<<x>> \o p)[i + 1] = p[i]
  BY <1>3, <1>4, Prefixed DEF Plans
<1>7. \A i \in 1 .. m : (<<x>> \o p)[i] = q[i]
  <2> SUFFICES ASSUME NEW i \in 1 .. m PROVE (<<x>> \o p)[i] = q[i]
    OBVIOUS
  <2>1. CASE i = 1
    BY <1>5, <1>6, <2>1
  <2>2. CASE i # 1
    <3>1. i - 1 \in 1 .. m - 1 /\ (i - 1) + 1 = i /\ (k + 1) + (i - 1) = k + i
      BY <1>1, <2>2
    <3>2. (<<x>> \o p)[(i - 1) + 1] = p[i - 1]
      BY <1>6, <3>1
    <3>3. p[i - 1] = Todo(children[(k + 1) + (i - 1)], 0)
      BY <1>4, <3>1
    <3>4. q[i] = Todo(children[k + i], 0)
      BY <1>5
    <3> QED BY <3>1, <3>2, <3>3, <3>4
  <2> QED BY <2>1, <2>2
<1>8. Len(<<x>> \o p) = m
  BY <1>1, <1>6
<1>9. q = <<x>> \o p
  <2> DEFINE l == <<x>> \o p
  <2>1. l \in Seq(Items(g)) /\ q \in Seq(Items(g)) /\ Len(l) = Len(q) /\ \A i \in 1 .. Len(l) : l[i] = q[i]
    BY <1>5, <1>6, <1>7, <1>8 DEF Plans
  <2> HIDE DEF l
  <2>2. l = q
    BY <2>1, SeqEqual
  <2> QED BY <2>2 DEF l
<1> QED BY <1>9 DEF p, q

\* What an item is replaced by.
LoopGoesOn(g, n, rounds, holds) ==
    rounds = 0 \/ IF g[n].count > 0 THEN rounds < g[n].count ELSE ~holds[n]

UnfoldsTo(n, rounds, r, holds) ==
    LET p == <<Todo(n, rounds)>> \o r
        children == Children(graph, n)
    IN  /\ p \in Plans(graph)
        /\ Plan!Settled(p) <=> IsStage(graph, n)
        /\ graph[n].kind = "Sequence" => Plan!Unfold(p, holds) = From(children, 0) \o r
        /\ graph[n].kind = "Branch" =>
             Plan!Unfold(p, holds) = <<Todo(children[IF holds[n] THEN 1 ELSE 2], 0)>> \o r
        /\ graph[n].kind = "Repeat" /\ LoopGoesOn(graph, n, rounds, holds) =>
             Plan!Unfold(p, holds) = <<Todo(children[1], 0)>> \o (<<Todo(n, rounds + 1)>> \o r)
        /\ graph[n].kind = "Repeat" /\ ~LoopGoesOn(graph, n, rounds, holds) =>
             Plan!Unfold(p, holds) = r

LEMMA UnfoldIs ==
    ASSUME IsTree(graph), NEW n \in DOMAIN graph, NEW rounds \in Nat,
           NEW r \in Plans(graph), NEW holds
    PROVE  UnfoldsTo(n, rounds, r, holds)
<1> DEFINE x == Todo(n, rounds)
           p == <<x>> \o r
           children == Children(graph, n)
<1>1. x \in Items(graph) /\ x.node = n /\ x.rounds = rounds
  BY DEF Todo, Items
<1>2. children \in Seq(DOMAIN graph)
  BY DEF IsTree
<1> HIDE DEF x
<1>3. p \in Plans(graph) /\ p # << >> /\ Head(p) = x /\ Tail(p) = r
  BY <1>1, Prefixed DEF Plans
<1> HIDE DEF p
<1>4. Plan!Settled(p) <=> IsStage(graph, n)
  BY <1>1, <1>3 DEF Plan!Settled, IsStage
<1>5. \A m, k : Plan!Item(m, k) = Todo(m, k)
  BY DEF Plan!Item, Todo
<1>6. ASSUME graph[n].kind = "Sequence" PROVE Plan!Unfold(p, holds) = From(children, 0) \o r
  <2>1. Plan!Unfold(p, holds) = [i \in DOMAIN children |-> Todo(children[i], 0)] \o r
    BY <1>1, <1>3, <1>5, <1>6 DEF Plan!Unfold, Children
  <2>2. DOMAIN children = 1 .. Len(children) - 0 /\ \A i \in DOMAIN children : children[0 + i] = children[i]
    BY <1>2
  <2>3. [i \in DOMAIN children |-> Todo(children[i], 0)] = From(children, 0)
    BY <2>2 DEF From
  <2> QED BY <2>1, <2>3
<1>7. ASSUME graph[n].kind = "Branch"
      PROVE  Plan!Unfold(p, holds) = <<Todo(children[IF holds[n] THEN 1 ELSE 2], 0)>> \o r
  BY <1>1, <1>3, <1>5, <1>7 DEF Plan!Unfold, Children
<1>8. Plan!Again(x, holds) <=> LoopGoesOn(graph, n, rounds, holds)
  BY <1>1 DEF Plan!Again, LoopGoesOn
<1>9. ASSUME graph[n].kind = "Repeat", LoopGoesOn(graph, n, rounds, holds)
      PROVE  Plan!Unfold(p, holds) = <<Todo(children[1], 0)>> \o (<<Todo(n, rounds + 1)>> \o r)
  <2> DEFINE a == Todo(children[1], 0)
             b == Todo(n, rounds + 1)
  <2>1. Plan!Unfold(p, holds) = <<a, b>> \o r
    BY <1>1, <1>3, <1>5, <1>8, <1>9 DEF Plan!Unfold, Children
  <2>2. Len(children) = 1
    BY <1>9 DEF IsTree
  <2>3. children[1] \in DOMAIN graph
    <3>1. 1 \in 1 .. Len(children)
      BY <2>2
    <3> QED BY <1>2, <3>1
  <2>4. a \in Items(graph) /\ b \in Items(graph)
    BY <2>3 DEF Todo, Items
  <2> HIDE DEF a, b
  <2>5. <<a>> \in Plans(graph) /\ <<b>> \in Plans(graph)
    BY <2>4 DEF Plans
  <2>6. <<a>> \o <<b>> = <<a, b>>
    <3> DEFINE c == <<a>> \o <<b>>
               d == <<a, b>>
    <3>1. c \in Seq(Items(graph)) /\ Len(c) = 2 /\ c[1] = a /\ c[2] = b
      BY <2>4
    <3>2. d \in Seq(Items(graph)) /\ Len(d) = 2 /\ d[1] = a /\ d[2] = b
      BY <2>4
    <3> HIDE DEF c, d
    <3>3. \A i \in 1 .. Len(c) : c[i] = d[i]
      BY <3>1, <3>2
    <3>4. c = d
      BY <3>1, <3>2, <3>3, SeqEqual
    <3> QED BY <3>4 DEF c, d
  <2>7. (<<a>> \o <<b>>) \o r = <<a>> \o (<<b>> \o r)
    BY <2>5, ConcatAssociative DEF Plans
  <2> QED BY <2>1, <2>6, <2>7 DEF a, b
<1>10. ASSUME graph[n].kind = "Repeat", ~LoopGoesOn(graph, n, rounds, holds)
       PROVE  Plan!Unfold(p, holds) = r
  BY <1>1, <1>3, <1>8, <1>10 DEF Plan!Unfold
<1> QED BY <1>3, <1>4, <1>6, <1>7, <1>9, <1>10 DEF p, x, UnfoldsTo

-----------------------------------------------------------------------------
(***************************************************************************)
(* Walks: where one iteration may stand, and what it leaves to do.         *)
(***************************************************************************)
Walks(g) == [stack : Seq(Frames(g)), pending : DOMAIN g \cup {NoNode},
             at : {"walking", "stage", "end"}]

\* No frame of a stack that is walked is a stage; one that has come to a stage has it
\* on top.
Clear(g, stack) == \A k \in 1 .. Len(stack) : Fits(g, stack[k]) /\ ~IsStage(g, stack[k].node)
Standing(g, stack) == stack # << >> /\ Clear(g, Below(stack)) /\ IsStage(g, Top(stack).node)

Between(g, w) == w.at = "walking" /\ Clear(g, w.stack)
Leaving(g, w) == w.at = "walking" /\ w.pending = NoNode /\ Standing(g, w.stack)
Arrived(g, w) == w.at = "stage" /\ Standing(g, w.stack)
Over(g, w) == w.at = "end" /\ w.stack = << >>
OnTheWay(g, w) == w \in Walks(g) /\ (Between(g, w) \/ Arrived(g, w) \/ Over(g, w))

Remaining(g, w) ==
    IF w.at = "walking" /\ w.pending # NoNode
      THEN <<Todo(w.pending, 0)>> \o RestOfStack(g, w.stack)
    ELSE IF w.at = "walking" /\ Standing(g, w.stack) THEN RestOfStack(g, Below(w.stack))
    ELSE RestOfStack(g, w.stack)

LEMMA Pushed ==
    ASSUME NEW g, NEW stack \in Seq(Frames(g)), NEW f \in Frames(g), Clear(g, stack)
    PROVE  /\ Append(stack, f) \in Seq(Frames(g)) /\ Append(stack, f) # << >>
           /\ Fits(g, f) /\ ~IsStage(g, f.node) => Clear(g, Append(stack, f))
           /\ IsStage(g, f.node) => Standing(g, Append(stack, f))
<1> DEFINE grown == Append(stack, f)
           N == Len(stack)
<1>1. /\ N \in Nat /\ grown \in Seq(Frames(g)) /\ grown # << >> /\ Len(grown) = N + 1
      /\ \A i \in 1 .. N : grown[i] = stack[i]
      /\ grown[N + 1] = f
  BY AppendProperties
<1> HIDE DEF grown
<1>2. ASSUME Fits(g, f), ~IsStage(g, f.node) PROVE Clear(g, grown)
  <2> SUFFICES ASSUME NEW k \in 1 .. Len(grown)
               PROVE  Fits(g, grown[k]) /\ ~IsStage(g, grown[k].node)
    BY DEF Clear
  <2>1. CASE k = N + 1
    BY <1>1, <1>2, <2>1
  <2>2. CASE k # N + 1
    <3>1. k \in 1 .. N
      BY <1>1, <2>2
    <3> QED BY <1>1, <3>1 DEF Clear
  <2> QED BY <2>1, <2>2
<1>3. ASSUME IsStage(g, f.node) PROVE Standing(g, grown)
  <2>1. /\ Len(Below(grown)) = N /\ Top(grown) = f
        /\ \A i \in 1 .. N : Below(grown)[i] = grown[i]
    <3>1. /\ Len(Below(grown)) = Len(grown) - 1
          /\ \A i \in 1 .. Len(grown) - 1 : Below(grown)[i] = grown[i]
      BY <1>1, StackParts
    <3>2. Len(grown) - 1 = N
      BY <1>1
    <3> QED BY <1>1, <3>1, <3>2 DEF Top
  <2>2. Clear(g, Below(grown))
    BY <1>1, <2>1 DEF Clear
  <2> QED BY <1>1, <1>3, <2>1, <2>2 DEF Standing
<1> QED BY <1>1, <1>2, <1>3 DEF grown

LEMMA Popped ==
    ASSUME NEW g, NEW stack \in Seq(Frames(g)), stack # << >>, Clear(g, stack)
    PROVE  /\ Below(stack) \in Seq(Frames(g)) /\ Clear(g, Below(stack))
           /\ Top(stack) \in Frames(g) /\ Fits(g, Top(stack)) /\ ~IsStage(g, Top(stack).node)
<1>1. /\ Below(stack) \in Seq(Frames(g)) /\ Top(stack) \in Frames(g)
      /\ Len(Below(stack)) = Len(stack) - 1
      /\ \A i \in 1 .. Len(stack) - 1 : Below(stack)[i] = stack[i]
  BY StackParts
<1>2. Len(stack) \in Nat \ {0}
  BY EmptySeq
<1>3. Clear(g, Below(stack))
  BY <1>1, <1>2 DEF Clear
<1>4. Fits(g, Top(stack)) /\ ~IsStage(g, Top(stack).node)
  BY <1>2 DEF Clear, Top
<1> QED BY <1>1, <1>3, <1>4

LEMMA ClearIsNotStanding ==
    ASSUME NEW g, NEW stack \in Seq(Frames(g)), Clear(g, stack)
    PROVE  ~Standing(g, stack)
BY Popped DEF Standing

\* What a frame leaves to do, by the kind of its node.
LEMMA RestOfIs ==
    ASSUME NEW g, IsTree(g), NEW f \in Frames(g)
    PROVE  /\ IsStage(g, f.node) => RestOf(g, f) = <<Todo(f.node, 0)>>
           /\ g[f.node].kind = "Repeat" => RestOf(g, f) = <<Todo(f.node, f.index + 1)>>
           /\ g[f.node].kind = "Branch" => RestOf(g, f) = << >>
           /\ g[f.node].kind = "Sequence" =>
                RestOf(g, f) = From(Children(g, f.node), f.index + 1)
<1> DEFINE children == Children(g, f.node)
<1>1. f.node \in DOMAIN g /\ f.index \in Nat
  BY DEF Frames
<1>2. children \in Seq(DOMAIN g) /\ Len(children) \in Nat
  BY <1>1 DEF IsTree
<1>3. ASSUME g[f.node].kind = "Sequence" PROVE RestOf(g, f) = From(children, f.index + 1)
  <2>1. RestOf(g, f) = [i \in 1 .. Len(children) - f.index - 1 |-> Todo(children[f.index + 1 + i], 0)]
    BY <1>3 DEF RestOf, Children
  <2> HIDE DEF children
  <2>2. Len(children) - f.index - 1 = Len(children) - (f.index + 1)
    BY <1>1, <1>2
  <2> QED BY <2>1, <2>2 DEF From
<1> QED BY <1>3 DEF RestOf, IsStage

LEMMA DescendKeeps ==
    ASSUME IsTree(graph), NEW w \in Walks(graph), Between(graph, w), w.pending # NoNode,
           ~(graph[w.pending].kind = "Sequence" /\ graph[w.pending].children = << >>),
           NEW holds
    PROVE  LET v == Descend(w, holds)
           IN  /\ OnTheWay(graph, v)
               /\ UnfoldsOrNot(Remaining(graph, w), Remaining(graph, v), holds)
<1> DEFINE n == w.pending
           children == Children(graph, n)
           arm == Arm(n, holds)
           f == Frame(n, arm)
           v == Descend(w, holds)
           r == RestOfStack(graph, w.stack)
<1>1. /\ n \in DOMAIN graph /\ w.stack \in Seq(Frames(graph)) /\ w.at = "walking"
      /\ Clear(graph, w.stack)
  BY DEF Walks, Between
<1>2. arm \in {0, 1} /\ (graph[n].kind # "Branch" => arm = 0)
      /\ (graph[n].kind = "Branch" => arm + 1 = IF holds[n] THEN 1 ELSE 2)
  BY DEF Arm
<1> HIDE DEF arm
<1>3. f \in Frames(graph) /\ f.node = n /\ f.index = arm
  BY <1>1, <1>2 DEF Frame, Frames
<1>4. graph[n].kind \in {"Sequence", "Branch", "Repeat", "SubTask"} /\ children \in Seq(DOMAIN graph)
      /\ graph[n].count \in Nat
  BY <1>1 DEF IsTree
<1>5. Fits(graph, f)
  <2>1. CASE graph[n].kind = "Sequence"
    <3>1. children # << >>
      BY <2>1 DEF Children
    <3>2. Len(children) \in Nat \ {0}
      BY <1>4, <3>1, EmptySeq
    <3> QED BY <1>2, <1>3, <2>1, <3>2 DEF Fits
  <2>2. CASE graph[n].kind # "Sequence"
    BY <1>2, <1>3, <1>4, <2>2 DEF Fits
  <2> QED BY <2>1, <2>2
<1>6. r \in Plans(graph)
  BY <1>1, RestOfStackIs
<1>7. RestOfStack(graph, Append(w.stack, f)) = RestOf(graph, f) \o r
  BY <1>1, <1>3, RestOfStackIs
<1>8. Remaining(graph, w) = <<Todo(n, 0)>> \o r
  BY <1>1 DEF Remaining
<1>9. /\ Append(w.stack, f) \in Seq(Frames(graph))
      /\ ~IsStage(graph, n) => Clear(graph, Append(w.stack, f))
      /\ IsStage(graph, n) => Standing(graph, Append(w.stack, f))
  BY <1>1, <1>3, <1>5, Pushed
<1> HIDE DEF r, f
<1>10. CASE IsStage(graph, n)
  <2>1. v = [stack |-> Append(w.stack, f), pending |-> NoNode, at |-> "stage"]
    BY <1>10 DEF Descend, f, arm, IsStage
  <2>2. OnTheWay(graph, v)
    BY <1>9, <1>10, <2>1 DEF OnTheWay, Walks, Arrived
  <2>3. Remaining(graph, v) = RestOf(graph, f) \o r
    BY <1>7, <2>1 DEF Remaining
  <2>4. RestOf(graph, f) = <<Todo(n, 0)>>
    BY <1>3, <1>10, RestOfIs
  <2> QED BY <1>8, <2>2, <2>3, <2>4 DEF UnfoldsOrNot
<1>11. CASE ~IsStage(graph, n)
  <2> DEFINE c == children[arm + 1]
  <2>1. v = [stack |-> Append(w.stack, f), pending |-> c, at |-> "walking"]
    BY <1>11 DEF Descend, f, arm, IsStage, Children
  <2>2. arm + 1 \in 1 .. Len(children)
    <3>1. CASE graph[n].kind = "Sequence"
      <4>1. children # << >>
        BY <3>1 DEF Children
      <4>2. Len(children) \in Nat \ {0}
        BY <1>4, <4>1, EmptySeq
      <4> QED BY <1>2, <3>1, <4>2
    <3>2. CASE graph[n].kind = "Branch"
      <4>1. Len(children) = 2
        BY <1>1, <3>2 DEF IsTree
      <4> QED BY <1>2, <4>1
    <3>3. CASE graph[n].kind = "Repeat"
      <4>1. Len(children) = 1
        BY <1>1, <3>3 DEF IsTree
      <4> QED BY <1>2, <3>3, <4>1
    <3> QED BY <1>4, <1>11, <3>1, <3>2, <3>3 DEF IsStage
  <2>3. c \in DOMAIN graph
    BY <1>4, <2>2
  <2>4. c # NoNode
    BY <2>3 DEF IsTree
  <2> HIDE DEF c
  <2>5. OnTheWay(graph, v)
    BY <1>9, <1>11, <2>1, <2>3 DEF OnTheWay, Walks, Between
  <2>6. Remaining(graph, v) = <<Todo(c, 0)>> \o (RestOf(graph, f) \o r)
    <3> HIDE DEF v
    <3>1. v.at = "walking" /\ v.pending = c /\ v.stack = Append(w.stack, f)
      BY <2>1
    <3>2. Remaining(graph, v) = <<Todo(c, 0)>> \o RestOfStack(graph, Append(w.stack, f))
      BY <2>4, <3>1 DEF Remaining
    <3> QED BY <1>7, <3>2
  <2>7. Todo(c, 0) \in Items(graph)
    BY <2>3 DEF Todo, Items
  <2>10. UnfoldsTo(n, 0, r, holds)
    BY <1>1, <1>6, UnfoldIs
  <2>8. ~Plan!Settled(Remaining(graph, w))
    BY <1>8, <1>11, <2>10 DEF UnfoldsTo
  <2>9. Remaining(graph, v) = Plan!Unfold(Remaining(graph, w), holds)
    <3>1. CASE graph[n].kind = "Sequence"
      <4>1. arm = 0 /\ c = children[1]
        BY <1>2, <3>1 DEF c
      <4>2. RestOf(graph, f) = From(children, 1)
        <5>1. RestOf(graph, f) = From(Children(graph, f.node), f.index + 1)
          BY <1>3, <3>1, RestOfIs
        <5> QED BY <1>3, <4>1, <5>1
      <4>3. 0 \in 0 .. Len(children) - 1 /\ 1 \in 0 .. Len(children)
        BY <2>2, <4>1
      <4>4. From(children, 0) = <<Todo(c, 0)>> \o From(children, 1)
        BY <1>4, <4>1, <4>3, FromFirst
      <4>5. From(children, 1) \in Plans(graph)
        BY <1>4, <4>3, FromTyped
      <4>6. Plan!Unfold(Remaining(graph, w), holds) = From(children, 0) \o r
        BY <1>8, <3>1, <2>10 DEF UnfoldsTo
      <4>7. <<Todo(c, 0)>> \in Plans(graph)
        BY <2>7 DEF Plans
      <4>8. (<<Todo(c, 0)>> \o From(children, 1)) \o r = <<Todo(c, 0)>> \o (From(children, 1) \o r)
        BY <1>6, <4>5, <4>7, ConcatAssociative DEF Plans
      <4> QED BY <2>6, <4>2, <4>4, <4>6, <4>8
    <3>2. CASE graph[n].kind = "Branch"
      <4>1. RestOf(graph, f) = << >>
        BY <1>3, <3>2, RestOfIs
      <4>2. << >> \o r = r
        BY <1>6, ConcatEmptySeq DEF Plans
      <4>3. Plan!Unfold(Remaining(graph, w), holds)
              = <<Todo(children[IF holds[n] THEN 1 ELSE 2], 0)>> \o r
        BY <1>8, <3>2, <2>10 DEF UnfoldsTo
      <4> QED BY <1>2, <2>6, <3>2, <4>1, <4>2, <4>3 DEF c
    <3>3. CASE graph[n].kind = "Repeat"
      <4>1. arm = 0 /\ c = children[1]
        BY <1>2, <3>3 DEF c
      <4>2. RestOf(graph, f) = <<Todo(n, 1)>>
        <5>1. RestOf(graph, f) = <<Todo(f.node, f.index + 1)>>
          BY <1>3, <3>3, RestOfIs
        <5> QED BY <1>3, <4>1, <5>1
      <4>3. LoopGoesOn(graph, n, 0, holds)
        BY DEF LoopGoesOn
      <4>4. Plan!Unfold(Remaining(graph, w), holds) = <<Todo(children[1], 0)>> \o (<<Todo(n, 0 + 1)>> \o r)
        BY <1>8, <3>3, <4>3, <2>10 DEF UnfoldsTo
      <4> QED BY <2>6, <4>1, <4>2, <4>4
    <3> QED BY <1>4, <1>11, <3>1, <3>2, <3>3 DEF IsStage
  <2> QED BY <2>5, <2>8, <2>9 DEF UnfoldsOrNot
<1> QED BY <1>10, <1>11

\* The stack without its top, and nothing in its place.
LEMMA Dropped ==
    ASSUME NEW g, NEW w \in Walks(g), w.at = "walking", Clear(g, Below(w.stack)),
           Below(w.stack) \in Seq(Frames(g)),
           NEW v, v = [w EXCEPT !.stack = Below(@), !.pending = NoNode]
    PROVE  OnTheWay(g, v) /\ Remaining(g, v) = RestOfStack(g, Below(w.stack))
<1>1. v \in Walks(g) /\ v.stack = Below(w.stack) /\ v.pending = NoNode /\ v.at = "walking"
  BY DEF Walks
<1>2. ~Standing(g, v.stack)
  BY <1>1, ClearIsNotStanding
<1> QED BY <1>1, <1>2 DEF OnTheWay, Between, Remaining

\* The next child of the frame: its stack below stays as it is.
LEMMA Replaced ==
    ASSUME NEW g, IsTree(g), NEW w \in Walks(g), w.at = "walking", Clear(g, Below(w.stack)),
           Below(w.stack) \in Seq(Frames(g)), NEW f \in Frames(g), NEW c \in DOMAIN g,
           Fits(g, f), ~IsStage(g, f.node),
           NEW v, v = [w EXCEPT !.stack = Append(Below(@), f), !.pending = c]
    PROVE  /\ OnTheWay(g, v)
           /\ Remaining(g, v) =
                <<Todo(c, 0)>> \o (RestOf(g, f) \o RestOfStack(g, Below(w.stack)))
<1> DEFINE grown == Append(Below(w.stack), f)
<1>1. grown \in Seq(Frames(g)) /\ Clear(g, grown)
  BY Pushed
<1>2. RestOfStack(g, grown) = RestOf(g, f) \o RestOfStack(g, Below(w.stack))
  BY RestOfStackIs
<1>3. c # NoNode
  BY DEF IsTree
<1> HIDE DEF grown
<1>4. v = [w EXCEPT !.stack = grown, !.pending = c]
  BY DEF grown
<1>5. v \in Walks(g) /\ v.stack = grown /\ v.pending = c /\ v.at = "walking"
  BY <1>1, <1>4 DEF Walks
<1> QED BY <1>1, <1>2, <1>3, <1>5 DEF OnTheWay, Between, Remaining

LEMMA PopKeeps ==
    ASSUME IsTree(graph), NEW w \in Walks(graph), w.at = "walking", w.pending = NoNode,
           w.stack # << >>, Clear(graph, w.stack) \/ Standing(graph, w.stack),
           NEW holds
    PROVE  LET v == Pop(w, holds)
           IN  /\ OnTheWay(graph, v)
               /\ UnfoldsOrNot(Remaining(graph, w), Remaining(graph, v), holds)
<1> DEFINE f == Top(w.stack)
           n == f.node
           b == Below(w.stack)
           children == Children(graph, n)
           further == Frame(n, f.index + 1)
           v == Pop(w, holds)
           r == RestOfStack(graph, b)
           dropped == [w EXCEPT !.stack = Below(@), !.pending = NoNode]
<1> SUFFICES /\ OnTheWay(graph, v)
             /\ UnfoldsOrNot(Remaining(graph, w), Remaining(graph, v), holds)
  OBVIOUS
<1>1. /\ w.stack \in Seq(Frames(graph)) /\ b \in Seq(Frames(graph)) /\ f \in Frames(graph)
      /\ w.stack = Append(b, f)
  BY StackParts DEF Walks
<1>2. n \in DOMAIN graph /\ f.index \in Nat
  BY <1>1 DEF Frames
<1>3. /\ graph[n].kind \in {"Sequence", "Branch", "Repeat", "SubTask"}
      /\ children \in Seq(DOMAIN graph) /\ graph[n].count \in Nat
  BY <1>2 DEF IsTree
<1>4. r \in Plans(graph)
  BY <1>1, RestOfStackIs
<1>5. v = CASE graph[n].kind = "Sequence" /\ f.index + 2 \in DOMAIN children ->
                 [w EXCEPT !.stack = Append(Below(@), further),
                           !.pending = children[f.index + 2]]
            [] graph[n].kind = "Repeat" /\ Again(f, holds) ->
                 [w EXCEPT !.stack = Append(Below(@), further), !.pending = children[1]]
            [] OTHER -> dropped
  BY DEF Pop, Children
<1>6. further \in Frames(graph) /\ further.node = n /\ further.index = f.index + 1
  BY <1>2 DEF Frame, Frames
<1> HIDE DEF v, r, further, dropped
<1>7. CASE Standing(graph, w.stack)
  <2>1. Clear(graph, b) /\ graph[n].kind = "SubTask"
    BY <1>7 DEF Standing, IsStage
  <2>2. v = dropped
    BY <1>5, <2>1
  <2>3. OnTheWay(graph, v) /\ Remaining(graph, v) = r
    BY <1>1, <2>1, <2>2, Dropped DEF dropped, r
  <2>4. Remaining(graph, w) = r
    BY <1>7 DEF Remaining, r
  <2> QED BY <2>3, <2>4 DEF UnfoldsOrNot
<1>8. CASE Clear(graph, w.stack)
  <2>1. Clear(graph, b) /\ Fits(graph, f) /\ ~IsStage(graph, n)
    BY <1>1, <1>8, Popped
  <2>2. Remaining(graph, w) = RestOf(graph, f) \o r
    <3>1. ~Standing(graph, w.stack)
      BY <1>1, <1>8, ClearIsNotStanding
    <3>2. Remaining(graph, w) = RestOfStack(graph, w.stack)
      BY <3>1 DEF Remaining
    <3>3. RestOfStack(graph, Append(b, f)) = RestOf(graph, f) \o r
      BY <1>1, RestOfStackIs DEF r
    <3> QED BY <1>1, <3>2, <3>3
  <2>3. << >> \o r = r
    BY <1>4, ConcatEmptySeq DEF Plans
  <2>4. v = dropped => OnTheWay(graph, v) /\ Remaining(graph, v) = r
    BY <1>1, <2>1, Dropped DEF dropped, r
  <2>5. CASE graph[n].kind = "Sequence" /\ f.index + 2 \in DOMAIN children
    <3> DEFINE c == children[f.index + 2]
    <3>1. v = [w EXCEPT !.stack = Append(Below(@), further), !.pending = c]
      BY <1>5, <2>5
    <3>2. f.index + 2 \in 1 .. Len(children) /\ c \in DOMAIN graph
      BY <1>3, <2>5
    <3>3. Fits(graph, further) /\ ~IsStage(graph, further.node)
      <4>1. (f.index + 1) + 1 \in 1 .. Len(children)
        BY <1>2, <3>2
      <4> QED BY <1>6, <2>1, <2>5, <4>1 DEF Fits
    <3> HIDE DEF c
    <3>4. OnTheWay(graph, v) /\ Remaining(graph, v) = <<Todo(c, 0)>> \o (RestOf(graph, further) \o r)
      BY <1>1, <1>6, <2>1, <3>1, <3>2, <3>3, Replaced DEF r
    <3>5. RestOf(graph, f) = From(children, f.index + 1)
      BY <1>1, <2>5, RestOfIs
    <3>6. RestOf(graph, further) = From(children, (f.index + 1) + 1)
      <4>1. RestOf(graph, further) = From(Children(graph, further.node), further.index + 1)
        BY <1>6, <2>5, RestOfIs
      <4> QED BY <1>6, <4>1
    <3>7. /\ f.index + 1 \in 0 .. Len(children) - 1 /\ (f.index + 1) + 1 \in 0 .. Len(children)
          /\ (f.index + 1) + 1 = f.index + 2
      BY <1>2, <3>2
    <3>8. From(children, f.index + 1) = <<Todo(c, 0)>> \o From(children, (f.index + 1) + 1)
      BY <1>3, <3>7, FromFirst DEF c
    <3>9. <<Todo(c, 0)>> \in Plans(graph) /\ From(children, (f.index + 1) + 1) \in Plans(graph)
      <4>1. Todo(c, 0) \in Items(graph)
        BY <3>2 DEF Todo, Items, c
      <4>2. <<Todo(c, 0)>> \in Plans(graph)
        BY <4>1 DEF Plans
      <4>3. From(children, (f.index + 1) + 1) \in Plans(graph)
        BY <1>3, <3>7, FromTyped
      <4> QED BY <4>2, <4>3
    <3>10. (<<Todo(c, 0)>> \o From(children, (f.index + 1) + 1)) \o r
             = <<Todo(c, 0)>> \o (From(children, (f.index + 1) + 1) \o r)
      BY <1>4, <3>9, ConcatAssociative DEF Plans
    <3>11. Remaining(graph, v) = Remaining(graph, w)
      BY <2>2, <3>4, <3>5, <3>6, <3>8, <3>10
    <3> QED BY <3>4, <3>11 DEF UnfoldsOrNot
  <2>6. CASE graph[n].kind = "Sequence" /\ f.index + 2 \notin DOMAIN children
    <3>1. v = dropped
      BY <1>5, <2>6
    <3>2. RestOf(graph, f) = From(children, f.index + 1)
      BY <1>1, <2>6, RestOfIs
    <3>3. f.index + 1 = Len(children)
      <4>1. f.index + 1 \in 1 .. Len(children)
        BY <2>1, <2>6 DEF Fits
      <4>2. f.index + 2 \notin 1 .. Len(children)
        BY <1>3, <2>6
      <4> QED BY <1>2, <1>3, <4>1, <4>2
    <3>4. From(children, f.index + 1) \in Plans(graph) /\ Len(From(children, f.index + 1)) = 0
      <4>1. f.index + 1 \in 0 .. Len(children) /\ Len(children) - (f.index + 1) = 0
        BY <1>2, <1>3, <3>3
      <4> QED BY <1>3, <4>1, FromTyped
    <3>5. From(children, f.index + 1) = << >>
      BY <3>4, EmptySeq DEF Plans
    <3> QED BY <2>2, <2>3, <2>4, <3>1, <3>2, <3>5 DEF UnfoldsOrNot
  <2>7. CASE graph[n].kind = "Branch"
    <3>1. v = dropped
      BY <1>5, <2>7
    <3>2. RestOf(graph, f) = << >>
      BY <1>1, <2>7, RestOfIs
    <3> QED BY <2>2, <2>3, <2>4, <3>1, <3>2 DEF UnfoldsOrNot
  <2>8. CASE graph[n].kind = "Repeat"
    <3>1. RestOf(graph, f) = <<Todo(n, f.index + 1)>>
      BY <1>1, <2>8, RestOfIs
    <3>2. UnfoldsTo(n, f.index + 1, r, holds)
      BY <1>2, <1>4, UnfoldIs
    <3>3. ~Plan!Settled(Remaining(graph, w))
      BY <2>1, <2>2, <3>1, <3>2 DEF UnfoldsTo
    <3>4. Again(f, holds) <=> LoopGoesOn(graph, n, f.index + 1, holds)
      BY <1>2 DEF Again, LoopGoesOn
    <3>5. CASE Again(f, holds)
      <4> DEFINE c == children[1]
      <4>1. v = [w EXCEPT !.stack = Append(Below(@), further), !.pending = c]
        BY <1>5, <2>8, <3>5
      <4>2. Len(children) = 1
        BY <1>2, <2>8 DEF IsTree
      <4>3. c \in DOMAIN graph
        BY <1>3, <4>2
      <4>4. Fits(graph, further) /\ ~IsStage(graph, further.node)
        BY <1>6, <2>1, <2>8, <3>5 DEF Fits, Again
      <4>5. Plan!Unfold(Remaining(graph, w), holds)
              = <<Todo(c, 0)>> \o (<<Todo(n, (f.index + 1) + 1)>> \o r)
        BY <2>2, <2>8, <3>1, <3>2, <3>4, <3>5 DEF UnfoldsTo
      <4> HIDE DEF c
      <4>6. OnTheWay(graph, v) /\ Remaining(graph, v) = <<Todo(c, 0)>> \o (RestOf(graph, further) \o r)
        BY <1>1, <1>6, <2>1, <4>1, <4>3, <4>4, Replaced DEF r
      <4>7. RestOf(graph, further) = <<Todo(n, (f.index + 1) + 1)>>
        <5>1. RestOf(graph, further) = <<Todo(further.node, further.index + 1)>>
          BY <1>6, <2>8, RestOfIs
        <5> QED BY <1>6, <5>1
      <4> QED BY <3>3, <4>5, <4>6, <4>7 DEF UnfoldsOrNot
    <3>6. CASE ~Again(f, holds)
      <4>1. v = dropped
        BY <1>5, <2>8, <3>6
      <4>2. Plan!Unfold(Remaining(graph, w), holds) = r
        BY <2>2, <2>8, <3>1, <3>2, <3>4, <3>6 DEF UnfoldsTo
      <4> QED BY <2>4, <3>3, <4>1, <4>2 DEF UnfoldsOrNot
    <3> QED BY <3>5, <3>6
  <2> QED BY <1>3, <2>1, <2>5, <2>6, <2>7, <2>8 DEF IsStage
<1> QED BY <1>7, <1>8

LEMMA IterateKeeps ==
    ASSUME IsTree(graph), NEW w, OnTheWay(graph, w) \/ (w \in Walks(graph) /\ Leaving(graph, w)),
           NEW holds
    PROVE  LET v == Iterate(w, holds)
           IN  /\ OnTheWay(graph, v)
               /\ UnfoldsOrNot(Remaining(graph, w), Remaining(graph, v), holds)
<1> DEFINE n == w.pending
           v == Iterate(w, holds)
<1>1. w \in Walks(graph) /\ w.stack \in Seq(Frames(graph))
  BY DEF OnTheWay, Walks
<1>2. CASE w.at # "walking"
  BY <1>2 DEF Iterate, OnTheWay, Leaving, UnfoldsOrNot
<1>3. CASE w.at = "walking" /\ n # NoNode
  <2>1. Between(graph, w) /\ n \in DOMAIN graph
    BY <1>1, <1>3 DEF OnTheWay, Leaving, Arrived, Over, Walks
  <2>2. CASE graph[n].kind = "Sequence" /\ graph[n].children = << >>
    <3>1. v = [w EXCEPT !.pending = NoNode]
      BY <1>3, <2>2 DEF Iterate
    <3>2. v \in Walks(graph) /\ v.stack = w.stack /\ v.pending = NoNode /\ v.at = "walking"
      BY <1>1, <1>3, <3>1 DEF Walks
    <3> HIDE DEF v
    <3>3. OnTheWay(graph, v)
      BY <2>1, <3>2 DEF OnTheWay, Between
    <3>4. Remaining(graph, v) = RestOfStack(graph, w.stack)
      BY <1>1, <2>1, <3>2, ClearIsNotStanding DEF Remaining, Between
    <3> DEFINE r == RestOfStack(graph, w.stack)
    <3>5. r \in Plans(graph)
      BY <1>1, RestOfStackIs
    <3>6. Remaining(graph, w) = <<Todo(n, 0)>> \o r
      BY <1>3 DEF Remaining
    <3> HIDE DEF r
    <3>7. UnfoldsTo(n, 0, r, holds)
      BY <2>1, <3>5, UnfoldIs
    <3>8. ~Plan!Settled(Remaining(graph, w))
      BY <2>2, <3>6, <3>7 DEF UnfoldsTo, IsStage
    <3>9. Plan!Unfold(Remaining(graph, w), holds) = From(<< >>, 0) \o r
      BY <2>2, <3>6, <3>7 DEF UnfoldsTo, Children
    <3>10. From(<< >>, 0) = << >>
      BY DEF From
    <3>11. << >> \o r = r
      BY <3>5, ConcatEmptySeq DEF Plans
    <3>12. Remaining(graph, v) = Plan!Unfold(Remaining(graph, w), holds)
      BY <3>4, <3>9, <3>10, <3>11 DEF r
    <3>13. OnTheWay(graph, v) /\ UnfoldsOrNot(Remaining(graph, w), Remaining(graph, v), holds)
      BY <3>3, <3>8, <3>12 DEF UnfoldsOrNot
    <3> QED BY <3>13 DEF v
  <2>3. CASE ~(graph[n].kind = "Sequence" /\ graph[n].children = << >>)
    <3>1. v = Descend(w, holds)
      BY <1>3, <2>3 DEF Iterate
    <3> QED BY <1>1, <1>3, <2>1, <2>3, <3>1, DescendKeeps
  <2> QED BY <2>2, <2>3
<1>4. CASE w.at = "walking" /\ n = NoNode /\ w.stack = << >>
  <2>1. v = [w EXCEPT !.at = "end"]
    BY <1>4 DEF Iterate
  <2>2. v \in Walks(graph) /\ v.stack = << >> /\ v.at = "end"
    BY <1>1, <1>4, <2>1 DEF Walks
  <2> HIDE DEF v
  <2>3. OnTheWay(graph, v) /\ Remaining(graph, v) = RestOfStack(graph, << >>)
    BY <2>2 DEF OnTheWay, Over, Remaining
  <2>4. Remaining(graph, w) = RestOfStack(graph, << >>)
    BY <1>4 DEF Remaining, Standing
  <2>5. OnTheWay(graph, v) /\ UnfoldsOrNot(Remaining(graph, w), Remaining(graph, v), holds)
    BY <2>3, <2>4 DEF UnfoldsOrNot
  <2> QED BY <2>5 DEF v
<1>5. CASE w.at = "walking" /\ n = NoNode /\ w.stack # << >>
  <2>1. v = Pop(w, holds)
    BY <1>5 DEF Iterate
  <2>2. Clear(graph, w.stack) \/ Standing(graph, w.stack)
    BY <1>5 DEF OnTheWay, Between, Leaving, Arrived, Over
  <2> QED BY <1>1, <1>5, <2>1, <2>2, PopKeeps
<1> QED BY <1>2, <1>3, <1>4, <1>5

-----------------------------------------------------------------------------
(***************************************************************************)
(* A whole walk settles the plan it starts from.                           *)
(***************************************************************************)
\* The plans one is unfolded through, and the walks an iteration goes through.
Unfoldings(plan, holds, p) ==
    /\ DOMAIN p = 0 .. MaxDescent /\ p[0] = plan
    /\ \A n \in 1 .. MaxDescent :
         p[n] = IF Plan!Settled(p[n - 1]) THEN p[n - 1] ELSE Plan!Unfold(p[n - 1], holds)

LEMMA SettleIs ==
    ASSUME MaxDescent \in Nat, NEW plan, NEW holds
    PROVE  \E p : Unfoldings(plan, holds, p) /\ Plan!Settle(plan, holds) = p[MaxDescent]
<1> DEFINE N == MaxDescent
           One(q) == IF Plan!Settled(q) THEN q ELSE Plan!Unfold(q, holds)
           F(h) == [n \in 0 .. N |-> IF n = 0 THEN plan
                                     ELSE CHOOSE x \in {One(q) : q \in {h[n - 1]}} : TRUE]
           Loop(h, m) == h[0] = plan /\ \A n \in 1 .. m : h[n] = One(h[n - 1])
           T == {m \in 0 .. N : \E h : h = [n \in 0 .. m |-> h[n]] /\ Loop(h, m)}
<1>1. Plan!Settle(plan, holds) = (CHOOSE h : h = F(h))[N]
  BY DEF Plan!Settle
<1>2. \A q : (CHOOSE x \in {One(r) : r \in {q}} : TRUE) = One(q)
  <2> SUFFICES ASSUME NEW q PROVE (CHOOSE x \in {One(r) : r \in {q}} : TRUE) = One(q)
    OBVIOUS
  <2> HIDE DEF One
  <2>1. {One(r) : r \in {q}} = {One(q)}
    OBVIOUS
  <2> QED BY <2>1
<1> HIDE DEF One, N
<1>3. N \in Nat
  BY DEF N
<1>4. 0 \in T
  <2> DEFINE z == [k \in 0 .. 0 |-> plan]
  <2>1. z = [n \in 0 .. 0 |-> z[n]] /\ Loop(z, 0)
    OBVIOUS
  <2>2. 0 \in 0 .. N
    BY <1>3
  <2> HIDE DEF z, Loop
  <2> QED BY <2>1, <2>2
<1>5. ASSUME NEW m \in 1 .. N, m - 1 \in T PROVE m \in T
  <2>1. PICK h : h = [n \in 0 .. m - 1 |-> h[n]] /\ Loop(h, m - 1)
    BY <1>5
  <2> DEFINE l == [k \in 0 .. m |-> IF k = m THEN One(h[m - 1]) ELSE h[k]]
  <2>2. m \in Nat /\ m - 1 \in 0 .. m - 1 /\ m \in 0 .. N
    BY <1>3
  <2>3. l = [n \in 0 .. m |-> l[n]] /\ l[m] = One(h[m - 1]) /\ \A k \in 0 .. m - 1 : l[k] = h[k]
    BY <2>2
  <2> HIDE DEF l
  <2>4. \A n \in 1 .. m : l[n] = One(l[n - 1])
    <3> SUFFICES ASSUME NEW n \in 1 .. m PROVE l[n] = One(l[n - 1])
      OBVIOUS
    <3>1. CASE n = m
      BY <2>2, <2>3, <3>1
    <3>2. CASE n # m
      <4>1. n \in 1 .. m - 1 /\ n \in 0 .. m - 1 /\ n - 1 \in 0 .. m - 1
        BY <2>2, <3>2
      <4>2. h[n] = One(h[n - 1])
        BY <2>1, <4>1
      <4>3. l[n] = h[n] /\ l[n - 1] = h[n - 1]
        BY <2>3, <4>1
      <4> QED BY <4>2, <4>3
    <3> QED BY <3>1, <3>2
  <2>5. Loop(l, m)
    <3>1. l[0] = h[0]
      BY <2>2, <2>3
    <3>2. h[0] = plan
      BY <2>1
    <3> QED BY <2>4, <3>1, <3>2
  <2> HIDE DEF Loop
  <2> QED BY <2>2, <2>3, <2>5
<1>6. N \in T
  <2> HIDE DEF T
  <2>1. 0 .. N \subseteq T
    BY <1>3, <1>4, <1>5, Climbs
  <2> QED BY <1>3, <2>1
<1>7. PICK h : h = [n \in 0 .. N |-> h[n]] /\ Loop(h, N)
  BY <1>6
<1>8. h = F(h)
  <2>1. \A n \in 0 .. N : h[n] = IF n = 0 THEN plan
                                 ELSE CHOOSE x \in {One(q) : q \in {h[n - 1]}} : TRUE
    <3> SUFFICES ASSUME NEW n \in 0 .. N
                 PROVE  h[n] = IF n = 0 THEN plan
                               ELSE CHOOSE x \in {One(q) : q \in {h[n - 1]}} : TRUE
      OBVIOUS
    <3>1. CASE n = 0
      BY <1>7, <3>1
    <3>2. CASE n # 0
      <4>1. n \in 1 .. N
        BY <1>3, <3>2
      <4>2. h[n] = One(h[n - 1])
        BY <1>7, <4>1
      <4>3. (CHOOSE x \in {One(q) : q \in {h[n - 1]}} : TRUE) = One(h[n - 1])
        BY <1>2
      <4> QED BY <3>2, <4>2, <4>3
    <3> QED BY <3>1, <3>2
  <2> QED BY <1>7, <2>1
<1> DEFINE p == CHOOSE f : f = F(f)
<1>9. p = F(p)
  BY <1>8
<1> HIDE DEF p
<1>10. DOMAIN p = 0 .. N /\ p[0] = plan /\ \A n \in 1 .. N : p[n] = One(p[n - 1])
  <2>1. DOMAIN p = 0 .. N /\ \A n \in 0 .. N : p[n] = IF n = 0 THEN plan
                                 ELSE CHOOSE x \in {One(q) : q \in {p[n - 1]}} : TRUE
    BY <1>9
  <2>2. 0 \in 0 .. N /\ \A n \in 1 .. N : n \in 0 .. N /\ n # 0
    BY <1>3
  <2> QED BY <1>2, <2>1, <2>2
<1>11. Unfoldings(plan, holds, p)
  BY <1>10 DEF Unfoldings, One, N
<1>12. Plan!Settle(plan, holds) = p[MaxDescent]
  BY <1>1 DEF p, N
<1> QED BY <1>11, <1>12

First(s, pending) == [stack |-> s.stack, pending |-> pending, at |-> "walking"]
Stopped(s, last) == [s EXCEPT !.stack = last.stack,
                              !.ticks = IF last.at = "stage" THEN 0 ELSE @,
                              !.done = last.at # "stage",
                              !.failed = last.at = "walking"]
Iterations(first, holds, walk) ==
    /\ DOMAIN walk = 0 .. MaxDescent /\ walk[0] = first
    /\ \A n \in 1 .. MaxDescent : walk[n] = Iterate(walk[n - 1], holds)

LEMMA RunIs ==
    ASSUME MaxDescent \in Nat, NEW s, NEW pending, NEW holds
    PROVE  \E walk : /\ Iterations(First(s, pending), holds, walk)
                    /\ Run(s, pending, holds) = Stopped(s, walk[MaxDescent])
<1> DEFINE N == MaxDescent
           first == First(s, pending)
           One(q) == Iterate(q, holds)
           F(h) == [n \in 0 .. N |-> IF n = 0 THEN first
                                     ELSE CHOOSE x \in {One(q) : q \in {h[n - 1]}} : TRUE]
           Loop(h, m) == h[0] = first /\ \A n \in 1 .. m : h[n] = One(h[n - 1])
           T == {m \in 0 .. N : \E h : h = [n \in 0 .. m |-> h[n]] /\ Loop(h, m)}
<1>1. Run(s, pending, holds) = Stopped(s, (CHOOSE h : h = F(h))[N])
  BY DEF Run, Stopped, First
<1>2. \A q : (CHOOSE x \in {One(r) : r \in {q}} : TRUE) = One(q)
  <2> SUFFICES ASSUME NEW q PROVE (CHOOSE x \in {One(r) : r \in {q}} : TRUE) = One(q)
    OBVIOUS
  <2> HIDE DEF One
  <2>1. {One(r) : r \in {q}} = {One(q)}
    OBVIOUS
  <2> QED BY <2>1
<1> HIDE DEF One, N, first
<1>3. N \in Nat
  BY DEF N
<1>4. 0 \in T
  <2> DEFINE z == [k \in 0 .. 0 |-> first]
  <2>1. z = [n \in 0 .. 0 |-> z[n]] /\ Loop(z, 0)
    OBVIOUS
  <2>2. 0 \in 0 .. N
    BY <1>3
  <2> HIDE DEF z, Loop
  <2> QED BY <2>1, <2>2
<1>5. ASSUME NEW m \in 1 .. N, m - 1 \in T PROVE m \in T
  <2>1. PICK h : h = [n \in 0 .. m - 1 |-> h[n]] /\ Loop(h, m - 1)
    BY <1>5
  <2> DEFINE l == [k \in 0 .. m |-> IF k = m THEN One(h[m - 1]) ELSE h[k]]
  <2>2. m \in Nat /\ m - 1 \in 0 .. m - 1 /\ m \in 0 .. N
    BY <1>3
  <2>3. l = [n \in 0 .. m |-> l[n]] /\ l[m] = One(h[m - 1]) /\ \A k \in 0 .. m - 1 : l[k] = h[k]
    BY <2>2
  <2> HIDE DEF l
  <2>4. \A n \in 1 .. m : l[n] = One(l[n - 1])
    <3> SUFFICES ASSUME NEW n \in 1 .. m PROVE l[n] = One(l[n - 1])
      OBVIOUS
    <3>1. CASE n = m
      BY <2>2, <2>3, <3>1
    <3>2. CASE n # m
      <4>1. n \in 1 .. m - 1 /\ n \in 0 .. m - 1 /\ n - 1 \in 0 .. m - 1
        BY <2>2, <3>2
      <4>2. h[n] = One(h[n - 1])
        BY <2>1, <4>1
      <4>3. l[n] = h[n] /\ l[n - 1] = h[n - 1]
        BY <2>3, <4>1
      <4> QED BY <4>2, <4>3
    <3> QED BY <3>1, <3>2
  <2>5. Loop(l, m)
    <3>1. l[0] = h[0]
      BY <2>2, <2>3
    <3>2. h[0] = first
      BY <2>1
    <3> QED BY <2>4, <3>1, <3>2
  <2> HIDE DEF Loop
  <2> QED BY <2>2, <2>3, <2>5
<1>6. N \in T
  <2> HIDE DEF T
  <2>1. 0 .. N \subseteq T
    BY <1>3, <1>4, <1>5, Climbs
  <2> QED BY <1>3, <2>1
<1>7. PICK h : h = [n \in 0 .. N |-> h[n]] /\ Loop(h, N)
  BY <1>6
<1>8. h = F(h)
  <2>1. \A n \in 0 .. N : h[n] = IF n = 0 THEN first
                                 ELSE CHOOSE x \in {One(q) : q \in {h[n - 1]}} : TRUE
    <3> SUFFICES ASSUME NEW n \in 0 .. N
                 PROVE  h[n] = IF n = 0 THEN first
                               ELSE CHOOSE x \in {One(q) : q \in {h[n - 1]}} : TRUE
      OBVIOUS
    <3>1. CASE n = 0
      BY <1>7, <3>1
    <3>2. CASE n # 0
      <4>1. n \in 1 .. N
        BY <1>3, <3>2
      <4>2. h[n] = One(h[n - 1])
        BY <1>7, <4>1
      <4>3. (CHOOSE x \in {One(q) : q \in {h[n - 1]}} : TRUE) = One(h[n - 1])
        BY <1>2
      <4> QED BY <3>2, <4>2, <4>3
    <3> QED BY <3>1, <3>2
  <2> QED BY <1>7, <2>1
<1> DEFINE p == CHOOSE f : f = F(f)
<1>9. p = F(p)
  BY <1>8
<1> HIDE DEF p
<1>10. DOMAIN p = 0 .. N /\ p[0] = first /\ \A n \in 1 .. N : p[n] = One(p[n - 1])
  <2>1. DOMAIN p = 0 .. N /\ \A n \in 0 .. N : p[n] = IF n = 0 THEN first
                                 ELSE CHOOSE x \in {One(q) : q \in {p[n - 1]}} : TRUE
    BY <1>9
  <2>2. 0 \in 0 .. N /\ \A n \in 1 .. N : n \in 0 .. N /\ n # 0
    BY <1>3
  <2> QED BY <1>2, <2>1, <2>2
<1>11. Iterations(First(s, pending), holds, p)
  BY <1>10 DEF Iterations, One, N, first
<1>12. Run(s, pending, holds) = Stopped(s, p[MaxDescent])
  BY <1>1 DEF p, N
<1> QED BY <1>11, <1>12

\* A stack with a stage on top has that stage first in what is left to do.
LEMMA StandingPlan ==
    ASSUME IsTree(graph), NEW stack \in Seq(Frames(graph)), Standing(graph, stack)
    PROVE  /\ Below(stack) \in Seq(Frames(graph)) /\ Top(stack) \in Frames(graph)
           /\ RestOfStack(graph, Below(stack)) \in Plans(graph)
           /\ RestOfStack(graph, stack)
                = <<Todo(Top(stack).node, 0)>> \o RestOfStack(graph, Below(stack))
           /\ RestOfStack(graph, stack) # << >>
           /\ Head(RestOfStack(graph, stack)) = Todo(Top(stack).node, 0)
           /\ Tail(RestOfStack(graph, stack)) = RestOfStack(graph, Below(stack))
<1> DEFINE b == Below(stack)
           f == Top(stack)
           r == RestOfStack(graph, b)
<1>1. stack # << >> /\ IsStage(graph, f.node)
  BY DEF Standing
<1>2. b \in Seq(Frames(graph)) /\ f \in Frames(graph) /\ stack = Append(b, f)
  BY <1>1, StackParts
<1> HIDE DEF b, f
<1>3. r \in Plans(graph) /\ RestOfStack(graph, Append(b, f)) = RestOf(graph, f) \o r
  BY <1>2, RestOfStackIs
<1>4. RestOf(graph, f) = <<Todo(f.node, 0)>>
  BY <1>1, <1>2, RestOfIs
<1>5. Todo(f.node, 0) \in Items(graph)
  BY <1>2 DEF Frames, Todo, Items
<1> HIDE DEF r
<1>6. RestOfStack(graph, stack) = <<Todo(f.node, 0)>> \o r
  BY <1>2, <1>3, <1>4
<1>7. /\ <<Todo(f.node, 0)>> \o r # << >>
      /\ Head(<<Todo(f.node, 0)>> \o r) = Todo(f.node, 0) /\ Tail(<<Todo(f.node, 0)>> \o r) = r
  BY <1>3, <1>5, Prefixed DEF Plans
<1> QED BY <1>2, <1>3, <1>6, <1>7 DEF b, f, r

LEMMA StandingSettled ==
    ASSUME IsTree(graph), NEW stack \in Seq(Frames(graph)), Standing(graph, stack)
    PROVE  Plan!Settled(RestOfStack(graph, stack))
<1>1. Head(RestOfStack(graph, stack)) = Todo(Top(stack).node, 0)
  BY StandingPlan
<1>2. Head(RestOfStack(graph, stack)).node = Top(stack).node
  BY <1>1 DEF Todo
<1> QED BY <1>2 DEF Plan!Settled, Standing, IsStage

\* A plan that is settled is not unfolded further.
LEMMA SettledStays ==
    ASSUME MaxDescent \in Nat, NEW plan, NEW holds, NEW p, Unfoldings(plan, holds, p),
           NEW j \in 0 .. MaxDescent, Plan!Settled(p[j])
    PROVE  p[MaxDescent] = p[j]
<1> DEFINE U == {k \in 0 .. MaxDescent : k >= j => p[k] = p[j]}
<1>1. 0 \in U
  OBVIOUS
<1>2. ASSUME NEW k \in 1 .. MaxDescent, k - 1 \in U PROVE k \in U
  <2> SUFFICES ASSUME k >= j PROVE p[k] = p[j]
    OBVIOUS
  <2>1. CASE k = j
    BY <2>1
  <2>2. CASE k # j
    <3>1. p[k - 1] = p[j]
      BY <1>2, <2>2
    <3>2. p[k] = p[k - 1]
      BY <3>1 DEF Unfoldings
    <3> QED BY <3>1, <3>2
  <2> QED BY <2>1, <2>2
<1>3. MaxDescent \in U
  <2> HIDE DEF U
  <2>1. 0 .. MaxDescent \subseteq U
    BY <1>1, <1>2, Climbs
  <2> QED BY <2>1
<1> QED BY <1>3

LEMMA SettledSettles ==
    ASSUME MaxDescent \in Nat, NEW plan, NEW holds, Plan!Settled(plan)
    PROVE  Plan!Settle(plan, holds) = plan
<1>1. PICK p : Unfoldings(plan, holds, p) /\ Plan!Settle(plan, holds) = p[MaxDescent]
  BY SettleIs
<1>2. p[0] = plan /\ 0 \in 0 .. MaxDescent
  BY <1>1 DEF Unfoldings
<1> QED BY <1>1, <1>2, SettledStays

\* What a walk that was not cut off leaves to do is its first plan, settled.
LEMMA WalkSettles ==
    ASSUME IsTree(graph), MaxDescent \in Nat \ {0}, NEW holds, NEW first,
           OnTheWay(graph, first) \/ (first \in Walks(graph) /\ Leaving(graph, first)),
           NEW walk, Iterations(first, holds, walk)
    PROVE  LET last == walk[MaxDescent]
           IN  /\ OnTheWay(graph, last)
               /\ last.at # "walking" =>
                    Plan!Settle(Remaining(graph, first), holds) = Remaining(graph, last)
<1> DEFINE plan == Remaining(graph, first)
           Good(w) == OnTheWay(graph, w) \/ (w \in Walks(graph) /\ Leaving(graph, w))
<1>1. PICK p : Unfoldings(plan, holds, p) /\ Plan!Settle(plan, holds) = p[MaxDescent]
  BY SettleIs
<1> DEFINE U == {k \in 0 .. MaxDescent :
                   /\ Good(walk[k]) /\ (k > 0 => OnTheWay(graph, walk[k]))
                   /\ \E j \in 0 .. k : Remaining(graph, walk[k]) = p[j]}
           last == walk[MaxDescent]
<1>2. 0 \in U
  <2>1. Good(walk[0]) /\ Remaining(graph, walk[0]) = p[0]
    BY <1>1 DEF Iterations, Unfoldings
  <2>2. 0 \in 0 .. 0 /\ 0 \in 0 .. MaxDescent
    OBVIOUS
  <2> HIDE DEF Good
  <2> QED BY <2>1, <2>2
<1>3. ASSUME NEW k \in 1 .. MaxDescent, k - 1 \in U PROVE k \in U
  <2>1. walk[k] = Iterate(walk[k - 1], holds)
    BY DEF Iterations
  <2>2. Good(walk[k - 1])
    BY <1>3
  <2>3. /\ OnTheWay(graph, walk[k])
        /\ UnfoldsOrNot(Remaining(graph, walk[k - 1]), Remaining(graph, walk[k]), holds)
    BY <2>1, <2>2, IterateKeeps
  <2>4. PICK j \in 0 .. k - 1 : Remaining(graph, walk[k - 1]) = p[j]
    BY <1>3
  <2>5. \E i \in 0 .. k : Remaining(graph, walk[k]) = p[i]
    <3>1. j \in 0 .. k /\ j + 1 \in 0 .. k /\ j + 1 \in 1 .. MaxDescent /\ (j + 1) - 1 = j
      BY <2>4
    <3>2. CASE Remaining(graph, walk[k]) = p[j]
      BY <3>1, <3>2
    <3>3. CASE ~Plan!Settled(p[j]) /\ Remaining(graph, walk[k]) = Plan!Unfold(p[j], holds)
      <4>1. p[j + 1] = Plan!Unfold(p[j], holds)
        BY <1>1, <3>1, <3>3 DEF Unfoldings
      <4> QED BY <3>1, <3>3, <4>1
    <3> QED BY <2>3, <2>4, <3>2, <3>3 DEF UnfoldsOrNot
  <2> QED BY <2>3, <2>5
<1>4. MaxDescent \in U
  <2> HIDE DEF U
  <2>1. 0 .. MaxDescent \subseteq U
    BY <1>2, <1>3, Climbs
  <2> QED BY <2>1
<1>5. OnTheWay(graph, last)
  BY <1>4
<1>6. PICK j \in 0 .. MaxDescent : Remaining(graph, last) = p[j]
  BY <1>4
<1> HIDE DEF last
<1>7. ASSUME last.at # "walking" PROVE Plan!Settle(plan, holds) = Remaining(graph, last)
  <2>1. Plan!Settled(Remaining(graph, last))
    <3>1. Remaining(graph, last) = RestOfStack(graph, last.stack) /\ last.stack \in Seq(Frames(graph))
      BY <1>5, <1>7 DEF Remaining, OnTheWay, Walks
    <3>2. CASE Over(graph, last)
      <4>1. Remaining(graph, last) = << >>
        BY <3>1, <3>2, RestOfStackIs DEF Over
      <4> QED BY <4>1 DEF Plan!Settled
    <3>3. CASE Arrived(graph, last)
      BY <3>1, <3>3, StandingSettled DEF Arrived
    <3> QED BY <1>5, <1>7, <3>2, <3>3 DEF OnTheWay, Between
  <2>2. p[MaxDescent] = p[j]
    BY <1>1, <1>6, <2>1, SettledStays
  <2> QED BY <1>1, <1>6, <2>2
<1> QED BY <1>5, <1>7 DEF last

-----------------------------------------------------------------------------
(***************************************************************************)
(* One control step: what it does to the state of an env, and to its plan. *)
(***************************************************************************)
Stages(g) == [stack : Seq(Frames(g)), ticks : Nat, scored : DOMAIN g \cup {NoNode},
              started : BOOLEAN, done : BOOLEAN, failed : BOOLEAN]

\* An env that is not done stands in a stage and has ticks left in it, or is yet to enter.
OnTick(g, s) == Standing(g, s.stack) /\ s.ticks < g[Top(s.stack).node].timeout
StageOK(g, s) ==
    /\ s \in Stages(g)
    /\ ~s.started => ~s.done /\ s.stack = << >> /\ s.ticks = 0
    /\ s.started /\ ~s.done => OnTick(g, s)

LEMMA StageTimeout ==
    ASSUME NEW g, IsTree(g), NEW stack \in Seq(Frames(g)), Standing(g, stack)
    PROVE  /\ Top(stack) \in Frames(g) /\ Top(stack).node \in DOMAIN g
           /\ g[Top(stack).node].kind = "SubTask" /\ g[Top(stack).node].timeout \in Nat \ {0}
<1>1. Top(stack) \in Frames(g) /\ IsStage(g, Top(stack).node)
  BY StackParts DEF Standing
<1>2. Top(stack).node \in DOMAIN g
  BY <1>1 DEF Frames
<1> QED BY <1>1, <1>2 DEF IsTree, IsStage

RunGoes(s, pending, holds, r) ==
    LET settled == Plan!Settle(Remaining(graph, First(s, pending)), holds)
    IN  /\ r \in Stages(graph) /\ r.started = s.started
        /\ r.done /\ r.stack # << >> => r.failed /\ Clear(graph, r.stack)
        /\ r.done /\ ~r.failed => settled = << >>
        /\ ~r.done => OnTick(graph, r) /\ r.ticks = 0 /\ settled = RestOfStack(graph, r.stack)

LEMMA RunFacts ==
    ASSUME IsTree(graph), MaxDescent \in Nat \ {0}, NEW s \in Stages(graph),
           NEW holds, NEW pending \in DOMAIN graph \cup {NoNode},
           Clear(graph, s.stack) \/ (pending = NoNode /\ Standing(graph, s.stack))
    PROVE  RunGoes(s, pending, holds, Run(s, pending, holds))
<1> DEFINE first == First(s, pending)
           r == Run(s, pending, holds)
<1> SUFFICES RunGoes(s, pending, holds, r)
  OBVIOUS
<1>1. PICK walk : Iterations(first, holds, walk) /\ r = Stopped(s, walk[MaxDescent])
  BY RunIs
<1> DEFINE last == walk[MaxDescent]
<1>2. first \in Walks(graph) /\ (OnTheWay(graph, first) \/ Leaving(graph, first))
  BY DEF First, Walks, Stages, OnTheWay, Between, Leaving
<1> HIDE DEF first
<1>3. /\ OnTheWay(graph, last)
      /\ last.at # "walking" => Plan!Settle(Remaining(graph, first), holds) = Remaining(graph, last)
  BY <1>1, <1>2, WalkSettles
<1> HIDE DEF r, last
<1>4. last.stack \in Seq(Frames(graph)) /\ last.at \in {"walking", "stage", "end"}
  BY <1>3 DEF OnTheWay, Walks
<1>5. /\ r \in Stages(graph) /\ r.started = s.started /\ r.stack = last.stack
      /\ r.done = (last.at # "stage") /\ r.failed = (last.at = "walking")
      /\ last.at = "stage" => r.ticks = 0
  BY <1>1, <1>4 DEF Stopped, Stages, last
<1>6. CASE last.at = "walking"
  BY <1>3, <1>5, <1>6 DEF RunGoes, OnTheWay, Between, Arrived, Over
<1>7. CASE last.at = "end"
  <2>1. last.stack = << >>
    BY <1>3, <1>7 DEF OnTheWay, Between, Arrived, Over
  <2>2. Remaining(graph, last) = << >>
    BY <1>4, <1>7, <2>1, RestOfStackIs DEF Remaining
  <2>3. Plan!Settle(Remaining(graph, first), holds) = << >>
    BY <1>3, <1>7, <2>2
  <2> QED BY <1>5, <1>7, <2>1, <2>3 DEF RunGoes, first
<1>8. CASE last.at = "stage"
  <2>1. Standing(graph, last.stack)
    BY <1>3, <1>8 DEF OnTheWay, Between, Arrived, Over
  <2>2. Remaining(graph, last) = RestOfStack(graph, last.stack)
    BY <1>8 DEF Remaining
  <2>3. graph[Top(last.stack).node].timeout \in Nat \ {0}
    BY <1>4, <2>1, StageTimeout
  <2>4. OnTick(graph, r) /\ r.ticks = 0
    BY <1>5, <1>8, <2>1, <2>3 DEF OnTick
  <2> QED BY <1>3, <1>5, <1>8, <2>2, <2>4 DEF RunGoes, first
<1> QED BY <1>4, <1>6, <1>7, <1>8

LEMMA SettleIsAnOutcome ==
    ASSUME MaxDescent \in Nat, NEW plan, NEW holds \in Conditions
    PROVE  Plan!Settle(plan, holds) \in Plan!Outcomes(plan)
<1>1. CASE Plan!Settled(plan)
  BY <1>1, SettledSettles DEF Plan!Outcomes
<1>2. CASE ~Plan!Settled(plan)
  <2>1. Conditions = {[n \in DOMAIN graph |-> n \in true] : true \in SUBSET Plan!Deciding}
    BY DEF Conditions, Deciding, Plan!Deciding
  <2> QED BY <1>2, <2>1 DEF Plan!Outcomes
<1> QED BY <1>1, <1>2

\* The state a step finds once the env has entered the graph.
EntryGoes(s, entry, mid) ==
    LET settled == Plan!Settle(PlanOf(graph, s), entry)
    IN  /\ mid \in Stages(graph) /\ mid.started
        /\ mid.done => ~s.started
        /\ mid.done /\ mid.stack # << >> => mid.failed /\ Clear(graph, mid.stack)
        /\ mid.done /\ ~mid.failed => settled = << >>
        /\ ~mid.done => /\ OnTick(graph, mid)
                        /\ \/ s.started /\ mid = s
                           \/ /\ ~s.started /\ mid.ticks = 0
                              /\ settled = RestOfStack(graph, mid.stack)

LEMMA EntryFacts ==
    ASSUME IsTree(graph), MaxDescent \in Nat \ {0}, NEW s, StageOK(graph, s), ~s.done, NEW entry
    PROVE  EntryGoes(s, entry, Entered(s, entry))
<1>1. CASE s.started
  <2>1. Entered(s, entry) = s
    BY <1>1 DEF Entered
  <2> QED BY <1>1, <2>1 DEF EntryGoes, StageOK
<1>2. CASE ~s.started
  <2> DEFINE begun == [s EXCEPT !.started = TRUE]
             mid == Run(begun, Root, entry)
  <2>1. Entered(s, entry) = mid
    BY <1>2 DEF Entered
  <2>2. begun \in Stages(graph) /\ begun.stack = << >> /\ begun.started
    BY <1>2 DEF StageOK, Stages
  <2> HIDE DEF begun
  <2>3. Clear(graph, begun.stack) /\ Root \in DOMAIN graph /\ Root # NoNode
    BY <2>2 DEF Clear, IsTree
  <2>4. RunGoes(begun, Root, entry, mid)
    BY <2>2, <2>3, RunFacts
  <2> HIDE DEF mid
  <2>5. Remaining(graph, First(begun, Root)) = PlanOf(graph, s)
    <3>1. Remaining(graph, First(begun, Root)) = <<Todo(Root, 0)>> \o RestOfStack(graph, << >>)
      BY <2>2, <2>3 DEF Remaining, First
    <3>2. RestOfStack(graph, << >>) = << >>
      <4>1. << >> \in Seq(Frames(graph))
        BY EmptySeq
      <4> QED BY <4>1, RestOfStackIs
    <3>3. Todo(Root, 0) \in Items(graph)
      BY <2>3 DEF Todo, Items
    <3>4. <<Todo(Root, 0)>> \o << >> = <<Todo(Root, 0)>>
      BY <3>3, ConcatEmptySeq
    <3>5. PlanOf(graph, s) = <<Todo(Root, 0)>>
      BY <1>2 DEF PlanOf
    <3> QED BY <3>1, <3>2, <3>4, <3>5
  <2>6. EntryGoes(s, entry, mid)
    BY <1>2, <2>2, <2>4, <2>5 DEF RunGoes, EntryGoes
  <2> QED BY <2>1, <2>6
<1> QED BY <1>1, <1>2

\* A step of an env whose episode goes on fails it, finds nothing to do, ticks the active
\* stage, or walks on from it.
Ticked(mid) == [mid EXCEPT !.ticks = @ + 1, !.scored = Top(mid.stack).node]
Failing(r) == r \in Stages(graph) /\ r.started /\ r.done /\ r.failed
Finding(mid, r) == r \in Stages(graph) /\ r.started /\ r.done /\ mid.done /\ ~mid.failed /\ ~r.failed
Ticking(mid) == ~mid.done /\ mid.ticks + 1 < graph[Top(mid.stack).node].timeout
Waiting(mid, r) == Ticking(mid) /\ r = Ticked(mid)
WalkingOn(mid, holds, r) == Ticking(mid) /\ RunGoes(Ticked(mid), NoNode, holds, r)

LEMMA ControlStepCases ==
    ASSUME IsTree(graph), MaxDescent \in Nat \ {0}, NEW s, StageOK(graph, s), ~s.done,
           NEW entry, NEW complete, NEW holds
    PROVE  LET mid == Entered(s, entry)
               r == ControlStep(s, entry, complete, holds)
           IN  Failing(r) \/ Finding(mid, r) \/ Waiting(mid, r) \/ WalkingOn(mid, holds, r)
<1> DEFINE mid == Entered(s, entry)
           r == ControlStep(s, entry, complete, holds)
           n == Top(mid.stack).node
           ticked == [mid EXCEPT !.ticks = @ + 1, !.scored = n]
<1> SUFFICES Failing(r) \/ Finding(mid, r) \/ Waiting(mid, r) \/ WalkingOn(mid, holds, r)
  OBVIOUS
<1>1. EntryGoes(s, entry, mid)
  BY EntryFacts
<1>2. r = IF mid.stack = << >> THEN [mid EXCEPT !.done = TRUE, !.scored = NoNode]
          ELSE Advanced(mid, complete, holds)
  BY DEF ControlStep
<1> HIDE DEF mid, r
<1>3. mid \in Stages(graph) /\ mid.started /\ mid.stack \in Seq(Frames(graph)) /\ mid.ticks \in Nat
  BY <1>1 DEF EntryGoes, Stages
<1>4. CASE mid.stack = << >>
  <2>1. r = [mid EXCEPT !.done = TRUE, !.scored = NoNode]
    BY <1>2, <1>4
  <2>2. mid.done
    BY <1>1, <1>4 DEF EntryGoes, OnTick, Standing
  <2>3. r \in Stages(graph) /\ r.started /\ r.done /\ r.failed = mid.failed
    BY <1>3, <2>1 DEF Stages
  <2> QED BY <2>2, <2>3 DEF Finding, Failing
<1>5. CASE mid.stack # << >>
  <2>1. Top(mid.stack) \in Frames(graph) /\ n \in DOMAIN graph
    <3>1. Top(mid.stack) \in Frames(graph)
      BY <1>3, <1>5, StackParts
    <3> QED BY <3>1 DEF Frames
  <2>2. r = IF TimedOut(n, ticked.ticks)
              THEN [ticked EXCEPT !.done = TRUE, !.failed = TRUE]
            ELSE IF complete \/ ~graph[n].predicate THEN Run(ticked, NoNode, holds)
            ELSE ticked
    BY <1>2, <1>5 DEF Advanced
  <2>4. ticked = Ticked(mid)
    BY DEF Ticked
  <2> HIDE DEF n
  <2>3. /\ ticked \in Stages(graph) /\ ticked.started /\ ticked.ticks = mid.ticks + 1
        /\ ticked.stack = mid.stack
    <3>1. n \in DOMAIN graph \cup {NoNode} /\ mid.ticks + 1 \in Nat
      BY <1>3, <2>1
    <3> QED BY <1>3, <3>1 DEF Stages
  <2> HIDE DEF ticked
  <2>5. CASE TimedOut(n, ticked.ticks)
    <3>1. r = [ticked EXCEPT !.done = TRUE, !.failed = TRUE]
      BY <2>2, <2>5
    <3> QED BY <2>3, <3>1 DEF Failing, Stages
  <2>6. CASE ~TimedOut(n, ticked.ticks)
    <3>1. graph[n].kind = "SubTask" /\ ~(mid.ticks + 1 >= graph[n].timeout)
      BY <2>3, <2>6 DEF TimedOut
    <3>2. ~mid.done
      <4> SUFFICES ASSUME mid.done PROVE FALSE
        OBVIOUS
      <4>1. Clear(graph, mid.stack)
        BY <1>1, <1>5 DEF EntryGoes
      <4>2. ~IsStage(graph, n)
        BY <1>3, <1>5, <4>1, Popped DEF n
      <4> QED BY <3>1, <4>2 DEF IsStage
    <3>3. Standing(graph, mid.stack)
      BY <1>1, <3>2 DEF EntryGoes, OnTick
    <3>4. graph[n].timeout \in Nat
      BY <1>3, <3>3, StageTimeout DEF n
    <3>5. Ticking(mid)
      BY <1>3, <3>1, <3>2, <3>4 DEF Ticking, n
    <3>6. CASE complete \/ ~graph[n].predicate
      <4>1. r = Run(ticked, NoNode, holds)
        BY <2>2, <2>6, <3>6
      <4>2. RunGoes(ticked, NoNode, holds, Run(ticked, NoNode, holds))
        BY <2>3, <3>3, RunFacts
      <4> QED BY <2>4, <3>5, <4>1, <4>2 DEF WalkingOn
    <3>7. CASE ~(complete \/ ~graph[n].predicate)
      <4>1. r = ticked
        BY <2>2, <2>6, <3>7
      <4> QED BY <2>4, <3>5, <4>1 DEF Waiting
    <3> QED BY <3>6, <3>7
  <2> QED BY <2>5, <2>6
<1> QED BY <1>4, <1>5

\* To the plan, a step is a failure, or an advance.
Follows(s, r) ==
    \/ r.done /\ r.failed
    \/ \E active \in Plan!Outcomes(PlanOf(graph, s)) :
         /\ Plan!Settled(active)
         /\ PlanOf(graph, r) \in {active} \cup
              IF active = << >> THEN {} ELSE Plan!Outcomes(Tail(active))
         /\ Plan!Settled(PlanOf(graph, r))
         /\ OutcomeOf(r) = IF PlanOf(graph, r) = << >> THEN "success" ELSE "running"

LEMMA OnTickPlan ==
    ASSUME IsTree(graph), NEW s \in Stages(graph), s.started, ~s.done, OnTick(graph, s)
    PROVE  /\ s.stack \in Seq(Frames(graph))
           /\ PlanOf(graph, s) = RestOfStack(graph, s.stack)
           /\ PlanOf(graph, s) # << >> /\ Plan!Settled(PlanOf(graph, s))
           /\ Tail(PlanOf(graph, s)) = RestOfStack(graph, Below(s.stack))
           /\ OutcomeOf(s) = "running"
<1>1. PlanOf(graph, s) = RestOfStack(graph, s.stack)
  BY DEF PlanOf
<1>2. s.stack \in Seq(Frames(graph)) /\ Standing(graph, s.stack)
  BY DEF Stages, OnTick
<1>3. Plan!Settled(RestOfStack(graph, s.stack))
  BY <1>2, StandingSettled
<1>4. /\ RestOfStack(graph, s.stack) # << >>
      /\ Tail(RestOfStack(graph, s.stack)) = RestOfStack(graph, Below(s.stack))
  BY <1>2, StandingPlan
<1>5. OutcomeOf(s) = "running"
  BY DEF OutcomeOf
<1> QED BY <1>1, <1>2, <1>3, <1>4, <1>5

LEMMA ControlStepFollows ==
    ASSUME IsTree(graph), MaxDescent \in Nat \ {0}, NEW s, StageOK(graph, s), ~s.done,
           NEW entry, s.started \/ entry \in Conditions, NEW complete, NEW holds \in Conditions
    PROVE  LET r == ControlStep(s, entry, complete, holds)
           IN  StageOK(graph, r) /\ r.started /\ Follows(s, r)
<1> DEFINE mid == Entered(s, entry)
           r == ControlStep(s, entry, complete, holds)
           plan == PlanOf(graph, s)
           active == IF mid.done THEN << >> ELSE PlanOf(graph, mid)
           tail == Plan!Settle(Remaining(graph, First(Ticked(mid), NoNode)), holds)
<1> SUFFICES StageOK(graph, r) /\ r.started /\ Follows(s, r)
  OBVIOUS
<1>1. EntryGoes(s, entry, mid)
  BY EntryFacts
<1>2. Failing(r) \/ Finding(mid, r) \/ Waiting(mid, r) \/ WalkingOn(mid, holds, r)
  BY ControlStepCases
<1> HIDE DEF mid, r
<1>3. CASE Failing(r)
  BY <1>3 DEF Failing, StageOK, Follows
<1>4. mid \in Stages(graph) /\ mid.started /\ mid.ticks \in Nat
  BY <1>1 DEF EntryGoes, Stages
<1>5. ASSUME ~mid.done
      PROVE  /\ OnTick(graph, mid) /\ mid.stack \in Seq(Frames(graph))
             /\ active = RestOfStack(graph, mid.stack) /\ active # << >> /\ Plan!Settled(active)
             /\ Tail(active) = RestOfStack(graph, Below(mid.stack))
  <2>1. OnTick(graph, mid)
    BY <1>1, <1>5 DEF EntryGoes
  <2>2. active = PlanOf(graph, mid)
    BY <1>5
  <2> QED BY <1>4, <1>5, <2>1, <2>2, OnTickPlan
<1>6. ASSUME mid.done => ~mid.failed
      PROVE  active \in Plan!Outcomes(plan) /\ Plan!Settled(active)
  <2>1. CASE ~mid.done /\ s.started
    <3>1. mid = s
      BY <1>1, <2>1 DEF EntryGoes
    <3>2. active = plan
      BY <2>1, <3>1
    <3>3. Plan!Settled(active)
      BY <1>5, <2>1
    <3> QED BY <3>2, <3>3 DEF Plan!Outcomes
  <2>2. CASE ~s.started
    <3>1. active = Plan!Settle(plan, entry)
      <4>1. CASE mid.done
        BY <1>1, <1>6, <4>1 DEF EntryGoes
      <4>2. CASE ~mid.done
        BY <1>1, <1>5, <2>2, <4>2 DEF EntryGoes
      <4> QED BY <4>1, <4>2
    <3>2. Plan!Settled(active)
      <4>1. CASE mid.done
        BY <4>1 DEF Plan!Settled
      <4>2. CASE ~mid.done
        BY <1>5, <4>2
      <4> QED BY <4>1, <4>2
    <3>3. entry \in Conditions
      BY <2>2
    <3> HIDE DEF active, plan
    <3> QED BY <3>1, <3>2, <3>3, SettleIsAnOutcome
  <2>3. CASE mid.done /\ s.started
    BY <1>1, <2>3 DEF EntryGoes
  <2> QED BY <2>1, <2>2, <2>3
<1>7. ASSUME mid.done => ~mid.failed, Plan!Settled(PlanOf(graph, r)),
             PlanOf(graph, r) = active \/ (active # << >> /\ PlanOf(graph, r) \in Plan!Outcomes(Tail(active))),
             OutcomeOf(r) = IF PlanOf(graph, r) = << >> THEN "success" ELSE "running"
      PROVE  Follows(s, r)
  <2>1. active \in Plan!Outcomes(plan) /\ Plan!Settled(active)
    BY <1>6, <1>7
  <2> HIDE DEF active
  <2> QED BY <1>7, <2>1 DEF Follows
<1>8. CASE Finding(mid, r)
  <2>1. r \in Stages(graph) /\ r.started /\ r.done /\ mid.done /\ ~mid.failed /\ ~r.failed
    BY <1>8 DEF Finding
  <2>2. PlanOf(graph, r) = << >> /\ active = << >> /\ OutcomeOf(r) = "success"
    BY <2>1 DEF PlanOf, OutcomeOf
  <2>3. Plan!Settled(PlanOf(graph, r))
    BY <2>2 DEF Plan!Settled
  <2>4. Follows(s, r)
    BY <1>7, <2>1, <2>2, <2>3
  <2> QED BY <2>1, <2>4 DEF StageOK
<1>9. ASSUME Ticking(mid)
      PROVE  /\ ~mid.done /\ Ticked(mid) \in Stages(graph) /\ Ticked(mid).started /\ ~Ticked(mid).done
             /\ Ticked(mid).stack = mid.stack /\ Ticked(mid).ticks = mid.ticks + 1
             /\ Standing(graph, mid.stack)
  <2>1. ~mid.done
    BY <1>9 DEF Ticking
  <2>2. Standing(graph, mid.stack) /\ mid.stack \in Seq(Frames(graph))
    BY <1>5, <2>1 DEF OnTick
  <2> DEFINE n == Top(mid.stack).node
  <2>3. n \in DOMAIN graph /\ mid.ticks + 1 \in Nat
    BY <1>4, <2>2, StageTimeout
  <2> HIDE DEF n
  <2>4. Ticked(mid) = [mid EXCEPT !.ticks = @ + 1, !.scored = n]
    BY DEF Ticked, n
  <2> QED BY <1>4, <2>1, <2>2, <2>3, <2>4 DEF Stages
<1>10. CASE Waiting(mid, r)
  <2>1. r = Ticked(mid) /\ Ticking(mid) /\ ~mid.done
    BY <1>10 DEF Waiting, Ticking
  <2>2. OnTick(graph, r) /\ r \in Stages(graph) /\ r.started /\ ~r.done /\ r.stack = mid.stack
    BY <1>9, <2>1 DEF OnTick, Ticking
  <2>3. /\ PlanOf(graph, r) = RestOfStack(graph, r.stack) /\ PlanOf(graph, r) # << >>
        /\ Plan!Settled(PlanOf(graph, r)) /\ OutcomeOf(r) = "running"
    BY <2>2, OnTickPlan
  <2>4. PlanOf(graph, r) = active
    BY <1>5, <2>1, <2>2, <2>3
  <2> HIDE DEF active
  <2>5. Follows(s, r)
    BY <1>7, <2>1, <2>3, <2>4
  <2> QED BY <2>2, <2>5 DEF StageOK
<1>11. CASE WalkingOn(mid, holds, r)
  <2>1. Ticking(mid) /\ ~mid.done /\ RunGoes(Ticked(mid), NoNode, holds, r)
    BY <1>11 DEF WalkingOn, Ticking
  <2>2. /\ r \in Stages(graph) /\ r.started
        /\ r.done /\ ~r.failed => tail = << >>
        /\ ~r.done => OnTick(graph, r) /\ tail = RestOfStack(graph, r.stack)
    BY <1>9, <2>1 DEF RunGoes
  <2>3. StageOK(graph, r)
    BY <2>2 DEF StageOK
  <2>4. Remaining(graph, First(Ticked(mid), NoNode)) = Tail(active)
    BY <1>5, <1>9, <2>1 DEF Remaining, First
  <2>5. tail \in Plan!Outcomes(Tail(active))
    <3> HIDE DEF active
    <3> QED BY <2>4, SettleIsAnOutcome
  <2>6. active # << >>
    BY <1>5, <2>1
  <2> HIDE DEF active, tail
  <2>7. CASE r.done /\ r.failed
    BY <2>2, <2>3, <2>7 DEF Follows
  <2>8. CASE r.done /\ ~r.failed
    <3>1. PlanOf(graph, r) = tail /\ PlanOf(graph, r) = << >> /\ OutcomeOf(r) = "success"
      BY <2>2, <2>8 DEF PlanOf, OutcomeOf
    <3>2. Plan!Settled(PlanOf(graph, r))
      BY <3>1 DEF Plan!Settled
    <3> QED BY <1>7, <2>1, <2>2, <2>3, <2>5, <2>6, <3>1, <3>2
  <2>9. CASE ~r.done
    <3>1. /\ PlanOf(graph, r) = RestOfStack(graph, r.stack) /\ PlanOf(graph, r) # << >>
          /\ Plan!Settled(PlanOf(graph, r)) /\ OutcomeOf(r) = "running"
      BY <2>2, <2>9, OnTickPlan
    <3> QED BY <1>7, <2>1, <2>2, <2>3, <2>5, <2>6, <2>9, <3>1
  <2> QED BY <2>7, <2>8, <2>9
<1> QED BY <1>2, <1>3, <1>8, <1>10, <1>11

-----------------------------------------------------------------------------
(***************************************************************************)
(* The batch.                                                              *)
(***************************************************************************)
Fields(g, c, over, s, n, h, q, w) ==
    /\ g \in Graphs /\ c \in 0 .. NumEnvs /\ over \subseteq Envs /\ q \subseteq over
    /\ s \in [Envs -> Stages(g)] /\ n \in [Envs -> Nat] /\ h \in [Envs -> Nat]
    /\ w \in [Envs -> Seq(BOOLEAN)]

\* Of one env: no step of its episode is missing from the rows, and all but the last say
\* that it goes on; what ends it puts it on the list of envs to reset, behind the cursor.
Whole(over, n, w) == Len(w) = n /\ \A r \in DOMAIN w : w[r] = (over /\ r = Len(w))
EnvOK(g, c, over, s, n, h, w, e) ==
    /\ StageOK(g, s) /\ h <= HoldTicks /\ h <= n
    /\ over => e < c
    /\ ~over => ~s.done /\ h < HoldTicks
    /\ Whole(over, n, w)

Inv == /\ Fields(graph, cursor, ended, stage, steps, held, quarantined, rows)
       /\ \A e \in Envs :
            EnvOK(graph, cursor, e \in ended, stage[e], steps[e], held[e], rows[e], e)

LEMMA IdleIsOK ==
    ASSUME NEW g \in Graphs, NEW c, NEW e
    PROVE  EnvOK(g, c, FALSE, IdleStage, 0, 0, << >>, e) /\ IdleStage \in Stages(g)
<1>1. IsTree(g) /\ HoldTicks \in Nat \ {0}
  BY GraphsAreTrees, EnvAssumption
<1>2. IdleStage \in Stages(g) /\ StageOK(g, IdleStage)
  BY DEF IdleStage, Stages, StageOK
<1>3. Whole(FALSE, 0, << >>)
  BY DEF Whole
<1>4. ~IdleStage.done
  BY DEF IdleStage
<1>5. 0 <= HoldTicks /\ 0 < HoldTicks /\ 0 <= 0
  BY <1>1
<1>6. EnvOK(g, c, FALSE, IdleStage, 0, 0, << >>, e)
  BY <1>2, <1>3, <1>4, <1>5 DEF EnvOK
<1> QED BY <1>2, <1>6

LEMMA BatchInit == Init => Inv
<1> SUFFICES ASSUME Init PROVE Inv
  OBVIOUS
<1>1. /\ graph \in Graphs /\ cursor = 0 /\ ended = {} /\ quarantined = {}
      /\ stage = [e \in Envs |-> IdleStage] /\ steps = [e \in Envs |-> 0]
      /\ held = [e \in Envs |-> 0] /\ rows = [e \in Envs |-> << >>]
  BY DEF Init
<1>2. IdleStage \in Stages(graph) /\ 0 \in 0 .. NumEnvs /\ << >> \in Seq(BOOLEAN)
  <2>1. IdleStage \in Stages(graph)
    BY <1>1, IdleIsOK
  <2>2. 0 \in 0 .. NumEnvs
    BY EnvAssumption
  <2> QED BY <2>1, <2>2
<1>3. Fields(graph, cursor, ended, stage, steps, held, quarantined, rows)
  BY <1>1, <1>2 DEF Fields
<1>4. ASSUME NEW e \in Envs
      PROVE  EnvOK(graph, cursor, e \in ended, stage[e], steps[e], held[e], rows[e], e)
  <2>1. (e \in ended) = FALSE
    BY <1>1
  <2> QED BY <1>1, <2>1, IdleIsOK
<1> QED BY <1>3, <1>4 DEF Inv

\* What Evaluate does to the env it has come to.
EvaluatesTo(e, over, after, done, holds) ==
    /\ steps' = [steps EXCEPT ![e] = @ + 1]
    /\ held' = [held EXCEPT ![e] = HeldAfter(e, holds)]
    /\ stage' = [stage EXCEPT ![e] = after]
    /\ quarantined' \in {quarantined, quarantined \cup (IF done THEN {e} ELSE {})}
    /\ rows' = IF Records(e \in quarantined', done)
                 THEN [rows EXCEPT ![e] = Append(@, done)] ELSE rows
    /\ ended' = IF done THEN ended \cup {e} ELSE ended
    /\ done \in BOOLEAN
    /\ ~done => HeldAfter(e, holds) < HoldTicks /\ ~after.done

LEMMA EvaluateIs ==
    ASSUME Inv, Evaluate
    PROVE  /\ cursor < NumEnvs /\ cursor' = cursor + 1 /\ UNCHANGED graph /\ cursor \in Envs
           /\ \E holds, complete, done \in BOOLEAN : \E entry : \E conditions \in Conditions :
                /\ stage[cursor].started \/ entry \in Conditions
                /\ EvaluatesTo(cursor, cursor \in ended,
                               ControlStep(stage[cursor], entry, complete, conditions), done, holds)
<1>1. cursor < NumEnvs /\ cursor' = cursor + 1 /\ UNCHANGED graph
  BY DEF Evaluate
<1>2. cursor \in Envs /\ NumEnvs \in Nat \ {0}
  BY <1>1, EnvAssumption DEF Inv, Fields, Envs
<1> DEFINE e == cursor
<1>3. PICK holds \in BOOLEAN, complete \in BOOLEAN, failure \in {"none", "quarantine", "abort"},
           entry \in IF stage[cursor].started THEN {NoConditions} ELSE Conditions,
           conditions \in Conditions :
         LET after == ControlStep(stage[e], entry, complete, conditions)
             done == \/ HeldAfter(e, holds) >= HoldTicks
                     \/ BudgetSpent(steps[e] + 1)
                     \/ after.done \/ failure # "none"
         IN  /\ steps' = [steps EXCEPT ![e] = @ + 1]
             /\ held' = [held EXCEPT ![e] = HeldAfter(e, holds)]
             /\ stage' = [stage EXCEPT ![e] = after]
             /\ quarantined' = IF failure = "quarantine" THEN quarantined \cup {e}
                                                         ELSE quarantined
             /\ rows' = IF Records(e \in quarantined', done)
                          THEN [rows EXCEPT ![e] = Append(@, done)] ELSE rows
             /\ ended' = IF done THEN ended \cup {e} ELSE ended
  BY Zenon DEF Evaluate
<1> DEFINE after == ControlStep(stage[e], entry, complete, conditions)
           done == \/ HeldAfter(e, holds) >= HoldTicks
                   \/ BudgetSpent(steps[e] + 1)
                   \/ after.done \/ failure # "none"
<1>4. stage[cursor].started \/ entry \in Conditions
  BY <1>3
<1>5. done \in BOOLEAN
  OBVIOUS
<1>6. HeldAfter(e, holds) \in Nat /\ HoldTicks \in Nat
  BY <1>2, EnvAssumption DEF HeldAfter, Inv, Fields
<1>7. ~done => HeldAfter(e, holds) < HoldTicks /\ ~after.done
  BY <1>6
<1>8. failure = "quarantine" => done
  OBVIOUS
<1>9. /\ steps' = [steps EXCEPT ![e] = @ + 1]
      /\ held' = [held EXCEPT ![e] = HeldAfter(e, holds)]
      /\ stage' = [stage EXCEPT ![e] = after]
      /\ quarantined' = IF failure = "quarantine" THEN quarantined \cup {e} ELSE quarantined
      /\ rows' = IF Records(e \in quarantined', done)
                   THEN [rows EXCEPT ![e] = Append(@, done)] ELSE rows
      /\ ended' = IF done THEN ended \cup {e} ELSE ended
  BY <1>3, Zenon
<1> HIDE DEF done, after
<1>10. quarantined' \in {quarantined, quarantined \cup (IF done THEN {e} ELSE {})}
  BY <1>8, <1>9
<1>11. EvaluatesTo(cursor, cursor \in ended, after, done, holds)
  BY <1>5, <1>7, <1>9, <1>10 DEF EvaluatesTo
<1> QED BY <1>1, <1>2, <1>4, <1>5, <1>11 DEF after

LEMMA WholeGrows ==
    ASSUME NEW n \in Nat, NEW w \in Seq(BOOLEAN), NEW done \in BOOLEAN, Whole(FALSE, n, w)
    PROVE  Append(w, done) \in Seq(BOOLEAN) /\ Whole(done, n + 1, Append(w, done))
<1> DEFINE l == Append(w, done)
<1>1. /\ l \in Seq(BOOLEAN) /\ Len(l) = Len(w) + 1 /\ Len(w) = n
      /\ \A r \in 1 .. Len(w) : l[r] = w[r]
      /\ l[Len(w) + 1] = done
  BY DEF Whole
<1> HIDE DEF l
<1>2. ASSUME NEW r \in DOMAIN l PROVE l[r] = (done /\ r = Len(l))
  <2>1. r \in 1 .. n + 1
    BY <1>1
  <2>2. CASE r = n + 1
    <3>1. l[r] = done /\ (r = Len(l)) = TRUE
      BY <1>1, <2>2
    <3> QED BY <3>1
  <2>3. CASE r # n + 1
    <3>1. r \in 1 .. n /\ r # Len(l) /\ r \in DOMAIN w
      BY <1>1, <2>1, <2>3
    <3>2. l[r] = w[r] /\ w[r] = FALSE
      BY <1>1, <3>1 DEF Whole
    <3> QED BY <3>1, <3>2
  <2> QED BY <2>2, <2>3
<1>3. Whole(done, n + 1, l)
  BY <1>1, <1>2 DEF Whole
<1> QED BY <1>1, <1>3 DEF l

\* What a step of the batch is to the plan of an env.
LEMMA PlanMoves ==
    ASSUME UNCHANGED graph, NEW d \in Envs
    PROVE  /\ ~stage[d].done /\ Follows(stage[d], stage'[d]) => Plan!Advance(d) \/ Plan!Fail(d)
           /\ stage'[d] = IdleStage => Plan!Restart(d)
           /\ stage'[d] = stage[d] => Plan!Keep(d)
<1> DEFINE todo == [e \in Envs |-> PlanOf(graph, stage[e])]
           outcome == [e \in Envs |-> OutcomeOf(stage[e])]
           s == stage[d]
           r == stage'[d]
           p == PlanOf(graph, s)
           q == PlanOf(graph, r)
<1>1. todo[d] = p /\ outcome[d] = OutcomeOf(s)
  OBVIOUS
<1>2. todo'[d] = q /\ outcome'[d] = OutcomeOf(r)
  <2>1. PlanOf(graph, stage[d])' = PlanOf(graph, stage'[d])
    BY DEF PlanOf, RestOfStack, RestOf, Todo
  <2>2. OutcomeOf(stage[d])' = OutcomeOf(stage'[d])
    BY DEF OutcomeOf
  <2>3. todo' = [e \in Envs |-> PlanOf(graph, stage[e])'] /\ outcome' = [e \in Envs |-> OutcomeOf(stage[e])']
    OBVIOUS
  <2> QED BY <2>1, <2>2, <2>3
<1>3. ASSUME ~s.done, Follows(s, r) PROVE Plan!Advance(d) \/ Plan!Fail(d)
  <2>1. outcome[d] = "running"
    BY <1>1, <1>3 DEF OutcomeOf
  <2>2. CASE r.done /\ r.failed
    <3>1. q = << >> /\ OutcomeOf(r) = "failure"
      BY <2>2 DEF PlanOf, OutcomeOf
    <3>2. todo'[d] = << >> /\ outcome'[d] = "failure"
      BY <1>2, <3>1
    <3> HIDE DEF s, r
    <3> QED BY <2>1, <3>2 DEF Plan!Fail
  <2>3. CASE ~(r.done /\ r.failed)
    <3>1. PICK active \in Plan!Outcomes(p) :
            /\ Plan!Settled(active)
            /\ q \in {active} \cup IF active = << >> THEN {} ELSE Plan!Outcomes(Tail(active))
            /\ Plan!Settled(q)
            /\ OutcomeOf(r) = IF q = << >> THEN "success" ELSE "running"
      BY <1>3, <2>3 DEF Follows
    <3> HIDE DEF s, r, p, q
    <3> QED BY <1>1, <1>2, <2>1, <3>1 DEF Plan!Advance
  <2> QED BY <2>2, <2>3
<1>4. ASSUME r = IdleStage PROVE Plan!Restart(d)
  <2>1. q = <<Todo(Root, 0)>> /\ OutcomeOf(r) = "running"
    BY <1>4 DEF PlanOf, OutcomeOf, IdleStage
  <2>2. Plan!Fresh = <<Todo(Root, 0)>>
    BY DEF Plan!Fresh, Plan!Item, Todo
  <2> HIDE DEF r, q
  <2> QED BY <1>2, <2>1, <2>2 DEF Plan!Restart
<1>5. ASSUME r = s PROVE Plan!Keep(d)
  <2>1. q = p /\ OutcomeOf(r) = OutcomeOf(s)
    BY <1>5
  <2> HIDE DEF r, q, p, s
  <2> QED BY <1>1, <1>2, <2>1 DEF Plan!Keep
<1> QED BY <1>3, <1>4, <1>5

LEMMA BatchConstants ==
    ASSUME Inv
    PROVE  IsTree(graph) /\ MaxDescent \in Nat \ {0} /\ NumEnvs \in Nat \ {0} /\ HoldTicks \in Nat \ {0}
<1>1. graph \in Graphs
  BY DEF Inv, Fields
<1> QED BY <1>1, GraphsAreTrees, EnvAssumption

LEMMA EvaluateKeeps == ASSUME Inv, Evaluate PROVE Inv' /\ Plan!Next
<1> DEFINE e == cursor
<1>1. cursor < NumEnvs /\ cursor' = cursor + 1 /\ UNCHANGED graph /\ e \in Envs
  BY EvaluateIs
<1>2. PICK holds \in BOOLEAN, complete \in BOOLEAN, done \in BOOLEAN :
        \E entry : \E conditions \in Conditions :
          /\ stage[cursor].started \/ entry \in Conditions
          /\ EvaluatesTo(cursor, cursor \in ended,
                         ControlStep(stage[cursor], entry, complete, conditions), done, holds)
  BY EvaluateIs
<1>22. PICK entry :
        \E conditions \in Conditions :
          /\ stage[cursor].started \/ entry \in Conditions
          /\ EvaluatesTo(cursor, cursor \in ended,
                         ControlStep(stage[cursor], entry, complete, conditions), done, holds)
  BY <1>2
<1>3. PICK conditions \in Conditions :
        /\ stage[cursor].started \/ entry \in Conditions
        /\ EvaluatesTo(cursor, cursor \in ended,
                       ControlStep(stage[cursor], entry, complete, conditions), done, holds)
  BY <1>22
<1> DEFINE after == ControlStep(stage[e], entry, complete, conditions)
<1>4. IsTree(graph) /\ MaxDescent \in Nat \ {0} /\ NumEnvs \in Nat \ {0} /\ HoldTicks \in Nat \ {0}
  BY BatchConstants
<1>5. Fields(graph, cursor, ended, stage, steps, held, quarantined, rows)
  BY DEF Inv
<1>6. EnvOK(graph, cursor, e \in ended, stage[e], steps[e], held[e], rows[e], e)
  BY <1>1 DEF Inv
<1>7. e \notin ended /\ ~stage[e].done /\ held[e] < HoldTicks /\ StageOK(graph, stage[e])
  <2>1. e \in Nat
    BY <1>5, <1>4 DEF Fields
  <2> QED BY <1>6, <2>1 DEF EnvOK
<1>8. StageOK(graph, after) /\ after.started /\ Follows(stage[e], after)
  BY <1>3, <1>4, <1>7, ControlStepFollows
<1>9. EvaluatesTo(e, e \in ended, after, done, holds)
  BY <1>3
<1> HIDE DEF after
<1>10. after \in Stages(graph)
  BY <1>8 DEF StageOK
<1>11. rows' = [rows EXCEPT ![e] = Append(@, done)] /\ quarantined' \subseteq ended'
  <2>1. quarantined \subseteq ended
    BY <1>5 DEF Fields
  <2>2. e \in quarantined' => done
    BY <1>7, <1>9, <2>1 DEF EvaluatesTo
  <2>3. Records(e \in quarantined', done)
    BY <2>2 DEF Records
  <2> QED BY <1>9, <2>1, <2>3 DEF EvaluatesTo
<1> DEFINE h == HeldAfter(e, holds)
<1>12. /\ steps' = [steps EXCEPT ![e] = @ + 1] /\ held' = [held EXCEPT ![e] = h]
       /\ stage' = [stage EXCEPT ![e] = after]
       /\ ended' = IF done THEN ended \cup {e} ELSE ended
       /\ ~done => h < HoldTicks /\ ~after.done
  BY <1>9 DEF EvaluatesTo
<1>13. h \in Nat /\ h <= HoldTicks /\ h <= steps[e] + 1
  <2>1. held[e] \in Nat /\ steps[e] \in Nat /\ held[e] <= steps[e]
    BY <1>1, <1>5, <1>6 DEF Fields, EnvOK
  <2> QED BY <1>4, <1>7, <2>1 DEF HeldAfter
<1> HIDE DEF h
<1>14. rows[e] \in Seq(BOOLEAN) /\ steps[e] \in Nat
  BY <1>1, <1>5 DEF Fields
<1>15. Append(rows[e], done) \in Seq(BOOLEAN) /\ Whole(done, steps[e] + 1, Append(rows[e], done))
  <2>1. Whole(FALSE, steps[e], rows[e])
    <3>1. (e \in ended) = FALSE
      BY <1>7
    <3> QED BY <1>6, <3>1 DEF EnvOK
  <2> QED BY <1>14, <2>1, WholeGrows
<1>16. Fields(graph, cursor, ended, stage, steps, held, quarantined, rows)'
  <2>1. graph' \in Graphs /\ cursor' \in 0 .. NumEnvs /\ ended' \subseteq Envs
    BY <1>1, <1>4, <1>5, <1>12 DEF Fields
  <2>2. stage' \in [Envs -> Stages(graph')]
    BY <1>1, <1>5, <1>10, <1>12 DEF Fields
  <2>3. steps' \in [Envs -> Nat] /\ held' \in [Envs -> Nat]
    <3>1. steps \in [Envs -> Nat] /\ held \in [Envs -> Nat] /\ steps[e] + 1 \in Nat
      BY <1>5, <1>14 DEF Fields
    <3>2. steps' \in [Envs -> Nat]
      BY <1>12, <3>1
    <3>3. held' \in [Envs -> Nat]
      BY <1>12, <1>13, <3>1
    <3> QED BY <3>2, <3>3
  <2>4. rows' \in [Envs -> Seq(BOOLEAN)]
    BY <1>5, <1>11, <1>15 DEF Fields
  <2> QED BY <1>11, <2>1, <2>2, <2>3, <2>4 DEF Fields
<1>17. /\ stage'[e] = after /\ steps'[e] = steps[e] + 1 /\ held'[e] = h
       /\ rows'[e] = Append(rows[e], done)
       /\ \A d \in Envs : d # e => /\ stage'[d] = stage[d] /\ steps'[d] = steps[d]
                                   /\ held'[d] = held[d] /\ rows'[d] = rows[d]
                                   /\ d \in ended' <=> d \in ended
  BY <1>1, <1>5, <1>11, <1>12 DEF Fields
<1>18. ASSUME NEW d \in Envs
       PROVE  EnvOK(graph', cursor', d \in ended', stage'[d], steps'[d], held'[d], rows'[d], d)
  <2>1. CASE d = e
    <3>1. (e \in ended') = done
      BY <1>7, <1>12
    <3>2. e < cursor'
      BY <1>1, <1>4, <1>5 DEF Fields
    <3>3. EnvOK(graph, cursor', done, after, steps[e] + 1, h, Append(rows[e], done), e)
      BY <1>8, <1>12, <1>13, <1>15, <3>2 DEF EnvOK
    <3> QED BY <1>1, <1>17, <2>1, <3>1, <3>3
  <2>2. CASE d # e
    <3>1. EnvOK(graph, cursor, d \in ended, stage[d], steps[d], held[d], rows[d], d)
      BY DEF Inv
    <3>2. d < cursor => d < cursor'
      BY <1>1, <1>4, <1>5 DEF Fields, Envs
    <3>3. EnvOK(graph, cursor', d \in ended, stage[d], steps[d], held[d], rows[d], d)
      BY <3>1, <3>2 DEF EnvOK
    <3>4. (d \in ended') = (d \in ended)
      BY <1>17, <2>2
    <3> QED BY <1>1, <1>17, <2>2, <3>3, <3>4
  <2> QED BY <2>1, <2>2
<1>19. Inv'
  BY <1>16, <1>18 DEF Inv
<1>20. ASSUME NEW d \in Envs PROVE Plan!Keep(d) \/ Plan!Advance(d) \/ Plan!Fail(d) \/ Plan!Restart(d)
  <2>1. CASE d = e
    BY <1>1, <1>7, <1>8, <1>17, <2>1, PlanMoves
  <2>2. CASE d # e
    BY <1>1, <1>17, <2>2, PlanMoves
  <2> QED BY <2>1, <2>2
<1>21. Plan!Next
  BY <1>1, <1>20 DEF Plan!Next
<1> QED BY <1>19, <1>21

LEMMA ResetEnvsKeeps ==
    ASSUME Inv, NEW envs \in SUBSET Envs, ended \subseteq envs, ResetEnvs(envs), UNCHANGED graph,
           cursor' = 0, ended' = {}
    PROVE  Inv' /\ Plan!Next
<1>1. /\ steps' = [e \in Envs |-> IF e \in envs THEN 0 ELSE steps[e]]
      /\ held' = [e \in Envs |-> IF e \in envs THEN 0 ELSE held[e]]
      /\ quarantined' = quarantined \ envs
      /\ stage' = [e \in Envs |-> IF e \in envs THEN IdleStage ELSE stage[e]]
      /\ rows' = [e \in Envs |-> IF e \in envs THEN << >> ELSE rows[e]]
  BY DEF ResetEnvs, Zeroed
<1>2. Fields(graph, cursor, ended, stage, steps, held, quarantined, rows)
  BY DEF Inv
<1>3. NumEnvs \in Nat \ {0} /\ graph \in Graphs /\ IdleStage \in Stages(graph)
  BY <1>2, BatchConstants, IdleIsOK DEF Fields
<1>4. Fields(graph, cursor, ended, stage, steps, held, quarantined, rows)'
  <2>1. graph' \in Graphs /\ cursor' \in 0 .. NumEnvs /\ ended' \subseteq Envs /\ quarantined' \subseteq ended'
    BY <1>1, <1>2, <1>3 DEF Fields
  <2>2. stage' \in [Envs -> Stages(graph')]
    BY <1>1, <1>2, <1>3 DEF Fields
  <2>3. steps' \in [Envs -> Nat] /\ held' \in [Envs -> Nat]
    <3>1. steps \in [Envs -> Nat] /\ held \in [Envs -> Nat] /\ 0 \in Nat
      BY <1>2 DEF Fields
    <3>2. steps' \in [Envs -> Nat]
      BY <1>1, <3>1
    <3>3. held' \in [Envs -> Nat]
      BY <1>1, <3>1
    <3> QED BY <3>2, <3>3
  <2>4. << >> \in Seq(BOOLEAN)
    OBVIOUS
  <2>5. rows' \in [Envs -> Seq(BOOLEAN)]
    BY <1>1, <1>2, <2>4 DEF Fields
  <2> QED BY <2>1, <2>2, <2>3, <2>5 DEF Fields
<1>5. ASSUME NEW d \in Envs
      PROVE  EnvOK(graph', cursor', d \in ended', stage'[d], steps'[d], held'[d], rows'[d], d)
  <2>1. (d \in ended') = FALSE
    OBVIOUS
  <2>2. CASE d \in envs
    <3>1. EnvOK(graph, 0, FALSE, IdleStage, 0, 0, << >>, d)
      BY <1>3, IdleIsOK
    <3>2. stage'[d] = IdleStage /\ steps'[d] = 0 /\ held'[d] = 0 /\ rows'[d] = << >>
      BY <1>1, <2>2
    <3> QED BY <2>1, <3>1, <3>2
  <2>3. CASE d \notin envs
    <3>1. EnvOK(graph, cursor, d \in ended, stage[d], steps[d], held[d], rows[d], d)
      BY DEF Inv
    <3>2. (d \in ended) = FALSE
      BY <2>3
    <3>3. EnvOK(graph, cursor, FALSE, stage[d], steps[d], held[d], rows[d], d)
      BY <3>1, <3>2
    <3>4. EnvOK(graph, 0, FALSE, stage[d], steps[d], held[d], rows[d], d)
      BY <3>3 DEF EnvOK
    <3>5. stage'[d] = stage[d] /\ steps'[d] = steps[d] /\ held'[d] = held[d] /\ rows'[d] = rows[d]
      BY <1>1, <2>3
    <3> QED BY <2>1, <3>4, <3>5
  <2> QED BY <2>2, <2>3
<1>6. Inv'
  BY <1>4, <1>5 DEF Inv
<1>7. ASSUME NEW d \in Envs PROVE Plan!Keep(d) \/ Plan!Restart(d)
  <2>1. stage'[d] = IF d \in envs THEN IdleStage ELSE stage[d]
    BY <1>1
  <2> QED BY <2>1, PlanMoves
<1>8. Plan!Next
  BY <1>7 DEF Plan!Next
<1> QED BY <1>6, <1>8

LEMMA StepKeeps == ASSUME Inv, Next PROVE Inv' /\ Plan!Next
<1>1. CASE Evaluate
  BY <1>1, EvaluateKeeps
<1>2. CASE CloseStep
  <2>1. ResetEnvs(ended) /\ UNCHANGED graph /\ cursor' = 0 /\ ended' = {}
    BY <1>2 DEF CloseStep, Closing
  <2>2. ended \in SUBSET Envs
    BY DEF Inv, Fields
  <2> QED BY <2>1, <2>2, ResetEnvsKeeps
<1>3. CASE Reset
  <2>1. cursor = 0 /\ UNCHANGED <<graph, cursor, ended>>
    BY <1>3 DEF Reset
  <2>2. PICK envs \in SUBSET Envs : ResetEnvs(envs)
    BY <1>3 DEF Reset
  <2>3. ended = {}
    <3> SUFFICES ASSUME NEW d \in ended PROVE FALSE
      OBVIOUS
    <3>1. d \in Envs /\ NumEnvs \in Nat
      BY BatchConstants DEF Inv, Fields
    <3>2. EnvOK(graph, cursor, d \in ended, stage[d], steps[d], held[d], rows[d], d)
      BY <3>1 DEF Inv
    <3>3. d < 0 /\ d >= 0
      BY <2>1, <3>1, <3>2 DEF EnvOK, Envs
    <3> QED BY <3>1, <3>3 DEF Envs
  <2> QED BY <2>1, <2>2, <2>3, ResetEnvsKeeps
<1> QED BY <1>1, <1>2, <1>3 DEF Next

LEMMA StutterKeeps == ASSUME Inv, UNCHANGED vars PROVE Inv'
BY DEF vars, Inv

-----------------------------------------------------------------------------
(***************************************************************************)
(* The theorems.                                                           *)
(***************************************************************************)
LEMMA InvGivesTypes == Inv => TypeOK
<1> SUFFICES ASSUME Inv PROVE TypeOK
  OBVIOUS
<1>1. Fields(graph, cursor, ended, stage, steps, held, quarantined, rows)
  BY DEF Inv
<1>2. ASSUME NEW e \in Envs
      PROVE  /\ steps[e] \in Nat /\ held[e] \in 0 .. HoldTicks /\ held[e] <= steps[e]
             /\ rows[e] \in Seq(BOOLEAN)
             /\ stage[e].done => e \in ended
  <2>1. EnvOK(graph, cursor, e \in ended, stage[e], steps[e], held[e], rows[e], e)
    BY DEF Inv
  <2>2. steps[e] \in Nat /\ held[e] \in Nat /\ rows[e] \in Seq(BOOLEAN) /\ HoldTicks \in Nat
    BY <1>1, BatchConstants DEF Fields
  <2> QED BY <2>1, <2>2 DEF EnvOK
<1> QED BY <1>1, <1>2 DEF TypeOK, Fields

LEMMA InvGivesWhole == Inv => EpisodesWhole
<1> SUFFICES ASSUME Inv, NEW e \in Envs
             PROVE  /\ Len(rows[e]) = steps[e]
                    /\ \A r \in DOMAIN rows[e] : rows[e][r] = (e \in ended /\ r = Len(rows[e]))
  BY DEF EpisodesWhole
<1>1. Whole(e \in ended, steps[e], rows[e])
  BY DEF Inv, EnvOK
<1> QED BY <1>1 DEF Whole

LEMMA InvIsInvariant == Spec => []Inv
<1>1. Inv /\ [Next]_vars => Inv'
  BY StepKeeps, StutterKeeps
<1> QED BY <1>1, BatchInit, PTL DEF Spec

\* Env::step: an env is in the list of those to reset as soon as its stage machine is
\* done, the hold counter of its termination never passes the ticks it has to hold, nor
\* the steps of the episode, whatever the batch, the control graphs and the conditions.
THEOREM EnvsTyped == Spec => []TypeOK
BY InvIsInvariant, InvGivesTypes, PTL

\* The recorder has every step of the open episode of every env, quarantined ones
\* included, and the end of an episode is on its last row only.
THEOREM EpisodesAlwaysWhole == Spec => []EpisodesWhole
BY InvIsInvariant, InvGivesWhole, PTL

LEMMA PlanStarts == Init => Plan!Init
<1> SUFFICES ASSUME Init PROVE Plan!Init
  OBVIOUS
<1>1. stage = [e \in Envs |-> IdleStage]
  BY DEF Init
<1>2. ASSUME NEW e \in Envs
      PROVE  PlanOf(graph, stage[e]) = Plan!Fresh /\ OutcomeOf(stage[e]) = "running"
  <2>1. stage[e] = IdleStage
    BY <1>1
  <2>2. PlanOf(graph, IdleStage) = <<Todo(Root, 0)>> /\ OutcomeOf(IdleStage) = "running"
    BY DEF PlanOf, OutcomeOf, IdleStage
  <2> QED BY <2>1, <2>2 DEF Plan!Fresh, Plan!Item, Todo
<1> QED BY <1>2 DEF Plan!Init

\* The stack machine of every env implements the plan of its control graph: any tree the
\* validation accepts, any conditions at any of its nodes, any resets in between.
THEOREM StagesAlwaysFollowPlan == Spec => StagesFollowPlan
<1> DEFINE view == <<graph, [e \in Envs |-> PlanOf(graph, stage[e])],
                     [e \in Envs |-> OutcomeOf(stage[e])]>>
<1>1. ASSUME Inv, [Next]_vars PROVE [Plan!Next]_view
  <2>1. CASE Next
    BY <2>1, <1>1, StepKeeps
  <2>2. CASE UNCHANGED vars
    <3>1. graph' = graph /\ stage' = stage
      BY <2>2 DEF vars
    <3>2. UNCHANGED view
      BY <3>1 DEF PlanOf, OutcomeOf, RestOfStack, RestOf, Todo
    <3> QED BY <3>2
  <2> QED BY <1>1, <2>1, <2>2
<1> QED BY <1>1, InvIsInvariant, PlanStarts, PTL DEF Spec, StagesFollowPlan, Plan!Spec

-----------------------------------------------------------------------------
(***************************************************************************)
(* Sums.                                                                   *)
(***************************************************************************)
IsTotal(s, t) ==
    /\ t \in [0 .. Len(s) -> Nat] /\ t[0] = 0
    /\ \A k \in 1 .. Len(s) : t[k] = t[k - 1] + s[k]
    /\ Total(s) = t[Len(s)]

LEMMA TotalIs == ASSUME NEW s \in Seq(Nat) PROVE \E t : IsTotal(s, t)
<1> DEFINE N == Len(s)
           F(h) == [k \in 0 .. N |-> IF k = 0 THEN 0 ELSE h[k - 1] + s[k]]
           Loop(h, m) == h[0] = 0 /\ \A k \in 1 .. m : h[k] = h[k - 1] + s[k]
           T == {m \in 0 .. N : \E h \in [0 .. m -> Nat] : Loop(h, m)}
<1>1. N \in Nat /\ \A k \in 1 .. N : s[k] \in Nat
  OBVIOUS
<1>2. Total(s) = (CHOOSE h : h = F(h))[N]
  BY DEF Total
<1> HIDE DEF N
<1>3. 0 \in T
  <2> DEFINE z == [k \in 0 .. 0 |-> 0]
  <2>1. z \in [0 .. 0 -> Nat] /\ Loop(z, 0)
    OBVIOUS
  <2>2. 0 \in 0 .. N
    BY <1>1
  <2> HIDE DEF z, Loop
  <2> QED BY <2>1, <2>2
<1>4. ASSUME NEW m \in 1 .. N, m - 1 \in T PROVE m \in T
  <2>1. PICK h \in [0 .. m - 1 -> Nat] : Loop(h, m - 1)
    BY <1>4
  <2> DEFINE x == h[m - 1] + s[m]
             l == [k \in 0 .. m |-> IF k = m THEN x ELSE h[k]]
  <2>2. m - 1 \in 0 .. m - 1 /\ m \in Nat /\ m \in 0 .. N
    BY <1>1
  <2>3. h[m - 1] \in Nat /\ s[m] \in Nat
    BY <1>1, <2>2
  <2>4. x \in Nat
    BY <2>3
  <2> HIDE DEF x
  <2>5. l \in [0 .. m -> Nat] /\ l[m] = x /\ \A k \in 0 .. m - 1 : l[k] = h[k]
    BY <2>2, <2>4
  <2> HIDE DEF l
  <2>6. \A k \in 1 .. m : l[k] = l[k - 1] + s[k]
    <3> SUFFICES ASSUME NEW k \in 1 .. m PROVE l[k] = l[k - 1] + s[k]
      OBVIOUS
    <3>1. CASE k = m
      BY <2>2, <2>5, <3>1 DEF x
    <3>2. CASE k # m
      <4>1. k \in 1 .. m - 1 /\ k \in 0 .. m - 1 /\ k - 1 \in 0 .. m - 1
        BY <2>2, <3>2
      <4> QED BY <2>1, <2>5, <4>1
    <3> QED BY <3>1, <3>2
  <2>7. Loop(l, m)
    BY <2>1, <2>2, <2>5, <2>6
  <2> HIDE DEF Loop
  <2> QED BY <2>2, <2>5, <2>7
<1>5. N \in T
  <2> HIDE DEF T
  <2>1. 0 .. N \subseteq T
    BY <1>1, <1>3, <1>4, Climbs
  <2> QED BY <1>1, <2>1
<1>6. PICK h \in [0 .. N -> Nat] : Loop(h, N)
  BY <1>5
<1>7. h = F(h)
  <2>1. \A k \in 0 .. N : h[k] = IF k = 0 THEN 0 ELSE h[k - 1] + s[k]
    BY <1>1, <1>6
  <2> QED BY <1>6, <2>1
<1> DEFINE t == CHOOSE f : f = F(f)
<1>8. t = F(t)
  BY <1>7
<1> HIDE DEF t
<1>9. t = [k \in 0 .. N |-> t[k]] /\ t[0] = 0 /\ \A k \in 1 .. N : t[k] = t[k - 1] + s[k]
  <2>1. t = [k \in 0 .. N |-> t[k]] /\ \A k \in 0 .. N : t[k] = IF k = 0 THEN 0 ELSE t[k - 1] + s[k]
    BY <1>8
  <2>2. 0 \in 0 .. N /\ \A k \in 1 .. N : k \in 0 .. N /\ k # 0
    BY <1>1
  <2> QED BY <2>1, <2>2
<1>10. \A k \in 0 .. N : t[k] \in Nat
  <2> DEFINE U == {k \in 0 .. N : t[k] \in Nat}
  <2>1. 0 \in U
    BY <1>1, <1>9
  <2>2. ASSUME NEW k \in 1 .. N, k - 1 \in U PROVE k \in U
    <3>1. k \in 0 .. N /\ t[k - 1] \in Nat /\ s[k] \in Nat
      BY <1>1, <2>2
    <3>2. t[k] = t[k - 1] + s[k]
      BY <1>9
    <3>3. t[k] \in Nat
      <4> DEFINE x == t[k - 1]
                 y == s[k]
      <4>1. x \in Nat /\ y \in Nat /\ t[k] = x + y
        BY <3>1, <3>2
      <4> HIDE DEF x, y
      <4> QED BY <4>1
    <3> QED BY <3>1, <3>3
  <2> HIDE DEF U
  <2>3. 0 .. N \subseteq U
    BY <1>1, <2>1, <2>2, Climbs
  <2> QED BY <2>3 DEF U
<1>11. Total(s) = t[N]
  BY <1>2 DEF t
<1>12. t \in [0 .. N -> Nat]
  BY <1>9, <1>10
<1> QED BY <1>9, <1>11, <1>12 DEF IsTotal, N

LEMMA TotalTyped == ASSUME NEW s \in Seq(Nat) PROVE Total(s) \in Nat /\ Total(<< >>) = 0
<1>1. PICK t : IsTotal(s, t)
  BY TotalIs
<1>2. Len(s) \in 0 .. Len(s)
  OBVIOUS
<1>3. PICK z : IsTotal(<< >>, z)
  <2>1. << >> \in Seq(Nat)
    OBVIOUS
  <2> QED BY <2>1, TotalIs
<1> QED BY <1>1, <1>2, <1>3 DEF IsTotal

LEMMA TotalOfConcat ==
    ASSUME NEW a \in Seq(Nat), NEW b \in Seq(Nat)
    PROVE  Total(a \o b) = Total(a) + Total(b)
<1> DEFINE c == a \o b
           M == Len(a)
           N == Len(b)
<1>1. /\ c \in Seq(Nat) /\ Len(c) = M + N /\ M \in Nat /\ N \in Nat
      /\ \A k \in 1 .. M : c[k] = a[k]
      /\ \A k \in 1 .. N : c[M + k] = b[k]
  OBVIOUS
<1>2. PICK t : IsTotal(a, t)
  BY TotalIs
<1>3. PICK u : IsTotal(b, u)
  BY TotalIs
<1> HIDE DEF c
<1>4. PICK v : IsTotal(c, v)
  BY <1>1, TotalIs
<1>8. t[M] \in Nat /\ u[0] = 0 /\ \A k \in 0 .. N : u[k] \in Nat
  <2>1. M \in 0 .. M
    BY <1>1
  <2> QED BY <1>2, <1>3, <2>1 DEF IsTotal
<1>5. v[M] = t[M]
  <2> DEFINE T == {k \in 0 .. M : v[k] = t[k]}
  <2>1. 0 \in T
    BY <1>1, <1>2, <1>4 DEF IsTotal
  <2>2. ASSUME NEW k \in 1 .. M, k - 1 \in T PROVE k \in T
    <3>1. k \in 1 .. Len(c) /\ k \in 0 .. M
      BY <1>1
    <3>2. v[k] = v[k - 1] + c[k] /\ t[k] = t[k - 1] + a[k]
      BY <1>2, <1>4, <3>1 DEF IsTotal
    <3> QED BY <1>1, <2>2, <3>1, <3>2
  <2> HIDE DEF T, M
  <2>3. 0 .. M \subseteq T
    BY <1>1, <2>1, <2>2, Climbs
  <2> QED BY <1>1, <2>3 DEF T
<1>6. v[M + N] = t[M] + u[N]
  <2> DEFINE T == {k \in 0 .. N : v[M + k] = t[M] + u[k]}
  <2>1. 0 \in T
    <3>1. M + 0 = M /\ 0 \in 0 .. N
      BY <1>1
    <3> QED BY <1>8, <1>5, <3>1
  <2>2. ASSUME NEW k \in 1 .. N, k - 1 \in T PROVE k \in T
    <3>1. M + k \in 1 .. Len(c) /\ k \in 0 .. N /\ (M + k) - 1 = M + (k - 1) /\ k - 1 \in 0 .. N
      BY <1>1
    <3>2. v[M + k] = v[(M + k) - 1] + c[M + k]
      BY <1>4, <3>1 DEF IsTotal
    <3>3. u[k] = u[k - 1] + b[k]
      BY <1>3 DEF IsTotal
    <3>4. t[M] \in Nat /\ u[k - 1] \in Nat /\ b[k] \in Nat
      <4>1. b[k] \in Nat
        <5>1. k \in 1 .. Len(b)
          OBVIOUS
        <5> HIDE DEF N, M, T
        <5> QED BY <5>1
      <4> HIDE DEF N
      <4>2. t[M] \in Nat /\ u[k - 1] \in Nat
        BY <1>8, <3>1
      <4> QED BY <4>1, <4>2
    <3>5. v[M + (k - 1)] = t[M] + u[k - 1]
      BY <2>2
    <3>6. v[M + k] = (t[M] + u[k - 1]) + b[k]
      BY <1>1, <3>1, <3>2, <3>5
    <3>7. v[M + k] = t[M] + u[k]
      BY <3>3, <3>4, <3>6
    <3> QED BY <3>1, <3>7
  <2> HIDE DEF T, N
  <2>3. 0 .. N \subseteq T
    BY <1>1, <2>1, <2>2, Climbs
  <2> QED BY <1>1, <2>3 DEF T
<1>7. Total(c) = v[M + N] /\ Total(a) = t[M] /\ Total(b) = u[N]
  BY <1>1, <1>2, <1>3, <1>4 DEF IsTotal
<1> QED BY <1>6, <1>7 DEF c

-----------------------------------------------------------------------------
(***************************************************************************)
(* The budget of a tree: its equation has a solution, and one only, for    *)
(* no chain of children comes back to where it began.                      *)
(***************************************************************************)
IsAcyclic(g) ==
    \A S \in (SUBSET DOMAIN g) \ {{}} :
      \E n \in S : \A i \in 1 .. Len(Children(g, n)) : Children(g, n)[i] \notin S

LEMMA GraphsAreAcyclic == ASSUME NEW g \in Graphs PROVE IsAcyclic(g)
<1> SUFFICES ASSUME NEW S \in (SUBSET DOMAIN g) \ {{}}
             PROVE  \E n \in S : \A i \in 1 .. Len(Children(g, n)) : Children(g, n)[i] \notin S
  BY DEF IsAcyclic
<1>1. PICK n \in S : \A i \in DOMAIN g[n].children : g[n].children[i] \notin S
  BY ControlAssumption
<1>2. Children(g, n) \in Seq(DOMAIN g)
  BY GraphsAreTrees DEF IsTree
<1>3. DOMAIN Children(g, n) = 1 .. Len(Children(g, n))
  BY <1>2
<1> QED BY <1>1, <1>3 DEF Children

\* By the kind of the node, and from its children alone.
BudgetsOf(g, b, n) == [i \in 1 .. Len(Children(g, n)) |-> b[Children(g, n)[i]]]

LEMMA CostsAre ==
    ASSUME NEW g, IsTree(g), NEW n \in DOMAIN g, NEW b
    PROVE  /\ IsStage(g, n) => BudgetFrom(g, b, n) = g[n].timeout - 1
           /\ g[n].kind = "Sequence" => BudgetFrom(g, b, n) = Total(BudgetsOf(g, b, n))
           /\ g[n].kind = "Branch" =>
                BudgetFrom(g, b, n) = IF BudgetsOf(g, b, n)[1] > BudgetsOf(g, b, n)[2]
                                   THEN BudgetsOf(g, b, n)[1] ELSE BudgetsOf(g, b, n)[2]
           /\ g[n].kind = "Repeat" => BudgetFrom(g, b, n) = g[n].count * BudgetsOf(g, b, n)[1]
<1> DEFINE children == Children(g, n)
<1>1. DOMAIN children = 1 .. Len(children) /\ Len(children) \in Nat
  <2>1. children \in Seq(DOMAIN g)
    BY DEF IsTree
  <2> QED BY <2>1
<1>2. \A i \in 1 .. Len(children) : BudgetsOf(g, b, n)[i] = b[children[i]]
  BY DEF BudgetsOf
<1>3. ASSUME g[n].kind = "Sequence" PROVE BudgetFrom(g, b, n) = Total(BudgetsOf(g, b, n))
  BY <1>1, <1>3 DEF BudgetFrom, BudgetsOf, Children
<1>4. ASSUME g[n].kind = "Branch"
      PROVE  BudgetFrom(g, b, n) = IF BudgetsOf(g, b, n)[1] > BudgetsOf(g, b, n)[2]
                                THEN BudgetsOf(g, b, n)[1] ELSE BudgetsOf(g, b, n)[2]
  <2>1. 1 \in 1 .. Len(children) /\ 2 \in 1 .. Len(children)
    <3>1. Len(children) = 2
      BY <1>4 DEF IsTree
    <3> QED BY <3>1
  <2>2. BudgetsOf(g, b, n)[1] = b[children[1]] /\ BudgetsOf(g, b, n)[2] = b[children[2]]
    BY <1>2, <2>1
  <2>3. BudgetFrom(g, b, n) = IF b[children[1]] > b[children[2]] THEN b[children[1]] ELSE b[children[2]]
    BY <1>4 DEF BudgetFrom, Children
  <2> QED BY <2>2, <2>3
<1>5. ASSUME g[n].kind = "Repeat" PROVE BudgetFrom(g, b, n) = g[n].count * BudgetsOf(g, b, n)[1]
  <2>1. 1 \in 1 .. Len(children)
    <3>1. Len(children) = 1
      BY <1>5 DEF IsTree
    <3> QED BY <3>1
  <2>2. BudgetsOf(g, b, n)[1] = b[children[1]]
    BY <1>2, <2>1
  <2>3. BudgetFrom(g, b, n) = g[n].count * b[children[1]]
    BY <1>5 DEF BudgetFrom, Children
  <2> QED BY <2>2, <2>3
<1> QED BY <1>3, <1>4, <1>5 DEF BudgetFrom, IsStage

LEMMA CostsLocal ==
    ASSUME NEW g, IsTree(g), NEW n \in DOMAIN g, NEW b, NEW c,
           \A i \in 1 .. Len(Children(g, n)) : b[Children(g, n)[i]] = c[Children(g, n)[i]]
    PROVE  BudgetFrom(g, b, n) = BudgetFrom(g, c, n)
<1>1. BudgetsOf(g, b, n) = BudgetsOf(g, c, n)
  BY DEF BudgetsOf
<1>2. g[n].kind \in {"Sequence", "Branch", "Repeat", "SubTask"}
  BY DEF IsTree
<1>3. CASE IsStage(g, n)
  BY <1>3, CostsAre
<1>4. CASE g[n].kind = "Sequence"
  BY <1>1, <1>4, CostsAre
<1>5. CASE g[n].kind = "Branch"
  BY <1>1, <1>5, CostsAre
<1>6. CASE g[n].kind = "Repeat"
  BY <1>1, <1>6, CostsAre
<1> QED BY <1>2, <1>3, <1>4, <1>5, <1>6 DEF IsStage

LEMMA CostsTyped ==
    ASSUME NEW g, IsTree(g), NEW n \in DOMAIN g, NEW b,
           \A i \in 1 .. Len(Children(g, n)) : b[Children(g, n)[i]] \in Nat
    PROVE  BudgetFrom(g, b, n) \in Nat /\ BudgetsOf(g, b, n) \in Seq(Nat)
<1> DEFINE N == Len(Children(g, n))
<1>1. N \in Nat
  BY DEF IsTree
<1>2. BudgetsOf(g, b, n) \in [1 .. N -> Nat]
  BY DEF BudgetsOf
<1> HIDE DEF N
<1>3. BudgetsOf(g, b, n) \in Seq(Nat)
  BY <1>1, <1>2
<1>4. /\ g[n].kind \in {"Sequence", "Branch", "Repeat", "SubTask"}
      /\ g[n].kind = "Branch" => N = 2
      /\ g[n].kind = "Repeat" => N = 1
      /\ g[n].count \in Nat
      /\ IsStage(g, n) => g[n].timeout \in Nat \ {0}
  BY DEF IsTree, IsStage, N
<1>5. CASE IsStage(g, n)
  <2>1. BudgetFrom(g, b, n) = g[n].timeout - 1
    BY <1>5, CostsAre
  <2> QED BY <1>3, <1>4, <1>5, <2>1
<1>6. CASE g[n].kind = "Sequence"
  <2>1. BudgetFrom(g, b, n) = Total(BudgetsOf(g, b, n))
    BY <1>6, CostsAre
  <2> QED BY <1>3, <2>1, TotalTyped
<1>7. CASE g[n].kind = "Branch"
  <2>1. BudgetsOf(g, b, n)[1] \in Nat /\ BudgetsOf(g, b, n)[2] \in Nat
    BY <1>2, <1>4, <1>7
  <2>2. BudgetFrom(g, b, n) = IF BudgetsOf(g, b, n)[1] > BudgetsOf(g, b, n)[2]
                           THEN BudgetsOf(g, b, n)[1] ELSE BudgetsOf(g, b, n)[2]
    BY <1>7, CostsAre
  <2> QED BY <1>3, <2>1, <2>2
<1>8. CASE g[n].kind = "Repeat"
  <2>1. BudgetsOf(g, b, n)[1] \in Nat
    BY <1>2, <1>4, <1>8
  <2>2. BudgetFrom(g, b, n) = g[n].count * BudgetsOf(g, b, n)[1]
    BY <1>8, CostsAre
  <2>3. \A x, y \in Nat : x * y \in Nat
    OBVIOUS
  <2> QED BY <1>3, <1>4, <2>1, <2>2, <2>3
<1> QED BY <1>4, <1>5, <1>6, <1>7, <1>8 DEF IsStage

\* A set of nodes that has the children of its nodes, and budgets for them.
Solves(g, C, b) ==
    /\ C \subseteq DOMAIN g /\ b \in [C -> Nat]
    /\ \A n \in C : /\ \A i \in 1 .. Len(Children(g, n)) : Children(g, n)[i] \in C
                    /\ b[n] = BudgetFrom(g, b, n)

LEMMA SolutionsAgree ==
    ASSUME NEW g, IsTree(g), IsAcyclic(g), NEW C, NEW b, Solves(g, C, b),
           NEW D, NEW d, Solves(g, D, d)
    PROVE  \A n \in C \cap D : b[n] = d[n]
<1> DEFINE S == {n \in C \cap D : b[n] # d[n]}
<1> SUFFICES ASSUME S # {} PROVE FALSE
  OBVIOUS
<1>1. S \in (SUBSET DOMAIN g) \ {{}}
  BY DEF Solves
<1>2. PICK n \in S : \A i \in 1 .. Len(Children(g, n)) : Children(g, n)[i] \notin S
  BY <1>1 DEF IsAcyclic
<1>3. n \in C /\ n \in D /\ n \in DOMAIN g /\ b[n] # d[n]
  BY <1>1, <1>2
<1>4. \A i \in 1 .. Len(Children(g, n)) : b[Children(g, n)[i]] = d[Children(g, n)[i]]
  BY <1>2, <1>3 DEF Solves
<1>5. BudgetFrom(g, b, n) = BudgetFrom(g, d, n)
  BY <1>3, <1>4, CostsLocal
<1> QED BY <1>3, <1>5 DEF Solves

LEMMA SolutionExists ==
    ASSUME NEW g, IsTree(g), IsAcyclic(g)
    PROVE  \E b : Solves(g, DOMAIN g, b)
<1> DEFINE All == {C \in SUBSET DOMAIN g : \E b : Solves(g, C, b)}
           U == UNION All
           IsBudget(n, v) == \E C \in All : n \in C /\ \E b : Solves(g, C, b) /\ v = b[n]
           f == [n \in U |-> CHOOSE v : IsBudget(n, v)]
<1>1. ASSUME NEW C, NEW b, Solves(g, C, b)
      PROVE  C \subseteq U /\ \A n \in C : f[n] = b[n]
  <2>1. C \in All
    BY <1>1 DEF Solves
  <2>2. C \subseteq U
    BY <2>1
  <2>3. ASSUME NEW n \in C PROVE f[n] = b[n]
    <3>1. IsBudget(n, b[n])
      BY <1>1, <2>1
    <3>2. f[n] = CHOOSE v : IsBudget(n, v)
      BY <2>2
    <3>3. IsBudget(n, f[n])
      <4> HIDE DEF f, U
      <4> QED BY <3>1, <3>2
    <3>4. PICK D \in All : n \in D /\ \E d : Solves(g, D, d) /\ f[n] = d[n]
      BY <3>3
    <3>5. PICK d : Solves(g, D, d) /\ f[n] = d[n]
      BY <3>4
    <3> QED BY <1>1, <3>4, <3>5, SolutionsAgree
  <2> QED BY <2>2, <2>3
<1>2. U \subseteq DOMAIN g
  OBVIOUS
<1>3. DOMAIN f = U /\ f = [n \in U |-> f[n]]
  OBVIOUS
<1> HIDE DEF f
<1>4. ASSUME NEW n \in U
      PROVE  /\ f[n] \in Nat /\ f[n] = BudgetFrom(g, f, n)
             /\ \A i \in 1 .. Len(Children(g, n)) : Children(g, n)[i] \in U
  <2>1. PICK C \in All : n \in C
    BY <1>4
  <2>2. PICK b : Solves(g, C, b)
    BY <2>1
  <2>3. C \subseteq U /\ \A m \in C : f[m] = b[m]
    BY <1>1, <2>2
  <2>4. /\ n \in DOMAIN g /\ b[n] \in Nat /\ b[n] = BudgetFrom(g, b, n)
        /\ \A i \in 1 .. Len(Children(g, n)) : Children(g, n)[i] \in C
    BY <2>1, <2>2 DEF Solves
  <2>5. BudgetFrom(g, b, n) = BudgetFrom(g, f, n)
    <3>1. \A i \in 1 .. Len(Children(g, n)) : b[Children(g, n)[i]] = f[Children(g, n)[i]]
      BY <2>3, <2>4
    <3> QED BY <2>4, <3>1, CostsLocal
  <2> HIDE DEF U
  <2> QED BY <2>1, <2>3, <2>4, <2>5
<1> HIDE DEF U
<1>5. Solves(g, U, f)
  <2>1. f \in [U -> Nat]
    BY <1>3, <1>4
  <2> QED BY <1>2, <1>4, <2>1 DEF Solves
<1>6. U = DOMAIN g
  <2> SUFFICES ASSUME U # DOMAIN g PROVE FALSE
    OBVIOUS
  <2> DEFINE S == DOMAIN g \ U
  <2>1. S \in (SUBSET DOMAIN g) \ {{}}
    BY <1>2
  <2>2. PICK n \in S : \A i \in 1 .. Len(Children(g, n)) : Children(g, n)[i] \notin S
    BY <2>1 DEF IsAcyclic
  <2>3. n \in DOMAIN g /\ n \notin U /\ Children(g, n) \in Seq(DOMAIN g)
    BY <2>2 DEF IsTree
  <2>4. \A i \in 1 .. Len(Children(g, n)) : Children(g, n)[i] \in U
    BY <2>2, <2>3
  <2> DEFINE more == U \cup {n}
             x == BudgetFrom(g, f, n)
             h == [m \in more |-> IF m = n THEN x ELSE f[m]]
  <2>5. x \in Nat
    BY <1>4, <2>3, <2>4, CostsTyped
  <2> HIDE DEF x
  <2>6. h \in [more -> Nat] /\ h[n] = x /\ \A m \in U : h[m] = f[m]
    BY <1>4, <2>3, <2>5
  <2> HIDE DEF h
  <2>7. ASSUME NEW m \in more
        PROVE  /\ \A i \in 1 .. Len(Children(g, m)) : Children(g, m)[i] \in more
               /\ h[m] = BudgetFrom(g, h, m)
    <3>1. m \in DOMAIN g /\ \A i \in 1 .. Len(Children(g, m)) : Children(g, m)[i] \in U
      BY <1>2, <1>4, <2>3, <2>4
    <3>2. \A i \in 1 .. Len(Children(g, m)) : f[Children(g, m)[i]] = h[Children(g, m)[i]]
      BY <2>6, <3>1
    <3>3. BudgetFrom(g, f, m) = BudgetFrom(g, h, m)
      BY <3>1, <3>2, CostsLocal
    <3>4. h[m] = BudgetFrom(g, f, m)
      <4>1. CASE m = n
        BY <2>6, <4>1 DEF x
      <4>2. CASE m # n
        <5>1. m \in U
          BY <4>2
        <5> QED BY <1>4, <2>6, <5>1
      <4> QED BY <4>1, <4>2
    <3> QED BY <3>1, <3>3, <3>4
  <2>8. Solves(g, more, h)
    BY <1>2, <2>3, <2>6, <2>7 DEF Solves
  <2>9. more \subseteq U
    BY <1>1, <2>8
  <2> QED BY <2>3, <2>9
<1> QED BY <1>5, <1>6

LEMMA BudgetIs ==
    ASSUME NEW g, IsTree(g), IsAcyclic(g)
    PROVE  \E b : Solves(g, DOMAIN g, b) /\ BudgetOf(g) = b[Root] + 1
<1> DEFINE F(b) == [n \in DOMAIN g |-> BudgetFrom(g, b, n)]
           c == CHOOSE b : b = F(b)
<1>1. BudgetOf(g) = c[Root] + 1
  BY DEF BudgetOf
<1>2. PICK b : Solves(g, DOMAIN g, b)
  BY SolutionExists
<1>3. b = F(b)
  BY <1>2 DEF Solves
<1>4. c = F(c)
  BY <1>3
<1> HIDE DEF c
<1>5. /\ c = [n \in DOMAIN g |-> c[n]]
      /\ \A n \in DOMAIN g : c[n] = BudgetFrom(g, c, n)
  <2>1. DOMAIN c = DOMAIN g /\ c = [n \in DOMAIN c |-> c[n]] /\ \A n \in DOMAIN g : c[n] = BudgetFrom(g, c, n)
    BY <1>4
  <2> QED BY <2>1
<1>6. \A n \in DOMAIN g : c[n] \in Nat
  <2> DEFINE S == {n \in DOMAIN g : c[n] \notin Nat}
  <2> SUFFICES ASSUME S # {} PROVE FALSE
    OBVIOUS
  <2>1. S \in (SUBSET DOMAIN g) \ {{}}
    OBVIOUS
  <2>2. PICK n \in S : \A i \in 1 .. Len(Children(g, n)) : Children(g, n)[i] \notin S
    BY <2>1 DEF IsAcyclic
  <2>3. n \in DOMAIN g /\ Children(g, n) \in Seq(DOMAIN g)
    BY <2>2 DEF IsTree
  <2>4. \A i \in 1 .. Len(Children(g, n)) : c[Children(g, n)[i]] \in Nat
    BY <2>2, <2>3
  <2>5. BudgetFrom(g, c, n) \in Nat
    BY <2>3, <2>4, CostsTyped
  <2> QED BY <1>5, <2>2, <2>3, <2>5
<1>7. Solves(g, DOMAIN g, c)
  <2>1. c \in [DOMAIN g -> Nat]
    BY <1>5, <1>6
  <2>2. ASSUME NEW n \in DOMAIN g
        PROVE  \A i \in 1 .. Len(Children(g, n)) : Children(g, n)[i] \in DOMAIN g
    <3>1. Children(g, n) \in Seq(DOMAIN g)
      BY DEF IsTree
    <3> QED BY <3>1
  <2> QED BY <1>5, <2>1, <2>2 DEF Solves
<1> QED BY <1>1, <1>7

-----------------------------------------------------------------------------
(***************************************************************************)
(* What a plan may still cost, where no loop is an Until.                  *)
(***************************************************************************)
Cost(g, b, item) ==
    IF g[item.node].kind = "Repeat"
      THEN IF item.rounds < g[item.node].count
             THEN (g[item.node].count - item.rounds) * BudgetsOf(g, b, item.node)[1] ELSE 0
      ELSE b[item.node]
PlanCosts(g, b, p) == [i \in 1 .. Len(p) |-> Cost(g, b, p[i])]
PlanCost(g, b, p) == Total(PlanCosts(g, b, p))

Budgeted(g, b) == IsTree(g) /\ Counted(g) /\ Solves(g, DOMAIN g, b)

\* Of a node, its budget, and those of its children.
LEMMA BudgetFacts ==
    ASSUME NEW g, NEW b, Budgeted(g, b), NEW n \in DOMAIN g
    PROVE  /\ b[n] \in Nat /\ b[n] = BudgetFrom(g, b, n)
           /\ BudgetsOf(g, b, n) \in Seq(Nat)
           /\ Len(BudgetsOf(g, b, n)) = Len(Children(g, n))
           /\ Children(g, n) \in Seq(DOMAIN g)
           /\ \A i \in 1 .. Len(Children(g, n)) :
                Children(g, n)[i] \in DOMAIN g /\ BudgetsOf(g, b, n)[i] = b[Children(g, n)[i]]
<1>1. Children(g, n) \in Seq(DOMAIN g) /\ b \in [DOMAIN g -> Nat] /\ b[n] = BudgetFrom(g, b, n)
  BY DEF Budgeted, IsTree, Solves
<1>2. Len(Children(g, n)) \in Nat /\ \A i \in 1 .. Len(Children(g, n)) : Children(g, n)[i] \in DOMAIN g
  BY <1>1
<1>3. \A i \in 1 .. Len(Children(g, n)) : b[Children(g, n)[i]] \in Nat
  BY <1>1, <1>2
<1>4. BudgetsOf(g, b, n) \in Seq(Nat)
  BY <1>3, CostsTyped DEF Budgeted
<1>5. Len(BudgetsOf(g, b, n)) = Len(Children(g, n))
  BY <1>2 DEF BudgetsOf
<1> QED BY <1>1, <1>2, <1>4, <1>5 DEF BudgetsOf

LEMMA CostTyped ==
    ASSUME NEW g, NEW b, Budgeted(g, b), NEW x \in Items(g)
    PROVE  Cost(g, b, x) \in Nat
<1>1. x.node \in DOMAIN g /\ x.rounds \in Nat
  BY DEF Items
<1>2. b[x.node] \in Nat /\ g[x.node].count \in Nat
  BY <1>1, BudgetFacts DEF Budgeted, IsTree
<1>3. CASE g[x.node].kind = "Repeat"
  <2> DEFINE v == BudgetsOf(g, b, x.node)[1]
             k == g[x.node].count
  <2>1. v \in Nat
    <3>1. Len(Children(g, x.node)) = 1
      BY <1>1, <1>3 DEF Budgeted, IsTree
    <3>2. BudgetsOf(g, b, x.node) \in Seq(Nat)
      BY <1>1, BudgetFacts
    <3>3. Len(BudgetsOf(g, b, x.node)) = 1
      BY <1>1, <3>1, BudgetFacts
    <3> QED BY <3>2, <3>3
  <2>2. Cost(g, b, x) = IF x.rounds < k THEN (k - x.rounds) * v ELSE 0
    BY <1>3 DEF Cost
  <2> HIDE DEF v, k
  <2>3. \A y, z \in Nat : y * z \in Nat
    OBVIOUS
  <2>4. k \in Nat
    BY <1>2 DEF k
  <2>5. x.rounds < k => k - x.rounds \in Nat
    BY <1>1, <2>4
  <2> QED BY <2>1, <2>2, <2>3, <2>5
<1>4. CASE g[x.node].kind # "Repeat"
  BY <1>2, <1>4 DEF Cost
<1> QED BY <1>3, <1>4

\* A node that nothing has been done of costs its budget.
LEMMA CostOfFresh ==
    ASSUME NEW g, NEW b, Budgeted(g, b), NEW n \in DOMAIN g
    PROVE  Cost(g, b, Todo(n, 0)) = b[n]
<1>1. Todo(n, 0).node = n /\ Todo(n, 0).rounds = 0
  BY DEF Todo
<1>2. CASE g[n].kind = "Repeat"
  <2>1. g[n].count \in Nat /\ g[n].count > 0
    BY <1>2 DEF Budgeted, IsTree, Counted
  <2>2. Cost(g, b, Todo(n, 0)) = (g[n].count - 0) * BudgetsOf(g, b, n)[1]
    BY <1>1, <1>2, <2>1 DEF Cost
  <2>3. BudgetFrom(g, b, n) = g[n].count * BudgetsOf(g, b, n)[1]
    BY <1>2, CostsAre DEF Budgeted
  <2>4. g[n].count - 0 = g[n].count
    BY <2>1
  <2> QED BY <2>2, <2>3, <2>4, BudgetFacts
<1>3. CASE g[n].kind # "Repeat"
  BY <1>1, <1>3 DEF Cost
<1> QED BY <1>2, <1>3

LEMMA PlanCostsTyped ==
    ASSUME NEW g, NEW b, Budgeted(g, b), NEW p \in Plans(g)
    PROVE  /\ PlanCosts(g, b, p) \in Seq(Nat) /\ Len(PlanCosts(g, b, p)) = Len(p)
           /\ \A i \in 1 .. Len(p) : PlanCosts(g, b, p)[i] = Cost(g, b, p[i])
           /\ PlanCost(g, b, p) \in Nat
<1>1. Len(p) \in Nat /\ \A i \in 1 .. Len(p) : p[i] \in Items(g)
  BY DEF Plans
<1>2. \A i \in 1 .. Len(p) : Cost(g, b, p[i]) \in Nat
  BY <1>1, CostTyped
<1>3. PlanCosts(g, b, p) \in [1 .. Len(p) -> Nat]
  BY <1>2 DEF PlanCosts
<1>4. PlanCosts(g, b, p) \in Seq(Nat) /\ Len(PlanCosts(g, b, p)) = Len(p)
  BY <1>1, <1>3
<1>5. PlanCost(g, b, p) \in Nat
  BY <1>4, TotalTyped DEF PlanCost
<1> QED BY <1>4, <1>5 DEF PlanCosts

LEMMA PlanCostOfConcat ==
    ASSUME NEW g, NEW b, Budgeted(g, b), NEW p \in Plans(g), NEW q \in Plans(g)
    PROVE  PlanCost(g, b, p \o q) = PlanCost(g, b, p) + PlanCost(g, b, q)
<1> DEFINE r == p \o q
           x == PlanCosts(g, b, p)
           y == PlanCosts(g, b, q)
           z == PlanCosts(g, b, r)
           M == Len(p)
           N == Len(q)
<1>1. /\ r \in Plans(g) /\ Len(r) = M + N /\ M \in Nat /\ N \in Nat
      /\ \A i \in 1 .. M : r[i] = p[i]
      /\ \A i \in 1 .. N : r[M + i] = q[i]
  BY DEF Plans
<1>2. x \in Seq(Nat) /\ Len(x) = M /\ \A i \in 1 .. M : x[i] = Cost(g, b, p[i])
  BY PlanCostsTyped
<1>3. y \in Seq(Nat) /\ Len(y) = N /\ \A i \in 1 .. N : y[i] = Cost(g, b, q[i])
  BY PlanCostsTyped
<1> HIDE DEF r
<1>4. z \in Seq(Nat) /\ Len(z) = Len(r) /\ \A i \in 1 .. Len(r) : z[i] = Cost(g, b, r[i])
  BY <1>1, PlanCostsTyped
<1> HIDE DEF x, y, z, M, N
<1>5. x \o y \in Seq(Nat) /\ Len(x \o y) = M + N
      /\ (\A i \in 1 .. M : (x \o y)[i] = x[i])
      /\ (\A i \in 1 .. N : (x \o y)[M + i] = y[i])
  <2>1. /\ x \o y \in Seq(Nat) /\ Len(x \o y) = Len(x) + Len(y)
        /\ \A i \in 1 .. Len(x) + Len(y) :
             (x \o y)[i] = IF i <= Len(x) THEN x[i] ELSE y[i - Len(x)]
    BY <1>2, <1>3, ConcatProperties
  <2>2. \A i \in 1 .. M : i \in 1 .. M + N /\ i <= M
    BY <1>1
  <2>3. \A i \in 1 .. N : M + i \in 1 .. M + N /\ ~(M + i <= M) /\ (M + i) - M = i
    BY <1>1
  <2>4. \A i \in 1 .. M : (x \o y)[i] = x[i]
    BY <1>2, <1>3, <2>1, <2>2
  <2>5. \A i \in 1 .. N : (x \o y)[M + i] = y[i]
    BY <1>2, <1>3, <2>1, <2>3
  <2> QED BY <1>2, <1>3, <2>1, <2>4, <2>5
<1>6. \A i \in 1 .. M + N : z[i] = (x \o y)[i]
  <2> SUFFICES ASSUME NEW i \in 1 .. M + N PROVE z[i] = (x \o y)[i]
    OBVIOUS
  <2>1. CASE i \in 1 .. M
    BY <1>1, <1>2, <1>4, <1>5, <2>1
  <2>2. CASE i \notin 1 .. M
    <3> DEFINE k == i - M
    <3>1. k \in 1 .. N /\ i = M + k
      BY <1>1, <2>2
    <3> HIDE DEF k
    <3>2. r[i] = q[k] /\ (x \o y)[i] = y[k] /\ y[k] = Cost(g, b, q[k])
      BY <1>1, <1>3, <1>5, <3>1
    <3>3. z[i] = Cost(g, b, r[i])
      BY <1>1, <1>4
    <3> QED BY <3>2, <3>3
  <2> QED BY <2>1, <2>2
<1>7. z = x \o y
  <2> DEFINE l == x \o y
  <2>1. l \in Seq(Nat) /\ z \in Seq(Nat) /\ Len(z) = Len(l) /\ \A i \in 1 .. Len(z) : z[i] = l[i]
    BY <1>1, <1>4, <1>5, <1>6
  <2> HIDE DEF l
  <2>2. z = l
    BY <2>1, SeqEqual
  <2> QED BY <2>2 DEF l
<1>8. Total(x \o y) = Total(x) + Total(y)
  BY <1>2, <1>3, TotalOfConcat
<1> QED BY <1>7, <1>8 DEF PlanCost, x, y, z, r

LEMMA PlanCostOfOne ==
    ASSUME NEW g, NEW b, Budgeted(g, b), NEW x \in Items(g)
    PROVE  <<x>> \in Plans(g) /\ PlanCost(g, b, <<x>>) = Cost(g, b, x)
<1> DEFINE v == Cost(g, b, x)
           s == PlanCosts(g, b, <<x>>)
<1>1. v \in Nat
  BY CostTyped
<1>2. <<x>> \in Plans(g) /\ Len(<<x>>) = 1 /\ <<x>>[1] = x /\ 1 \in 1 .. 1
  BY DEF Plans
<1>3. s \in Seq(Nat) /\ Len(s) = 1 /\ s[1] = v
  BY <1>2, PlanCostsTyped
<1> HIDE DEF s, v
<1>4. PICK t : IsTotal(s, t)
  BY <1>3, TotalIs
<1>5. t[0] = 0 /\ t[1] = t[1 - 1] + s[1] /\ Total(s) = t[1]
  BY <1>3, <1>4 DEF IsTotal
<1>6. Total(s) = v
  BY <1>1, <1>3, <1>5
<1> QED BY <1>2, <1>6 DEF PlanCost, s, v

LEMMA PlanCostOfFrom ==
    ASSUME NEW g, NEW b, Budgeted(g, b), NEW n \in DOMAIN g
    PROVE  PlanCost(g, b, From(Children(g, n), 0)) = Total(BudgetsOf(g, b, n))
<1> DEFINE children == Children(g, n)
           p == From(children, 0)
           x == PlanCosts(g, b, p)
           y == BudgetsOf(g, b, n)
<1>1. children \in Seq(DOMAIN g) /\ Len(children) \in Nat /\ 0 \in 0 .. Len(children)
  BY BudgetFacts
<1>2. y \in Seq(Nat) /\ Len(y) = Len(children)
      /\ \A i \in 1 .. Len(children) : children[i] \in DOMAIN g /\ y[i] = b[children[i]]
  BY BudgetFacts
<1> HIDE DEF children
<1>3. p \in Plans(g) /\ Len(p) = Len(children) /\ \A i \in 1 .. Len(children) : p[i] = Todo(children[i], 0)
  <2>1. /\ p \in Plans(g) /\ Len(p) = Len(children) - 0
        /\ \A i \in 1 .. Len(children) - 0 : p[i] = Todo(children[0 + i], 0)
    BY <1>1, FromTyped
  <2>2. Len(children) - 0 = Len(children) /\ \A i \in 1 .. Len(children) : 0 + i = i
    BY <1>1
  <2> HIDE DEF p
  <2> QED BY <2>1, <2>2
<1> HIDE DEF p, y
<1>4. x \in Seq(Nat) /\ Len(x) = Len(p) /\ \A i \in 1 .. Len(p) : x[i] = Cost(g, b, p[i])
  BY <1>3, PlanCostsTyped
<1>5. \A i \in 1 .. Len(x) : x[i] = y[i]
  <2> SUFFICES ASSUME NEW i \in 1 .. Len(x) PROVE x[i] = y[i]
    OBVIOUS
  <2>1. x[i] = Cost(g, b, Todo(children[i], 0)) /\ children[i] \in DOMAIN g /\ y[i] = b[children[i]]
    BY <1>2, <1>3, <1>4
  <2> QED BY <2>1, CostOfFresh
<1> HIDE DEF x
<1>6. x = y
  BY <1>2, <1>3, <1>4, <1>5, SeqEqual
<1> QED BY <1>6 DEF PlanCost, x, y, p, children

\* What an item is replaced by costs no more than the item.
LEMMA UnfoldCosts ==
    ASSUME NEW b, Budgeted(graph, b), NEW p \in Plans(graph), ~Plan!Settled(p), NEW holds
    PROVE  /\ Plan!Unfold(p, holds) \in Plans(graph)
           /\ PlanCost(graph, b, Plan!Unfold(p, holds)) <= PlanCost(graph, b, p)
<1> DEFINE x == Head(p)
           r == Tail(p)
           n == x.node
           children == Children(graph, n)
           u == Plan!Unfold(p, holds)
           C(q) == PlanCost(graph, b, q)
<1>1. p # << >> /\ graph[n].kind # "SubTask"
  BY DEF Plan!Settled
<1>2. x \in Items(graph) /\ r \in Plans(graph) /\ p = <<x>> \o r
  <2>1. /\ x \in Items(graph) /\ r \in Seq(Items(graph)) /\ Len(r) = Len(p) - 1
        /\ \A i \in 1 .. Len(r) : r[i] = p[i + 1]
    BY <1>1, HeadTailProperties DEF Plans
  <2>2. p \in Seq(Items(graph)) /\ Len(p) \in Nat \ {0} /\ p[1] = x
    BY <1>1 DEF Plans
  <2> HIDE DEF x, r
  <2> DEFINE l == <<x>> \o r
  <2>3. /\ l \in Seq(Items(graph)) /\ Len(l) = Len(r) + 1 /\ l[1] = x
        /\ \A i \in 1 .. Len(r) : l[i + 1] = r[i]
    BY <2>1, Prefixed
  <2> HIDE DEF l
  <2>4. \A i \in 1 .. Len(p) : p[i] = l[i]
    <3> SUFFICES ASSUME NEW i \in 1 .. Len(p) PROVE p[i] = l[i]
      OBVIOUS
    <3>1. CASE i = 1
      BY <2>2, <2>3, <3>1
    <3>2. CASE i # 1
      <4>1. i - 1 \in 1 .. Len(r) /\ (i - 1) + 1 = i
        BY <2>1, <2>2, <3>2
      <4>2. r[i - 1] = p[(i - 1) + 1] /\ l[(i - 1) + 1] = r[i - 1]
        BY <2>1, <2>3, <4>1
      <4> QED BY <4>1, <4>2
    <3> QED BY <3>1, <3>2
  <2>5. Len(p) = Len(l)
    BY <2>1, <2>2, <2>3
  <2>6. p = l
    BY <2>2, <2>3, <2>4, <2>5, SeqEqual
  <2> QED BY <2>1, <2>6 DEF Plans, l
<1>3. n \in DOMAIN graph /\ x.rounds \in Nat /\ x = Todo(n, x.rounds)
  BY <1>2 DEF Items, Todo
<1> DEFINE k == x.rounds
<1>4. UnfoldsTo(n, k, r, holds)
  BY <1>2, <1>3, UnfoldIs DEF Budgeted
<1>5. IsTree(graph) /\ children \in Seq(DOMAIN graph)
      /\ \A i \in 1 .. Len(children) :
           children[i] \in DOMAIN graph /\ BudgetsOf(graph, b, n)[i] = b[children[i]]
  BY <1>3, BudgetFacts DEF Budgeted
<1>6. C(r) \in Nat /\ Cost(graph, b, x) \in Nat
  BY <1>2, PlanCostsTyped, CostTyped
<1>7. C(p) = Cost(graph, b, x) + C(r)
  <2>1. <<x>> \in Plans(graph) /\ C(<<x>>) = Cost(graph, b, x)
    BY <1>2, PlanCostOfOne
  <2>2. C(<<x>> \o r) = C(<<x>>) + C(r)
    BY <1>2, <2>1, PlanCostOfConcat
  <2> QED BY <1>2, <2>1, <2>2
\* An item of a child in front of a plan.
<1>8. ASSUME NEW y \in Items(graph), NEW q \in Plans(graph)
      PROVE  <<y>> \o q \in Plans(graph) /\ C(<<y>> \o q) = Cost(graph, b, y) + C(q)
  <2>1. <<y>> \in Plans(graph) /\ C(<<y>>) = Cost(graph, b, y)
    BY PlanCostOfOne
  <2>2. C(<<y>> \o q) = C(<<y>>) + C(q)
    BY <2>1, PlanCostOfConcat
  <2>3. <<y>> \o q \in Plans(graph)
    BY <2>1, ConcatProperties DEF Plans
  <2> QED BY <2>1, <2>2, <2>3
<1>9. ASSUME NEW c \in DOMAIN graph
      PROVE  Todo(c, 0) \in Items(graph) /\ Cost(graph, b, Todo(c, 0)) = b[c] /\ b[c] \in Nat
  <2>1. Todo(c, 0) \in Items(graph)
    BY DEF Todo, Items
  <2> QED BY <2>1, CostOfFresh, BudgetFacts
<1>10. b[n] = BudgetFrom(graph, b, n) /\ b[n] \in Nat
  BY <1>3, BudgetFacts
<1> SUFFICES u \in Plans(graph) /\ C(u) <= C(p)
  OBVIOUS
<1> HIDE DEF C
<1>11. CASE graph[n].kind = "Sequence"
  <2>1. u = From(children, 0) \o r
    BY <1>2, <1>3, <1>4, <1>11 DEF UnfoldsTo
  <2>2. From(children, 0) \in Plans(graph)
    <3>1. 0 \in 0 .. Len(children)
      BY <1>5
    <3> QED BY <1>5, <3>1, FromTyped
  <2>3. u \in Plans(graph)
    BY <1>2, <2>1, <2>2, ConcatProperties DEF Plans
  <2>4. C(u) = C(From(children, 0)) + C(r)
    BY <1>2, <2>1, <2>2, PlanCostOfConcat DEF C
  <2>5. C(From(children, 0)) = Total(BudgetsOf(graph, b, n))
    BY <1>3, PlanCostOfFrom DEF C
  <2>6. Cost(graph, b, x) = b[n]
    BY <1>11 DEF Cost
  <2>7. BudgetFrom(graph, b, n) = Total(BudgetsOf(graph, b, n))
    BY <1>3, <1>5, <1>11, CostsAre
  <2>8. C(u) = C(p)
    BY <1>7, <1>10, <2>4, <2>5, <2>6, <2>7
  <2>9. C(p) \in Nat
    BY <1>6, <1>7
  <2> QED BY <2>3, <2>8, <2>9
<1>12. CASE graph[n].kind = "Branch"
  <2> DEFINE i == IF holds[n] THEN 1 ELSE 2
             c == children[i]
  <2>1. u = <<Todo(c, 0)>> \o r
    BY <1>2, <1>3, <1>4, <1>12 DEF UnfoldsTo
  <2>2. i \in 1 .. 2 /\ 1 \in 1 .. Len(children) /\ 2 \in 1 .. Len(children)
    <3>1. Len(children) = 2
      BY <1>3, <1>5, <1>12 DEF IsTree
    <3> QED BY <3>1
  <2>3. /\ BudgetsOf(graph, b, n)[1] = b[children[1]] /\ BudgetsOf(graph, b, n)[2] = b[children[2]]
        /\ children[1] \in DOMAIN graph /\ children[2] \in DOMAIN graph
    BY <1>5, <2>2
  <2>4. b[children[1]] \in Nat /\ b[children[2]] \in Nat /\ c \in DOMAIN graph
    BY <1>9, <2>2, <2>3
  <2>5. b[n] = IF b[children[1]] > b[children[2]] THEN b[children[1]] ELSE b[children[2]]
    BY <1>3, <1>5, <1>10, <1>12, <2>3, CostsAre
  <2>6. b[c] <= b[n]
    <3>1. c = children[1] \/ c = children[2]
      BY <2>2
    <3> HIDE DEF c
    <3> QED BY <2>4, <2>5, <3>1
  <2> HIDE DEF c
  <2>7. u \in Plans(graph) /\ C(u) = b[c] + C(r) /\ b[c] \in Nat
    BY <1>2, <1>8, <1>9, <2>1, <2>4
  <2>8. Cost(graph, b, x) = b[n]
    BY <1>12 DEF Cost
  <2> QED BY <1>6, <1>7, <1>10, <2>6, <2>7, <2>8
<1>13. CASE graph[n].kind = "Repeat"
  <2> DEFINE m == graph[n].count
             c == children[1]
             v == b[c]
  <2>1. m \in Nat /\ m > 0 /\ k \in Nat
    BY <1>3, <1>5, <1>13 DEF IsTree, Counted, Budgeted
  <2>2. c \in DOMAIN graph /\ BudgetsOf(graph, b, n)[1] = v
    <3>1. Len(children) = 1
      BY <1>3, <1>5, <1>13 DEF IsTree
    <3>2. children[1] \in DOMAIN graph /\ BudgetsOf(graph, b, n)[1] = b[children[1]]
      <4> HIDE DEF children
      <4>1. 1 \in 1 .. Len(children)
        BY <3>1
      <4> QED BY <1>5, <4>1
    <3> QED BY <3>2
  <2>3. v \in Nat
    BY <1>9, <2>2
  <2>4. \A j \in Nat : Cost(graph, b, Todo(n, j)) = IF j < m THEN (m - j) * v ELSE 0
    BY <1>13, <2>2 DEF Cost, Todo
  <2>5. LoopGoesOn(graph, n, k, holds) <=> k < m
    BY <2>1 DEF LoopGoesOn
  <2> HIDE DEF m, c, v, k
  <2>6. CASE k < m
    <3>1. u = <<Todo(c, 0)>> \o (<<Todo(n, k + 1)>> \o r)
      BY <1>2, <1>3, <1>4, <1>13, <2>5, <2>6 DEF UnfoldsTo, c, k
    <3>2. k + 1 \in Nat /\ Todo(n, k + 1) \in Items(graph)
      BY <1>3, <2>1 DEF Todo, Items
    <3> DEFINE q == <<Todo(n, k + 1)>> \o r
               w == Cost(graph, b, Todo(n, k + 1))
    <3>3. q \in Plans(graph) /\ C(q) = w + C(r)
      BY <1>2, <1>8, <3>2
    <3>4. w \in Nat
      BY <3>2, CostTyped
    <3> HIDE DEF q, w
    <3>5. Todo(c, 0) \in Items(graph) /\ Cost(graph, b, Todo(c, 0)) = v
      BY <1>9, <2>2 DEF v
    <3>6. u \in Plans(graph) /\ C(u) = v + C(q)
      BY <1>8, <3>1, <3>3, <3>5 DEF q
    <3>7. Cost(graph, b, x) = (m - k) * v
      BY <1>3, <2>1, <2>4, <2>6 DEF k
    <3>8. (m - k) * v = v + w
      <4> DEFINE j == (m - k) - 1
      <4>1. j \in Nat /\ m - k = j + 1 /\ m - (k + 1) = j /\ (k + 1 < m => j > 0) /\ (~(k + 1 < m) => j = 0)
        BY <2>1, <2>6
      <4>2. w = IF k + 1 < m THEN (m - (k + 1)) * v ELSE 0
        BY <2>4, <3>2 DEF w
      <4> HIDE DEF j
      <4>3. (j + 1) * v = v + j * v
        BY <2>3, <4>1
      <4>4. w = j * v
        <5>1. CASE k + 1 < m
          BY <4>1, <4>2, <5>1
        <5>2. CASE ~(k + 1 < m)
          BY <2>3, <4>1, <4>2, <5>2
        <5> QED BY <5>1, <5>2
      <4> QED BY <4>1, <4>3, <4>4
    <3>9. C(u) = C(p)
      BY <1>6, <1>7, <2>3, <3>3, <3>4, <3>6, <3>7, <3>8
    <3>10. C(p) \in Nat
      BY <1>6, <1>7
    <3> QED BY <3>6, <3>9, <3>10
  <2>7. CASE ~(k < m)
    <3>1. u = r
      BY <1>2, <1>3, <1>4, <1>13, <2>5, <2>7 DEF UnfoldsTo, k
    <3> QED BY <1>2, <1>6, <1>7, <3>1
  <2> QED BY <2>6, <2>7
<1>14. graph[n].kind \in {"Sequence", "Branch", "Repeat", "SubTask"}
  BY <1>3, <1>5 DEF IsTree
<1> QED BY <1>1, <1>11, <1>12, <1>13, <1>14

LEMMA SettleCosts ==
    ASSUME MaxDescent \in Nat, NEW b, Budgeted(graph, b), NEW plan \in Plans(graph), NEW holds
    PROVE  PlanCost(graph, b, Plan!Settle(plan, holds)) <= PlanCost(graph, b, plan)
<1>1. PICK p : Unfoldings(plan, holds, p) /\ Plan!Settle(plan, holds) = p[MaxDescent]
  BY SettleIs
<1> DEFINE C(q) == PlanCost(graph, b, q)
           U == {k \in 0 .. MaxDescent : p[k] \in Plans(graph) /\ C(p[k]) <= C(plan)}
<1>2. \A q \in Plans(graph) : C(q) \in Nat
  BY PlanCostsTyped
<1> HIDE DEF C
<1>3. 0 \in U
  <2>1. p[0] = plan /\ 0 \in 0 .. MaxDescent
    BY <1>1 DEF Unfoldings
  <2>2. C(plan) <= C(plan)
    BY <1>2
  <2> QED BY <2>1, <2>2
<1>4. ASSUME NEW k \in 1 .. MaxDescent, k - 1 \in U PROVE k \in U
  <2> DEFINE a == p[k - 1]
             z == p[k]
  <2>1. z = IF Plan!Settled(a) THEN a ELSE Plan!Unfold(a, holds)
    BY <1>1 DEF Unfoldings
  <2>2. a \in Plans(graph) /\ C(a) <= C(plan) /\ k \in 0 .. MaxDescent
    BY <1>4
  <2> HIDE DEF a, z
  <2>3. z \in Plans(graph) /\ C(z) <= C(a)
    <3>1. CASE Plan!Settled(a)
      BY <1>2, <2>1, <2>2, <3>1
    <3>2. CASE ~Plan!Settled(a)
      BY <2>1, <2>2, <3>2, UnfoldCosts DEF C
    <3> QED BY <3>1, <3>2
  <2>4. C(z) <= C(plan)
    BY <1>2, <2>2, <2>3
  <2> QED BY <2>2, <2>3, <2>4 DEF z
<1>5. MaxDescent \in U
  <2> HIDE DEF U
  <2>1. 0 .. MaxDescent \subseteq U
    BY <1>3, <1>4, Climbs
  <2> QED BY <2>1
<1> QED BY <1>1, <1>5 DEF C

-----------------------------------------------------------------------------
(***************************************************************************)
(* The steps of an episode are paid for by what its plan may still cost.   *)
(***************************************************************************)
Spent(g, b, s, n) ==
    IF s.done THEN n <= b[Root] + 1
    ELSE IF s.started THEN n + PlanCost(g, b, RestOfStack(g, s.stack)) <= b[Root] + s.ticks
    ELSE n = 0

\* A plan that is headed by the active stage: what the stage costs, and the rest.
LEMMA StandingCost ==
    ASSUME NEW b, Budgeted(graph, b), NEW stack \in Seq(Frames(graph)), Standing(graph, stack)
    PROVE  /\ RestOfStack(graph, Below(stack)) \in Plans(graph)
           /\ PlanCost(graph, b, RestOfStack(graph, Below(stack))) \in Nat
           /\ graph[Top(stack).node].timeout \in Nat \ {0}
           /\ PlanCost(graph, b, RestOfStack(graph, stack))
                = (graph[Top(stack).node].timeout - 1)
                    + PlanCost(graph, b, RestOfStack(graph, Below(stack)))
<1> DEFINE n == Top(stack).node
           x == Todo(n, 0)
           q == RestOfStack(graph, Below(stack))
<1>1. IsTree(graph)
  BY DEF Budgeted
<1>2. n \in DOMAIN graph /\ graph[n].kind = "SubTask" /\ graph[n].timeout \in Nat \ {0}
  BY <1>1, StageTimeout
<1>3. q \in Plans(graph) /\ RestOfStack(graph, stack) = <<x>> \o q
  BY <1>1, StandingPlan
<1> HIDE DEF n, q
<1>4. x \in Items(graph)
  BY <1>2 DEF Todo, Items
<1>5. Cost(graph, b, x) = graph[n].timeout - 1
  <2>1. Cost(graph, b, x) = b[n] /\ b[n] = BudgetFrom(graph, b, n)
    BY <1>2, CostOfFresh, BudgetFacts
  <2>2. BudgetFrom(graph, b, n) = graph[n].timeout - 1
    BY <1>1, <1>2, CostsAre DEF IsStage
  <2> QED BY <2>1, <2>2
<1>6. PlanCost(graph, b, q) \in Nat
  BY <1>3, PlanCostsTyped
<1>7. <<x>> \in Plans(graph) /\ PlanCost(graph, b, <<x>>) = Cost(graph, b, x)
  BY <1>4, PlanCostOfOne
<1>8. PlanCost(graph, b, <<x>> \o q) = PlanCost(graph, b, <<x>>) + PlanCost(graph, b, q)
  BY <1>3, <1>7, PlanCostOfConcat
<1> HIDE DEF x
<1>9. PlanCost(graph, b, RestOfStack(graph, stack)) = (graph[n].timeout - 1) + PlanCost(graph, b, q)
  BY <1>3, <1>5, <1>7, <1>8
<1> QED BY <1>2, <1>3, <1>6, <1>9 DEF n, q

\* An env that is not done has taken no more steps than the root's budget.
LEMMA SpentInTime ==
    ASSUME NEW b, Budgeted(graph, b), NEW s, StageOK(graph, s), NEW n \in Nat, Spent(graph, b, s, n)
    PROVE  b[Root] \in Nat /\ n <= b[Root] + 1 /\ (~s.done => n <= b[Root])
<1>1. b[Root] \in Nat
  <2>1. Root \in DOMAIN graph
    BY DEF Budgeted, IsTree
  <2> QED BY <2>1, BudgetFacts
<1>2. CASE s.done
  BY <1>1, <1>2 DEF Spent
<1>3. CASE ~s.done /\ s.started
  <2>1. OnTick(graph, s) /\ s.stack \in Seq(Frames(graph)) /\ s.ticks \in Nat
    BY <1>3 DEF StageOK, Stages
  <2> DEFINE t == graph[Top(s.stack).node].timeout
             u == s.ticks
             q == PlanCost(graph, b, RestOfStack(graph, Below(s.stack)))
             p == PlanCost(graph, b, RestOfStack(graph, s.stack))
             v == b[Root]
  <2>2. t \in Nat /\ q \in Nat /\ p = (t - 1) + q
    BY <2>1, StandingCost DEF OnTick
  <2>3. u \in Nat /\ u < t /\ v \in Nat
    BY <1>1, <2>1 DEF OnTick
  <2>4. n + p <= v + u
    BY <1>3 DEF Spent
  <2> HIDE DEF t, u, q, p, v
  <2>5. n <= v
    BY <2>2, <2>3, <2>4
  <2>6. n <= v + 1
    BY <2>3, <2>5
  <2> QED BY <2>3, <2>5, <2>6 DEF v
<1>4. CASE ~s.done /\ ~s.started
  BY <1>1, <1>4 DEF Spent
<1> QED BY <1>2, <1>3, <1>4

\* Entering the graph costs nothing.
LEMMA EntrySpends ==
    ASSUME MaxDescent \in Nat \ {0}, NEW b, Budgeted(graph, b), NEW s, StageOK(graph, s), ~s.done,
           NEW n \in Nat, Spent(graph, b, s, n), NEW entry, NEW mid, EntryGoes(s, entry, mid), ~mid.done
    PROVE  /\ OnTick(graph, mid) /\ mid \in Stages(graph) /\ mid.started
           /\ Spent(graph, b, mid, n)
<1>1. OnTick(graph, mid) /\ mid \in Stages(graph) /\ mid.started
  BY DEF EntryGoes
<1>2. CASE s.started
  BY <1>1, <1>2 DEF EntryGoes
<1>3. CASE ~s.started
  <2> DEFINE root == <<Todo(Root, 0)>>
  <2>1. n = 0 /\ mid.ticks = 0
    BY <1>3 DEF EntryGoes, Spent
  <2>2. Plan!Settle(PlanOf(graph, s), entry) = RestOfStack(graph, mid.stack)
    BY <1>3 DEF EntryGoes
  <2>3. PlanOf(graph, s) = root
    BY <1>3 DEF PlanOf
  <2>4. Root \in DOMAIN graph
    BY DEF Budgeted, IsTree
  <2>5. Todo(Root, 0) \in Items(graph) /\ Cost(graph, b, Todo(Root, 0)) = b[Root] /\ b[Root] \in Nat
    <3>1. Todo(Root, 0) \in Items(graph)
      BY <2>4 DEF Todo, Items
    <3> QED BY <2>4, <3>1, CostOfFresh, BudgetFacts
  <2>6. root \in Plans(graph) /\ PlanCost(graph, b, root) = b[Root]
    BY <2>5, PlanCostOfOne
  <2> HIDE DEF root
  <2>7. PlanCost(graph, b, Plan!Settle(root, entry)) <= PlanCost(graph, b, root)
    BY <2>6, SettleCosts
  <2> DEFINE c == PlanCost(graph, b, RestOfStack(graph, mid.stack))
             v == b[Root]
  <2>8. c <= v
    BY <2>2, <2>3, <2>6, <2>7
  <2>9. c \in Nat /\ v \in Nat
    <3>1. mid.stack \in Seq(Frames(graph)) /\ Standing(graph, mid.stack)
      BY <1>1 DEF Stages, OnTick
    <3> DEFINE t == graph[Top(mid.stack).node].timeout
               q == PlanCost(graph, b, RestOfStack(graph, Below(mid.stack)))
    <3>2. t \in Nat \ {0} /\ q \in Nat /\ c = (t - 1) + q
      BY <3>1, StandingCost
    <3> HIDE DEF t, q, c
    <3>3. c \in Nat
      BY <3>2
    <3> QED BY <2>5, <3>3
  <2> HIDE DEF c, v
  <2>10. n + c <= v + mid.ticks
    BY <2>1, <2>8, <2>9
  <2> QED BY <1>1, <2>10 DEF Spent, c, v
<1> QED BY <1>1, <1>2, <1>3

LEMMA ControlStepSpends ==
    ASSUME MaxDescent \in Nat \ {0}, NEW b, Budgeted(graph, b), NEW s, StageOK(graph, s), ~s.done,
           NEW n \in Nat, Spent(graph, b, s, n), NEW entry, NEW complete, NEW holds
    PROVE  Spent(graph, b, ControlStep(s, entry, complete, holds), n + 1)
<1> DEFINE mid == Entered(s, entry)
           r == ControlStep(s, entry, complete, holds)
           v == b[Root]
<1> SUFFICES Spent(graph, b, r, n + 1)
  OBVIOUS
<1>1. IsTree(graph)
  BY DEF Budgeted
<1>2. EntryGoes(s, entry, mid)
  BY <1>1, EntryFacts
<1>3. Failing(r) \/ Finding(mid, r) \/ Waiting(mid, r) \/ WalkingOn(mid, holds, r)
  BY <1>1, ControlStepCases
<1>4. v \in Nat /\ n <= v
  BY SpentInTime
<1> HIDE DEF mid, r
<1>5. CASE r.done
  <2>1. n + 1 <= v + 1
    BY <1>4
  <2> QED BY <1>5, <2>1 DEF Spent
<1>6. CASE ~r.done
  <2>1. Waiting(mid, r) \/ WalkingOn(mid, holds, r)
    BY <1>3, <1>6 DEF Failing, Finding
  <2>2. ~mid.done /\ Ticking(mid)
    BY <2>1 DEF Waiting, WalkingOn, Ticking
  <2>3. OnTick(graph, mid) /\ mid \in Stages(graph) /\ mid.started /\ Spent(graph, b, mid, n)
    BY <1>2, <2>2, EntrySpends
  <2>4. mid.stack \in Seq(Frames(graph)) /\ Standing(graph, mid.stack) /\ mid.ticks \in Nat
    BY <2>3 DEF Stages, OnTick
  <2> DEFINE k == Top(mid.stack).node
             t == graph[k].timeout
             u == mid.ticks
             below == RestOfStack(graph, Below(mid.stack))
             q == PlanCost(graph, b, below)
             p == PlanCost(graph, b, RestOfStack(graph, mid.stack))
  <2>5. below \in Plans(graph) /\ q \in Nat /\ t \in Nat \ {0} /\ p = (t - 1) + q
    BY <2>4, StandingCost
  <2>6. n + p <= v + u /\ u \in Nat /\ u + 1 < t
    BY <2>2, <2>3, <2>4 DEF Spent, Ticking
  <2>7. /\ Ticked(mid).stack = mid.stack /\ Ticked(mid).ticks = u + 1
        /\ Ticked(mid).started /\ ~Ticked(mid).done
    <3>1. Ticked(mid) = [mid EXCEPT !.ticks = @ + 1, !.scored = k]
      BY DEF Ticked
    <3> HIDE DEF k
    <3> QED BY <2>2, <2>3, <3>1 DEF Stages
  <2> HIDE DEF k, t, u, q, p, v, below
  <2>8. CASE Waiting(mid, r)
    <3>1. r.stack = mid.stack /\ r.ticks = u + 1 /\ r.started
      BY <2>7, <2>8 DEF Waiting
    <3>2. (n + 1) + p <= v + (u + 1)
      BY <1>4, <2>5, <2>6
    <3> QED BY <1>6, <3>1, <3>2 DEF Spent, p, v
  <2>9. CASE WalkingOn(mid, holds, r)
    <3> DEFINE z == PlanCost(graph, b, RestOfStack(graph, r.stack))
    <3>1. /\ r \in Stages(graph) /\ r.started /\ OnTick(graph, r) /\ r.ticks = 0
          /\ Plan!Settle(Remaining(graph, First(Ticked(mid), NoNode)), holds)
               = RestOfStack(graph, r.stack)
      BY <1>6, <2>7, <2>9 DEF WalkingOn, RunGoes
    <3>2. Remaining(graph, First(Ticked(mid), NoNode)) = below
      BY <2>4, <2>7 DEF Remaining, First, below
    <3>3. z <= q
      BY <2>5, <3>1, <3>2, SettleCosts DEF q
    <3>4. z \in Nat
      <4>1. r.stack \in Seq(Frames(graph)) /\ Standing(graph, r.stack)
        BY <3>1 DEF Stages, OnTick
      <4> DEFINE x == graph[Top(r.stack).node].timeout
                 y == PlanCost(graph, b, RestOfStack(graph, Below(r.stack)))
      <4>2. x \in Nat \ {0} /\ y \in Nat /\ z = (x - 1) + y
        BY <4>1, StandingCost
      <4> HIDE DEF x, y, z
      <4> QED BY <4>2
    <3> HIDE DEF z
    <3>5. (n + 1) + z <= v + 0
      BY <1>4, <2>5, <2>6, <3>3, <3>4
    <3> QED BY <1>6, <3>1, <3>5 DEF Spent, z, v
  <2> QED BY <2>1, <2>8, <2>9
<1> QED BY <1>5, <1>6

\* Of a batch: no env has spent more than its plan has cost it so far.
Paid(g, s, n) ==
    Counted(g) => \A b : Solves(g, DOMAIN g, b) => \A e \in Envs : Spent(g, b, s[e], n[e])
PaidInv == Paid(graph, stage, steps)

LEMMA IdleSpent == ASSUME NEW g, NEW b PROVE Spent(g, b, IdleStage, 0)
BY DEF Spent, IdleStage

LEMMA PaidAtFirst == Init => PaidInv
<1> SUFFICES ASSUME Init PROVE PaidInv
  OBVIOUS
<1>1. \A e \in Envs : stage[e] = IdleStage /\ steps[e] = 0
  BY DEF Init
<1> QED BY <1>1, IdleSpent DEF PaidInv, Paid

\* What is to be shown of a step that leaves the graph as it is, env by env.
LEMMA PaidEnvByEnv ==
    ASSUME UNCHANGED graph,
           ASSUME NEW b, Budgeted(graph, b), NEW d \in Envs,
                  Spent(graph, b, stage[d], steps[d])
           PROVE  Spent(graph, b, stage'[d], steps'[d]),
           Inv, PaidInv
    PROVE  PaidInv'
<1>1. IsTree(graph)
  BY BatchConstants
<1>2. ASSUME Counted(graph), NEW b, Solves(graph, DOMAIN graph, b), NEW d \in Envs
      PROVE  Spent(graph, b, stage'[d], steps'[d])
  BY <1>1, <1>2 DEF PaidInv, Paid, Budgeted
<1>3. Paid(graph, stage', steps')
  BY <1>2 DEF Paid
<1>4. PaidInv' <=> Paid(graph', stage', steps')
  BY DEF PaidInv, Paid, Counted, Solves, Spent, Envs
<1> QED BY <1>3, <1>4

LEMMA EvaluatePays == ASSUME Inv, PaidInv, Evaluate PROVE PaidInv'
<1> DEFINE e == cursor
<1>1. UNCHANGED graph /\ e \in Envs
  BY EvaluateIs
<1>2. \E complete, conditions, entry :
        /\ stage' = [stage EXCEPT ![e] = ControlStep(stage[e], entry, complete, conditions)]
        /\ steps' = [steps EXCEPT ![e] = @ + 1]
  BY EvaluateIs DEF EvaluatesTo
<1>3. PICK complete, conditions, entry :
        /\ stage' = [stage EXCEPT ![e] = ControlStep(stage[e], entry, complete, conditions)]
        /\ steps' = [steps EXCEPT ![e] = @ + 1]
  BY <1>2
<1>4. stage \in [Envs -> Stages(graph)] /\ steps \in [Envs -> Nat]
  BY DEF Inv, Fields
<1>5. ~stage[e].done /\ StageOK(graph, stage[e])
  <2>1. EnvOK(graph, cursor, e \in ended, stage[e], steps[e], held[e], rows[e], e)
    BY <1>1 DEF Inv
  <2>2. e \in Nat
    BY BatchConstants DEF Inv, Fields
  <2> QED BY <2>1, <2>2 DEF EnvOK
<1>6. ASSUME NEW b, Budgeted(graph, b), NEW d \in Envs, Spent(graph, b, stage[d], steps[d])
      PROVE  Spent(graph, b, stage'[d], steps'[d])
  <2>1. CASE d = e
    <3>1. stage'[d] = ControlStep(stage[e], entry, complete, conditions) /\ steps'[d] = steps[e] + 1
      BY <1>3, <1>4, <2>1
    <3>2. steps[e] \in Nat /\ Spent(graph, b, stage[e], steps[e])
      BY <1>1, <1>4, <1>6, <2>1
    <3>3. MaxDescent \in Nat \ {0}
      BY BatchConstants
    <3>4. Spent(graph, b, ControlStep(stage[e], entry, complete, conditions), steps[e] + 1)
      BY <1>5, <1>6, <3>2, <3>3, ControlStepSpends
    <3> QED BY <3>1, <3>4
  <2>2. CASE d # e
    <3>1. stage'[d] = stage[d] /\ steps'[d] = steps[d]
      BY <1>3, <1>4, <2>2
    <3> QED BY <1>6, <3>1
  <2> QED BY <2>1, <2>2
<1> QED BY <1>1, <1>6, PaidEnvByEnv

LEMMA ResetPays ==
    ASSUME Inv, PaidInv, NEW envs, ResetEnvs(envs), UNCHANGED graph
    PROVE  PaidInv'
<1>1. /\ steps' = [e \in Envs |-> IF e \in envs THEN 0 ELSE steps[e]]
      /\ stage' = [e \in Envs |-> IF e \in envs THEN IdleStage ELSE stage[e]]
  BY DEF ResetEnvs, Zeroed
<1>2. ASSUME NEW b, Budgeted(graph, b), NEW d \in Envs, Spent(graph, b, stage[d], steps[d])
      PROVE  Spent(graph, b, stage'[d], steps'[d])
  <2>1. CASE d \in envs
    <3>1. stage'[d] = IdleStage /\ steps'[d] = 0
      BY <1>1, <2>1
    <3> QED BY <3>1, IdleSpent
  <2>2. CASE d \notin envs
    <3>1. stage'[d] = stage[d] /\ steps'[d] = steps[d]
      BY <1>1, <2>2
    <3> QED BY <1>2, <3>1
  <2> QED BY <2>1, <2>2
<1> QED BY <1>2, PaidEnvByEnv

LEMMA StepPays == ASSUME Inv, PaidInv, [Next]_vars PROVE PaidInv'
<1>1. CASE Evaluate
  BY <1>1, EvaluatePays
<1>2. CASE CloseStep
  BY <1>2, ResetPays DEF CloseStep
<1>3. CASE Reset
  BY <1>3, ResetPays DEF Reset
<1>4. CASE UNCHANGED vars
  BY <1>4 DEF vars, PaidInv, Paid, Counted, Solves, Spent
<1> QED BY <1>1, <1>2, <1>3, <1>4 DEF Next

LEMMA PaidGivesBudget == ASSUME Inv, PaidInv PROVE WithinBudget
<1> SUFFICES ASSUME Counted(graph), NEW e \in Envs PROVE steps[e] <= BudgetOf(graph)
  BY DEF WithinBudget
<1>1. graph \in Graphs /\ IsTree(graph)
  BY BatchConstants DEF Inv, Fields
<1>2. PICK b : Solves(graph, DOMAIN graph, b) /\ BudgetOf(graph) = b[Root] + 1
  BY <1>1, GraphsAreAcyclic, BudgetIs
<1>3. Budgeted(graph, b) /\ Spent(graph, b, stage[e], steps[e])
  BY <1>1, <1>2 DEF Budgeted, PaidInv, Paid
<1>4. StageOK(graph, stage[e]) /\ steps[e] \in Nat
  BY DEF Inv, Fields, EnvOK
<1> QED BY <1>2, <1>3, <1>4, SpentInTime

\* No path through the tree of an env keeps it longer than the timeouts along it: a stage
\* that is passed took fewer ticks than its own, a loop as many rounds as it counts, and
\* a walk that is cut off ends the episode.
THEOREM AlwaysWithinBudget == Spec => []WithinBudget
<1>1. PaidInv /\ Inv /\ [Next]_vars => PaidInv'
  BY StepPays
<1>2. PaidInv /\ Inv => WithinBudget
  BY PaidGivesBudget
<1> QED BY <1>1, <1>2, InvIsInvariant, PaidAtFirst, PTL DEF Spec
=============================================================================
