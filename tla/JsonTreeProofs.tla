--------------------------- MODULE JsonTreeProofs ---------------------------
(***************************************************************************)
(* What JsonTree promises of every sequence of calls, for any number of    *)
(* values and names: types, that every value is held at one place, and     *)
(* that what was set is what is read.                                      *)
(*                                                                         *)
(* Good is the inductive invariant.  Each value is well formed (Nodes), a  *)
(* container holds a value if and only if that value knows it as its       *)
(* parent (Linked), and some rank grows from each container to what it     *)
(* holds (Ranked): without the rank, json_value_free could reach the       *)
(* container that a value is released from, and release it too.            *)
(***************************************************************************)
EXTENDS JsonTree, FiniteSetTheorems, FunctionTheorems, SequenceTheorems, TLAPS

(* Induction over a set of numbers.                                         *)
LEMMA NatSetInduction ==
  ASSUME NEW S, 0 \in S, \A n \in Nat : n \in S => n + 1 \in S
  PROVE  \A n \in Nat : n \in S
<1>. DEFINE T == {n \in Nat : n \notin S}
            R == {ss \in Nat \X Nat : ss[1] < ss[2]}
<1>1. IsWellFoundedOn(R, Nat)
  BY NatLessThanWellFounded DEF OpToRel
<1>. SUFFICES ASSUME T # {} PROVE FALSE
  OBVIOUS
<1>2. T \subseteq Nat
  OBVIOUS
<1>. HIDE DEF T
<1>3. PICK x \in T : \A y \in T : ~(<<y, x>> \in R)
  BY <1>1, <1>2, WFMin DEF R
<1>4. x \in Nat /\ x # 0 /\ x - 1 \in Nat
  BY <1>2 DEF T
<1>5. x - 1 \in T
  BY <1>4 DEF T
<1>6. <<x - 1, x>> \in R
  BY <1>4
<1>. QED
  BY <1>3, <1>5, <1>6
-----------------------------------------------------------------------------
(* What json_value_free reaches.                                            *)

\* What the values of S hold.
Children(h, S) == UNION {ToSet(h[u].values) : u \in S}

\* S with what its values hold: one level of json_value_free's descent.
Reached(h, S) == S \cup Children(h, S)

(* Tree is what is reached after as many levels as there are addresses.     *)
LEMMA TreeLevels ==
  ASSUME NEW h, NEW v
  PROVE  \E tree :
           /\ tree[0] = {v}
           /\ \A n \in Nat : n < Cardinality(Value) =>
                               tree[n + 1] = Reached(h, tree[n])
           /\ Tree(h, v) = tree[Cardinality(Value)]
<1>. DEFINE N == Cardinality(Value)
            Levels(m, f) == f = [n \in 0 .. m |->
                                   IF n = 0 THEN {v} ELSE Reached(h, f[n - 1])]
            S == {m \in Nat : \E f : Levels(m, f)}
<1>1. N \in Nat
  BY FS_CardinalityType, JsonTreeAssumption
<1>. HIDE DEF N
<1>2. 0 \in S
  <2>. DEFINE f == [n \in 0 .. 0 |-> {v}]
  <2>1. Levels(0, f)
    OBVIOUS
  <2>. HIDE DEF f
  <2>. QED
    BY <2>1
<1>3. ASSUME NEW m \in Nat, m \in S
      PROVE  m + 1 \in S
  <2>1. PICK f : Levels(m, f)
    BY <1>3
  <2>. DEFINE g == [n \in 0 .. m + 1 |->
                      IF n = m + 1 THEN Reached(h, f[m]) ELSE f[n]]
  <2>2. \A n \in 0 .. m + 1 :
          g[n] = IF n = 0 THEN {v} ELSE Reached(h, g[n - 1])
    <3>1. \A n \in 0 .. m : f[n] = IF n = 0 THEN {v} ELSE Reached(h, f[n - 1])
      BY <2>1
    <3>2. \A n \in 0 .. m : g[n] = f[n]
      OBVIOUS
    <3>3. g[m + 1] = Reached(h, f[m])
      OBVIOUS
    <3>. HIDE DEF g
    <3>4. \A n \in 1 .. m + 1 : n - 1 \in 0 .. m
      OBVIOUS
    <3>. QED
      BY <3>1, <3>2, <3>3, <3>4
  <2>3. g = [n \in 0 .. m + 1 |-> g[n]]
    OBVIOUS
  <2>. HIDE DEF g
  <2>4. Levels(m + 1, g)
    BY <2>2, <2>3
  <2>. QED
    BY <2>4
<1>4. \A n \in Nat : n \in S
  <2>. HIDE DEF S
  <2>. QED
    BY <1>2, <1>3, NatSetInduction
<1>5. PICK f : Levels(N, f)
  BY <1>1, <1>4
<1>. DEFINE tree == CHOOSE t : Levels(N, t)
<1>6. Levels(N, tree)
  BY <1>5
<1>7. Tree(h, v) = tree[N]
  BY DEF Tree, Children, Reached, N
<1>. HIDE DEF tree
<1>8. \A n \in 0 .. N :
        tree[n] = IF n = 0 THEN {v} ELSE Reached(h, tree[n - 1])
  BY <1>6
<1>. HIDE DEF Levels
<1>9. \A n \in Nat : n < N => n + 1 \in 0 .. N /\ n + 1 # 0 /\ n + 1 - 1 = n
  BY <1>1
<1>10. tree[0] = {v}
  BY <1>1, <1>8
<1>11. ASSUME NEW n \in Nat, n < N
       PROVE  tree[n + 1] = Reached(h, tree[n])
  BY <1>8, <1>9, <1>11
<1>. QED
  BY <1>7, <1>10, <1>11 DEF N

\* S has all that its values hold.
Closed(h, S) == Children(h, S) \subseteq S

(* Every closed set with v has all that json_value_free reaches from v.     *)
LEMMA TreeIsLeast ==
  ASSUME NEW h, NEW v, NEW T, v \in T, Closed(h, T)
  PROVE  Tree(h, v) \subseteq T
<1>. DEFINE N == Cardinality(Value)
<1>1. N \in Nat
  BY FS_CardinalityType, JsonTreeAssumption
<1>2. PICK tree :
        /\ tree[0] = {v}
        /\ \A n \in Nat : n < N => tree[n + 1] = Reached(h, tree[n])
        /\ Tree(h, v) = tree[N]
  <2>1. \E tree :
          /\ tree[0] = {v}
          /\ \A n \in Nat : n < N => tree[n + 1] = Reached(h, tree[n])
          /\ Tree(h, v) = tree[N]
    BY ONLY TreeLevels DEF N
  <2>. QED
    BY ONLY <2>1
<1>. HIDE DEF N
<1>. DEFINE S == {n \in Nat : n <= N => tree[n] \subseteq T}
<1>3. 0 \in S
  BY <1>1, <1>2
<1>4. ASSUME NEW n \in Nat, n \in S
      PROVE  n + 1 \in S
  <2>. SUFFICES ASSUME n + 1 <= N
                PROVE  tree[n + 1] \subseteq T
    OBVIOUS
  <2>1. tree[n + 1] = Reached(h, tree[n])
    BY <1>1, <1>2
  <2>2. tree[n] \subseteq T
    BY <1>1, <1>4
  <2>3. Children(h, tree[n]) \subseteq Children(h, T)
    BY <2>2 DEF Children
  <2>. QED
    BY <2>1, <2>2, <2>3 DEF Reached, Closed
<1>. HIDE DEF S
<1>5. \A n \in Nat : n \in S
  BY <1>3, <1>4, NatSetInduction
<1>. QED
  BY <1>1, <1>2, <1>5 DEF S

(* json_value_free reaches all that what it reaches holds: the levels grow  *)
(* until they are closed, and cannot grow longer than there are addresses.  *)
LEMMA TreeIsClosed ==
  ASSUME NEW h \in [Value -> JSON_Value], NEW v \in Value
  PROVE  /\ v \in Tree(h, v)
         /\ Tree(h, v) \subseteq Value
         /\ Closed(h, Tree(h, v))
<1>. DEFINE N == Cardinality(Value)
<1>1. N \in Nat /\ IsFiniteSet(Value)
  BY FS_CardinalityType, JsonTreeAssumption
<1>2. PICK tree :
        /\ tree[0] = {v}
        /\ \A n \in Nat : n < N => tree[n + 1] = Reached(h, tree[n])
        /\ Tree(h, v) = tree[N]
  BY TreeLevels
<1>. HIDE DEF N
<1>3. \A S \in SUBSET Value : Children(h, S) \subseteq Value
  BY DEF Children, JSON_Value, ToSet
<1>4. Tree(h, v) \subseteq Value
  BY <1>3, TreeIsLeast, Children(h, Value) \subseteq Value DEF Closed
<1>. DEFINE Full(n) == Closed(h, tree[n]) \/ Cardinality(tree[n]) > n
            S == {n \in Nat : n <= N => v \in tree[n] /\ tree[n] \subseteq Value
                                          /\ Full(n)}
<1>5. 0 \in S
  <2>1. tree[0] = {v} /\ Cardinality({v}) = 1
    BY <1>1, <1>2, FS_Singleton
  <2>. QED
    BY <2>1
<1>6. ASSUME NEW n \in Nat, n \in S
      PROVE  n + 1 \in S
  <2>. SUFFICES ASSUME n + 1 <= N
                PROVE  /\ v \in tree[n + 1] /\ tree[n + 1] \subseteq Value
                       /\ Full(n + 1)
    OBVIOUS
  <2>1. tree[n + 1] = Reached(h, tree[n])
    BY <1>1, <1>2
  <2>2. v \in tree[n] /\ tree[n] \subseteq Value /\ Full(n)
    BY <1>1, <1>6
  <2>3. v \in tree[n + 1] /\ tree[n + 1] \subseteq Value
    BY <1>3, <2>1, <2>2 DEF Reached
  <2>4. CASE Closed(h, tree[n])
    BY <2>1, <2>3, <2>4 DEF Closed, Reached, Children
  <2>5. CASE ~Closed(h, tree[n])
    <3>1. /\ IsFiniteSet(tree[n]) /\ IsFiniteSet(tree[n + 1])
          /\ Cardinality(tree[n]) \in Nat /\ Cardinality(tree[n + 1]) \in Nat
      BY <1>1, <2>2, <2>3, FS_Subset, FS_CardinalityType
    <3>2. tree[n] \subseteq tree[n + 1] /\ tree[n] # tree[n + 1]
      BY <2>1, <2>5 DEF Reached, Closed
    <3>3. Cardinality(tree[n]) < Cardinality(tree[n + 1])
      BY <3>1, <3>2, FS_Subset
    <3>. QED
      BY <2>2, <2>3, <2>5, <3>1, <3>3
  <2>. QED
    BY <2>3, <2>4, <2>5
<1>7. \A n \in Nat : n \in S
  <2>. HIDE DEF S
  <2>. QED
    BY <1>5, <1>6, NatSetInduction
<1>8. /\ v \in tree[N] /\ tree[N] \subseteq Value
      /\ Closed(h, tree[N]) \/ Cardinality(tree[N]) > N
  BY <1>1, <1>7
<1>9. Cardinality(tree[N]) <= N
  BY <1>1, <1>8, FS_Subset DEF N
<1>. QED
  <2>1. Cardinality(tree[N]) \in Nat
    BY <1>1, <1>8, FS_Subset, FS_CardinalityType
  <2>. QED
    BY <1>1, <1>2, <1>8, <1>9, <2>1
-----------------------------------------------------------------------------
(* The invariant.                                                           *)

\* The values that p holds.
Kids(h, p) == ToSet(h[p].values)

\* A value by itself: its arrays fit its capacity, only an object has names,
\* one for each value and none twice, a scalar or a free address holds
\* nothing, and a free address is held by nothing.
Node(n) ==
  /\ n \in JSON_Value
  /\ Len(n.values) <= n.capacity
  /\ n.type = "object" => Len(n.names) = Len(n.values)
  /\ n.type # "object" => n.names = << >>
  /\ n.type \in Scalar \cup {"free"} => n.values = << >>
  /\ n.type = "free" => n.parent = NULL
  /\ IsInjective(n.names) /\ IsInjective(n.values)

\* Every address has such a value.
Nodes(h) == h \in [Value -> JSON_Value] /\ \A v \in Value : Node(h[v])

\* p holds v if and only if v knows p as its parent (parson.c:366, 447).
Linked(h) == \A p, v \in Value : v \in Kids(h, p) <=> h[v].parent = p

\* The rank grows from a container to what it holds.
Below(h, rank) ==
  \A v \in Value : h[v].parent # NULL => rank[h[v].parent] < rank[v]

\* No value holds itself, at any depth: json_value_free ends.
Ranked(h) == \E rank \in [Value -> Nat] : Below(h, rank)

\* The inductive invariant.
Good(h) == Nodes(h) /\ Linked(h) /\ Ranked(h)

(* The fields of a value are of their types.                                *)
LEMMA Fields ==
  ASSUME NEW h, Nodes(h), NEW v \in Value
  PROVE  /\ h[v] \in JSON_Value
         /\ h[v].type \in Type \cup {"free"}
         /\ h[v].parent \in Value \cup {NULL}
         /\ h[v].names \in Seq(Name) /\ h[v].values \in Seq(Value)
         /\ h[v].capacity \in Nat
         /\ Kids(h, v) \subseteq Value
BY DEF Nodes, JSON_Value, Kids, ToSet

(* What json_value_init_object, _array, _string, ... make, and a free       *)
(* address (parson.c:1253-1318).                                            *)
LEMMA NewNode ==
  ASSUME NEW type \in Type \cup {"free"}
  PROVE  Node(NewValue(type))
<1>1. NewValue(type) \in JSON_Value
  BY DEF NewValue, JSON_Value
<1>. QED
  BY <1>1 DEF Node, NewValue, IsInjective

(* Closed in terms of what each value holds.                                *)
LEMMA ClosedIs ==
  ASSUME NEW h, NEW S
  PROVE  Closed(h, S) <=> \A p \in S : Kids(h, p) \subseteq S
BY DEF Closed, Children, Kids

(* What json_value_free reaches from v: live values only, each held by      *)
(* another of them or v, and never what holds v.                            *)
LEMMA TreeIs ==
  ASSUME NEW h, Good(h), NEW v \in Value
  PROVE  /\ v \in Tree(h, v) /\ Tree(h, v) \subseteq Value
         /\ \A w \in Tree(h, v) : Kids(h, w) \subseteq Tree(h, v)
         /\ \A w \in Value : h[w].parent \in Tree(h, v) => w \in Tree(h, v)
         /\ \A w \in Tree(h, v) : w = v \/ h[w].parent \in Tree(h, v)
         /\ h[v].type # "free" => Tree(h, v) \subseteq Live(h)
         /\ h[v].parent \notin Tree(h, v)
<1>. DEFINE T == Tree(h, v)
<1>0. NULL \notin Value
  BY JsonTreeAssumption
<1>1. /\ v \in T /\ T \subseteq Value
      /\ \A w \in T : Kids(h, w) \subseteq T
  BY TreeIsClosed, ClosedIs DEF Good, Nodes
<1>2. \A p, w \in Value : w \in Kids(h, p) <=> h[w].parent = p
  BY DEF Good, Linked
<1>. HIDE DEF T
<1>3. \A w \in Value : h[w].parent \in T => w \in T
  BY <1>1, <1>2
<1>4. \A w \in T : w = v \/ h[w].parent \in T
  <2>. DEFINE S == {w \in T : w = v \/ h[w].parent \in T}
  <2>1. v \in S
    BY <1>1
  <2>2. \A p \in S : Kids(h, p) \subseteq S
    BY <1>1, <1>2
  <2>. HIDE DEF S
  <2>3. T \subseteq S
    BY <2>1, <2>2, ClosedIs, TreeIsLeast DEF T
  <2>. QED
    BY <2>3 DEF S
<1>5. ASSUME h[v].type # "free" PROVE T \subseteq Live(h)
  <2>1. v \in Live(h)
    BY <1>5 DEF Live
  <2>2. \A w \in Value : h[w].type = "free" => h[w].parent = NULL
    BY DEF Good, Nodes, Node
  <2>3. \A p \in Live(h) : Kids(h, p) \subseteq Live(h)
    BY <1>0, <1>2, <2>2, Fields DEF Live, Good
  <2>. QED
    BY <2>1, <2>3, ClosedIs, TreeIsLeast DEF T
<1>6. h[v].parent \notin T
  <2>1. PICK rank \in [Value -> Nat] : Below(h, rank)
    BY DEF Good, Ranked
  <2>. DEFINE S == {w \in Value : rank[w] >= rank[v]}
  <2>2. v \in S
    OBVIOUS
  <2>3. \A p \in S : Kids(h, p) \subseteq S
    <3>. SUFFICES ASSUME NEW p \in S, NEW w \in Kids(h, p) PROVE w \in S
      OBVIOUS
    <3>1. p \in Value /\ w \in Value /\ h[w].parent = p
      BY <1>2, Fields DEF Good
    <3>2. rank[p] < rank[w]
      BY <1>0, <2>1, <3>1 DEF Below
    <3>. QED
      BY <3>1, <3>2
  <2>. HIDE DEF S
  <2>4. T \subseteq S
    BY <2>2, <2>3, ClosedIs, TreeIsLeast DEF T
  <2>5. h[v].parent \notin S
    <3>1. CASE h[v].parent = NULL
      BY <1>0, <3>1 DEF S
    <3>2. CASE h[v].parent # NULL
      <4>1. h[v].parent \in Value /\ rank[h[v].parent] < rank[v]
        BY <2>1, <3>2, Fields DEF Below, Good
      <4>. QED
        BY <4>1 DEF S
    <3>. QED
      BY <3>1, <3>2
  <2>. QED
    BY <2>4, <2>5
<1>. QED
  BY <1>1, <1>3, <1>4, <1>5, <1>6 DEF T
-----------------------------------------------------------------------------
(* Releasing and moving values.                                             *)

(* The values of F are released, those of A, which no value held, go into   *)
(* the container c, and nothing else moves.                                 *)
Moves(h, g, c, F, A) ==
  /\ c \notin F /\ c \notin A /\ A \cap F = {}
  /\ \A v \in F : Kids(g, v) = {} /\ g[v].parent = NULL
  /\ Kids(g, c) = (Kids(h, c) \ F) \cup A
  /\ \A v \in Value \ F : v # c => Kids(g, v) = Kids(h, v)
  /\ \A v \in A : g[v].parent = c
  /\ \A v \in Value \ F : v \notin A => g[v].parent = h[v].parent

(* Releasing and moving keep the invariant if all that a released value     *)
(* holds is released too, and what goes into c does not hold c.             *)
LEMMA MovesGood ==
  ASSUME NEW h, Good(h), NEW g, Nodes(g),
         NEW c \in Value, NEW F \in SUBSET Value, NEW A \in SUBSET Value,
         Moves(h, g, c, F, A),
         \A v \in F : Kids(h, v) \subseteq F,
         \A v \in F : h[v].parent \in F \cup {c, NULL},
         \A v \in A : h[v].parent = NULL /\ c \notin Tree(h, v)
  PROVE  Good(g)
<1>0. NULL \notin Value
  BY JsonTreeAssumption
<1>1. \A p, v \in Value : v \in Kids(h, p) <=> h[v].parent = p
  BY DEF Good, Linked
<1>2. Linked(g)
  <2>. SUFFICES ASSUME NEW p \in Value, NEW v \in Value
                PROVE  v \in Kids(g, p) <=> g[v].parent = p
    BY DEF Linked
  <2>1. CASE p \in F
    BY <1>0, <1>1, <2>1 DEF Moves
  <2>2. CASE p = c
    BY <1>0, <1>1, <2>2 DEF Moves
  <2>3. CASE p \notin F /\ p # c
    BY <1>0, <1>1, <2>3 DEF Moves
  <2>. QED
    BY <2>1, <2>2, <2>3
<1>3. PICK rank \in [Value -> Nat] : Below(h, rank)
  BY DEF Good, Ranked
<1>. DEFINE T == UNION {Tree(h, v) : v \in A}
            lift == [v \in Value |-> IF v \in T THEN rank[v] + rank[c] + 1
                                                ELSE rank[v]]
<1>4. /\ A \subseteq T /\ c \notin T /\ T \subseteq Value
      /\ \A v \in Value : h[v].parent \in T => v \in T
  BY TreeIs
<1>. HIDE DEF T
<1>5. lift \in [Value -> Nat]
  OBVIOUS
<1>6. ASSUME NEW v \in Value, g[v].parent # NULL
      PROVE  lift[g[v].parent] < lift[v]
  <2>1. v \notin F
    BY <1>6 DEF Moves
  <2>2. CASE v \in A
    BY <1>4, <2>2 DEF Moves
  <2>3. CASE v \notin A
    <3>. DEFINE p == h[v].parent
    <3>1. g[v].parent = p /\ p \in Value
      BY <1>6, <2>1, <2>3, Fields DEF Moves, Good
    <3>2. rank[p] < rank[v]
      BY <1>3, <1>6, <3>1 DEF Below
    <3>3. p \in T => v \in T
      BY <1>4
    <3>. HIDE DEF p
    <3>. QED
      BY <3>1, <3>2, <3>3
  <2>. QED
    BY <2>2, <2>3
<1>. HIDE DEF lift
<1>7. Ranked(g)
  BY <1>5, <1>6 DEF Ranked, Below
<1>. QED
  BY <1>2, <1>7 DEF Good

(* What nothing holds, with all that it holds, can be released.             *)
LEMMA ReleaseGood ==
  ASSUME NEW h, Good(h), NEW v \in Value, h[v].parent = NULL
  PROVE  /\ Good(json_value_free(h, v))
         /\ \A w \in Value : json_value_free(h, v)[w] =
              IF w \in Tree(h, v) THEN NewValue("free") ELSE h[w]
<1>. DEFINE g == json_value_free(h, v)
            F == Tree(h, v)
<1>0. NULL \notin Value
  BY JsonTreeAssumption
<1>1. \A w \in Value : g[w] = IF w \in F THEN NewValue("free") ELSE h[w]
  BY DEF json_value_free
<1>2. /\ F \subseteq Value
      /\ \A w \in F : Kids(h, w) \subseteq F
      /\ \A w \in Value : h[w].parent \in F => w \in F
      /\ \A w \in F : h[w].parent \in F \cup {NULL}
  BY TreeIs
<1>3. g = [w \in Value |-> g[w]]
  BY DEF json_value_free
<1>. HIDE DEF g, F
<1>4. Node(NewValue("free"))
  BY NewNode
<1>5. Nodes(g)
  BY <1>1, <1>3, <1>4 DEF Nodes, Good, Node
<1>6. \A w \in Value : IF w \in F THEN Kids(g, w) = {} /\ g[w].parent = NULL
                       ELSE Kids(g, w) = Kids(h, w) /\ g[w].parent = h[w].parent
  BY <1>1 DEF Kids, ToSet, NewValue
<1>7. Linked(g)
  BY <1>0, <1>2, <1>6 DEF Linked, Good
<1>8. Ranked(g)
  BY <1>0, <1>2, <1>6, Fields DEF Ranked, Below, Good
<1>. QED
  BY <1>1, <1>5, <1>7, <1>8 DEF Good, g, F

(* A new value takes a free address, which nothing leads to                 *)
(* (parson.c:1253-1318).                                                    *)
LEMMA NewGood ==
  ASSUME NEW h, Good(h), NEW type \in Type \cup {"free"}, FreeAddresses(h) # {}
  PROVE  LET new == malloc(h)
             g == json_value_init(h, type) IN
         /\ new \in Value /\ h[new].type = "free"
         /\ Good(g)
         /\ g[new] = NewValue(type)
         /\ \A v \in Value : v # new => g[v] = h[v]
         /\ \A v \in Value : h[v].parent # new /\ g[v].parent # new
         /\ Kids(g, new) = {}
<1>. DEFINE new == malloc(h)
            g == json_value_init(h, type)
<1>0. NULL \notin Value
  BY JsonTreeAssumption
<1>1. new \in Value /\ h[new].type = "free"
  BY DEF malloc, FreeAddresses, Live
<1>2. /\ g = [v \in Value |-> g[v]]
      /\ g[new] = NewValue(type)
      /\ \A v \in Value : v # new => g[v] = h[v]
  BY <1>1 DEF json_value_init, Good, Nodes
<1>. HIDE DEF new, g
<1>3. Kids(h, new) = {} /\ h[new].parent = NULL
  BY <1>1 DEF Good, Nodes, Node, Kids, ToSet
<1>4. Kids(g, new) = {} /\ g[new].parent = NULL
  BY <1>2 DEF NewValue, Kids, ToSet
<1>5. Nodes(g)
  BY <1>2, NewNode DEF Nodes, Good, Node
<1>6. \A v \in Value : Kids(g, v) = Kids(h, v) /\ g[v].parent = h[v].parent
  BY <1>2, <1>3, <1>4 DEF Kids
<1>7. Good(g)
  BY <1>5, <1>6 DEF Good, Linked, Ranked, Below
<1>8. \A v \in Value : h[v].parent # new /\ g[v].parent # new
  BY <1>1, <1>3, <1>6 DEF Good, Linked
<1>. QED
  BY <1>1, <1>2, <1>4, <1>7, <1>8 DEF new, g
-----------------------------------------------------------------------------
(* Sequences without repetition.                                            *)

(* A sequence without repetition has one more element after Append.         *)
LEMMA AppendedIs ==
  ASSUME NEW S, NEW s \in Seq(S), IsInjective(s), NEW x \in S, x \notin ToSet(s)
  PROVE  /\ Append(s, x) \in Seq(S) /\ Len(Append(s, x)) = Len(s) + 1
         /\ IsInjective(Append(s, x))
         /\ ToSet(Append(s, x)) = ToSet(s) \cup {x}
<1>. DEFINE t == Append(s, x)
            n == Len(s)
<1>1. /\ n \in Nat /\ DOMAIN s = 1 .. n
      /\ t \in Seq(S) /\ Len(t) = n + 1 /\ DOMAIN t = 1 .. n + 1
      /\ \A i \in 1 .. n : t[i] = s[i]
      /\ t[n + 1] = x
  BY LenProperties, AppendProperties
<1>. HIDE DEF t, n
<1>2. \A i \in 1 .. n : t[i] # x
  BY <1>1 DEF ToSet
<1>3. IsInjective(t)
  BY <1>1, <1>2 DEF IsInjective
<1>4. ToSet(t) = ToSet(s) \cup {x}
  BY <1>1 DEF ToSet
<1>. QED
  BY <1>1, <1>3, <1>4 DEF t, n

(* An element takes the place of another one in a sequence without          *)
(* repetition.                                                              *)
LEMMA ExchangedIs ==
  ASSUME NEW S, NEW s \in Seq(S), IsInjective(s), NEW i \in DOMAIN s,
         NEW x \in S, x \notin ToSet(s)
  PROVE  LET t == [s EXCEPT ![i] = x] IN
         /\ t \in Seq(S) /\ Len(t) = Len(s) /\ DOMAIN t = DOMAIN s
         /\ t[i] = x
         /\ IsInjective(t)
         /\ ToSet(t) = (ToSet(s) \ {s[i]}) \cup {x}
<1>. DEFINE t == [s EXCEPT ![i] = x]
            n == Len(s)
<1>1. /\ n \in Nat /\ DOMAIN s = 1 .. n
      /\ t \in Seq(S) /\ Len(t) = n /\ DOMAIN t = 1 .. n
      /\ \A j \in 1 .. n : t[j] = IF j = i THEN x ELSE s[j]
  BY LenProperties, ExceptSeq
<1>. HIDE DEF t, n
<1>2. \A j \in 1 .. n : s[j] # x
  BY <1>1 DEF ToSet
<1>3. IsInjective(t)
  BY <1>1, <1>2 DEF IsInjective
<1>4. \A j \in 1 .. n : j # i => s[j] # s[i]
  BY <1>1 DEF IsInjective
<1>5. ToSet(t) = (ToSet(s) \ {s[i]}) \cup {x}
  BY <1>1, <1>4 DEF ToSet
<1>. QED
  BY <1>1, <1>3, <1>5 DEF t, n

\* The last element takes the place of the i-th, as in json_object_remove
\* (parson.c:1808).
MovedUp(s, i) == Front([s EXCEPT ![i] = s[Len(s)]])

(* MovedUp takes one element away.                                          *)
LEMMA MovedUpIs ==
  ASSUME NEW S, NEW s \in Seq(S), IsInjective(s), NEW i \in DOMAIN s
  PROVE  LET t == MovedUp(s, i) IN
         /\ t \in Seq(S) /\ Len(t) = Len(s) - 1
         /\ IsInjective(t)
         /\ ToSet(t) = ToSet(s) \ {s[i]}
         /\ \A j \in DOMAIN t : t[j] = s[IF j = i THEN Len(s) ELSE j]
<1>. DEFINE n == Len(s)
            u == [s EXCEPT ![i] = s[n]]
            t == Front(u)
<1>1. n \in Nat /\ DOMAIN s = 1 .. n /\ i \in 1 .. n /\ s[n] \in S
  BY LenProperties, ElementOfSeq
<1>2. /\ u \in Seq(S) /\ Len(u) = n
      /\ \A j \in 1 .. n : u[j] = IF j = i THEN s[n] ELSE s[j]
  BY <1>1, ExceptSeq
<1>. HIDE DEF u, n
<1>3. /\ t \in Seq(S) /\ Len(t) = n - 1 /\ DOMAIN t = 1 .. n - 1
      /\ \A j \in 1 .. n - 1 : t[j] = u[j]
  <2>1. \A j \in 1 .. n - 1 : u[j] \in S
    BY <1>1, <1>2, ElementOfSeq
  <2>2. /\ SubSeq(u, 1, n - 1) \in Seq(S)
        /\ Len(SubSeq(u, 1, n - 1)) = IF 1 <= n - 1 THEN n - 1 - 1 + 1 ELSE 0
        /\ \A j \in 1 .. n - 1 - 1 + 1 : SubSeq(u, 1, n - 1)[j] = u[1 + j - 1]
    BY <1>1, <2>1, SubSeqProperties
  <2>3. t = SubSeq(u, 1, n - 1)
    BY <1>2 DEF Front
  <2>4. t \in Seq(S) /\ Len(t) = n - 1
    BY <1>1, <2>2, <2>3
  <2>5. \A j \in 1 .. n - 1 : t[j] = u[j]
    BY <1>1, <2>2, <2>3
  <2>. QED
    BY <2>4, <2>5, LenProperties
<1>. HIDE DEF t
<1>4. \A j \in 1 .. n - 1 : t[j] = s[IF j = i THEN n ELSE j]
  BY <1>1, <1>2, <1>3
<1>5. IsInjective(t)
  BY <1>1, <1>3, <1>4 DEF IsInjective
<1>6. \A j \in 1 .. n : j # i => s[j] # s[i]
  BY <1>1 DEF IsInjective
<1>7. ToSet(t) = ToSet(s) \ {s[i]}
  <2>1. ASSUME NEW x \in ToSet(t) PROVE x \in ToSet(s) \ {s[i]}
    <3>1. PICK j \in 1 .. n - 1 : x = t[j]
      BY <1>3 DEF ToSet
    <3>. QED
      BY <1>1, <1>4, <1>6, <3>1 DEF ToSet
  <2>2. ASSUME NEW x \in ToSet(s) \ {s[i]} PROVE x \in ToSet(t)
    <3>1. PICK j \in 1 .. n : x = s[j] /\ j # i
      BY <1>1 DEF ToSet
    <3>2. CASE j = n
      <4>1. i \in 1 .. n - 1 /\ t[i] = x
        BY <1>1, <1>4, <3>1, <3>2
      <4>. QED
        BY <1>3, <4>1 DEF ToSet
    <3>3. CASE j # n
      <4>1. j \in 1 .. n - 1 /\ t[j] = x
        BY <1>1, <1>4, <3>1, <3>3
      <4>. QED
        BY <1>3, <4>1 DEF ToSet
    <3>. QED
      BY <3>2, <3>3
  <2>. QED
    BY <2>1, <2>2
<1>. QED
  BY <1>3, <1>4, <1>5, <1>7 DEF t, u, n, MovedUp

(* RemoveAt, which is the memmove of json_array_remove, takes one element   *)
(* away (parson.c:1551).                                                    *)
LEMMA RemovedIs ==
  ASSUME NEW S, NEW s \in Seq(S), IsInjective(s), NEW i \in DOMAIN s
  PROVE  LET t == RemoveAt(s, i) IN
         /\ t \in Seq(S) /\ Len(t) = Len(s) - 1
         /\ IsInjective(t)
         /\ ToSet(t) = ToSet(s) \ {s[i]}
         /\ \A j \in DOMAIN t : t[j] = s[IF j < i THEN j ELSE j + 1]
<1>. DEFINE n == Len(s)
            a == SubSeq(s, 1, i - 1)
            b == SubSeq(s, i + 1, n)
            t == a \o b
<1>1. /\ n \in Nat /\ DOMAIN s = 1 .. n /\ i \in 1 .. n
      /\ \A j \in 1 .. n : s[j] \in S
  BY LenProperties, ElementOfSeq
<1>. HIDE DEF n
<1>2. /\ a \in Seq(S) /\ Len(a) = i - 1
      /\ \A j \in 1 .. i - 1 : a[j] = s[j]
  <2>1. \A j \in 1 .. i - 1 : s[j] \in S
    BY <1>1
  <2>2. /\ a \in Seq(S) /\ Len(a) = IF 1 <= i - 1 THEN i - 1 - 1 + 1 ELSE 0
        /\ \A j \in 1 .. i - 1 - 1 + 1 : a[j] = s[1 + j - 1]
    BY <1>1, <2>1, SubSeqProperties
  <2>. QED
    BY <1>1, <2>2
<1>3. /\ b \in Seq(S) /\ Len(b) = n - i
      /\ \A j \in 1 .. n - i : b[j] = s[i + j]
  <2>1. \A j \in i + 1 .. n : s[j] \in S
    BY <1>1
  <2>2. /\ b \in Seq(S) /\ Len(b) = IF i + 1 <= n THEN n - (i + 1) + 1 ELSE 0
        /\ \A j \in 1 .. n - (i + 1) + 1 : b[j] = s[i + 1 + j - 1]
    BY <1>1, <2>1, SubSeqProperties
  <2>3. \A j \in 1 .. n - i : i + 1 + j - 1 = i + j
    BY <1>1
  <2>4. 1 .. n - (i + 1) + 1 = 1 .. n - i
    BY <1>1
  <2>. QED
    BY <1>1, <2>2, <2>3, <2>4
<1>. HIDE DEF a, b
<1>4. /\ t \in Seq(S) /\ Len(t) = n - 1 /\ DOMAIN t = 1 .. n - 1
      /\ \A j \in 1 .. n - 1 : t[j] = s[IF j < i THEN j ELSE j + 1]
  <2>1. /\ t \in Seq(S) /\ Len(t) = Len(a) + Len(b)
        /\ \A j \in 1 .. Len(a) + Len(b) :
             t[j] = IF j <= Len(a) THEN a[j] ELSE b[j - Len(a)]
    BY <1>2, <1>3, ConcatProperties
  <2>2. Len(t) = n - 1 /\ DOMAIN t = 1 .. n - 1
    BY <1>1, <1>2, <1>3, <2>1, LenProperties
  <2>. HIDE DEF t
  <2>3. ASSUME NEW j \in 1 .. n - 1
        PROVE  t[j] = s[IF j < i THEN j ELSE j + 1]
    <3>1. CASE j < i
      <4>1. t[j] = a[j] /\ j \in 1 .. i - 1
        BY <1>1, <1>2, <1>3, <2>1, <3>1, SMTT(30)
      <4>. QED
        BY <1>2, <3>1, <4>1
    <3>2. CASE ~(j < i)
      <4>1. t[j] = b[j - (i - 1)] /\ j - (i - 1) \in 1 .. n - i
        BY <1>1, <1>2, <1>3, <2>1, <3>2, SMTT(30)
      <4>2. i + (j - (i - 1)) = j + 1
        BY <1>1
      <4>. QED
        BY <1>3, <3>2, <4>1, <4>2
    <3>. QED
      BY <3>1, <3>2
  <2>. QED
    BY <2>1, <2>2, <2>3
<1>. HIDE DEF t
<1>. DEFINE from == [j \in 1 .. n - 1 |-> IF j < i THEN j ELSE j + 1]
<1>5. /\ \A j \in 1 .. n - 1 : from[j] \in 1 .. n /\ from[j] # i
      /\ \A j, k \in 1 .. n - 1 : from[j] = from[k] => j = k
  BY <1>1
<1>6. \A j \in 1 .. n : j # i => \E k \in 1 .. n - 1 : from[k] = j
  <2>. SUFFICES ASSUME NEW j \in 1 .. n, j # i
                PROVE  \E k \in 1 .. n - 1 : from[k] = j
    OBVIOUS
  <2>1. CASE j < i
    <3>1. j \in 1 .. n - 1 /\ from[j] = j
      BY <1>1, <2>1
    <3>. QED
      BY <3>1
  <2>2. CASE j > i
    <3>1. j - 1 \in 1 .. n - 1 /\ from[j - 1] = j
      BY <1>1, <2>2
    <3>. QED
      BY <3>1
  <2>. QED
    BY <1>1, <2>1, <2>2
<1>7. \A j \in 1 .. n - 1 : t[j] = s[from[j]]
  BY <1>4
<1>. HIDE DEF from
<1>8. \A j \in 1 .. n : j # i => s[j] # s[i]
  BY <1>1 DEF IsInjective
<1>9. IsInjective(t)
  <2>. SUFFICES ASSUME NEW j \in 1 .. n - 1, NEW k \in 1 .. n - 1, t[j] = t[k]
                PROVE  j = k
    BY <1>4 DEF IsInjective
  <2>1. from[j] = from[k]
    BY <1>1, <1>5, <1>7 DEF IsInjective
  <2>. QED
    BY <1>5, <2>1
<1>10. ToSet(t) = ToSet(s) \ {s[i]}
  <2>1. ASSUME NEW x \in ToSet(t) PROVE x \in ToSet(s) \ {s[i]}
    <3>1. PICK j \in 1 .. n - 1 : x = t[j]
      BY <1>4 DEF ToSet
    <3>2. from[j] \in 1 .. n /\ from[j] # i /\ x = s[from[j]]
      BY <1>5, <1>7, <3>1
    <3>. QED
      BY <1>1, <1>8, <3>2 DEF ToSet
  <2>2. ASSUME NEW x \in ToSet(s) \ {s[i]} PROVE x \in ToSet(t)
    <3>1. PICK j \in 1 .. n : x = s[j] /\ j # i
      BY <1>1 DEF ToSet
    <3>2. PICK k \in 1 .. n - 1 : from[k] = j
      BY <1>6, <3>1
    <3>3. t[k] = x
      BY <1>7, <3>1, <3>2
    <3>. QED
      BY <1>4, <3>3 DEF ToSet
  <2>. QED
    BY <2>1, <2>2
<1>. QED
  BY <1>4, <1>9, <1>10 DEF t, a, b, n, RemoveAt
-----------------------------------------------------------------------------
(* Names with dots.                                                         *)

(* The greatest of one number.                                              *)
LEMMA SingleMax == \A i \in Int : Max({i}) = i
BY DEF Max

(* A name with dots is one name, or two.                                    *)
LEMMA DottedIs ==
  ASSUME NEW path \in Dotted
  PROVE  /\ Last(path) \in Name
         /\ \/ Len(path) = 1 /\ Front(path) = << >>
            \/ Len(path) = 2 /\ \E name \in Name : Front(path) = <<name>>
<1>1. CASE \E name \in Name : path = <<name>>
  <2>1. PICK name \in Name : path = <<name>>
    BY <1>1
  <2>2. Len(path) = 1 /\ path[1] = name
    BY <2>1
  <2>3. Front(path) = << >>
    BY <2>1, <2>2, SubSeqEmpty DEF Front
  <2>. QED
    BY <2>2, <2>3 DEF Last
<1>2. CASE path \in Name \X Name
  <2>1. PICK n1, n2 \in Name : path = <<n1, n2>>
    BY <1>2
  <2>2. Len(path) = 2 /\ path[1] = n1 /\ path[2] = n2 /\ path \in Seq(Name)
    BY <2>1
  <2>3. SubSeq(path, 1, 1) \in Seq(Name) /\ Len(SubSeq(path, 1, 1)) = 1
        /\ SubSeq(path, 1, 1)[1] = n1
    BY <2>2, SubSeqProperties
  <2>4. SubSeq(path, 1, 1) = <<n1>>
    <3>. DEFINE t == <<n1>>
                u == SubSeq(path, 1, 1)
    <3>1. t \in Seq(Name) /\ Len(t) = 1 /\ t[1] = n1
      OBVIOUS
    <3>. HIDE DEF t, u
    <3>2. u \in Seq(Name) /\ Len(u) = 1 /\ u[1] = n1
      BY <2>3 DEF u
    <3>3. \A i \in 1 .. Len(u) : u[i] = t[i]
      BY <3>1, <3>2
    <3>4. u = t
      BY <3>1, <3>2, <3>3, SeqEqual
    <3>. QED
      BY <3>4 DEF t, u
  <2>5. Front(path) = <<n1>>
    <3>1. Len(path) - 1 = 1
      BY <2>2
    <3>. QED
      BY <2>4, <3>1 DEF Front
  <2>6. Last(path) = n2
    BY <2>2 DEF Last
  <2>. QED
    BY <2>2, <2>5, <2>6
<1>. QED
  BY <1>1, <1>2 DEF Dotted

\* The step of Innermost.
Entered(h, o, name) ==
  IF o = NULL THEN NULL ELSE json_object_get_object(h, o, name)

(* Innermost takes as many steps as there are names before the last.        *)
LEMMA InnermostIs ==
  ASSUME NEW h, NEW o, o # NULL, NEW path
  PROVE  /\ Front(path) = << >> => Innermost(h, o, path) = o
         /\ \A name : Front(path) = <<name>> =>
              Innermost(h, o, path) = json_object_get_object(h, o, name)
<1>. DEFINE s == Front(path)
<1>1. ASSUME s = << >> PROVE Innermost(h, o, path) = o
  <2>. DEFINE Iter(f) ==
                f = [t \in SUBSET {} |->
                       IF t = {} THEN o
                         ELSE Entered(h, f[t \ {Max(t)}], s[Max(t)])]
              iter == CHOOSE f : Iter(f)
              w == [t \in SUBSET {} |-> o]
  <2>1. DOMAIN s = {}
    BY <1>1
  <2>2. Innermost(h, o, path) = iter[{}]
    BY <2>1 DEF Innermost, Entered, FoldLeft, MapThenFoldSet
  <2>3. Iter(w)
    <3>1. \A t \in SUBSET {} : t = {}
      OBVIOUS
    <3>. QED
      BY <3>1
  <2>4. Iter(iter)
    <3>. HIDE DEF Iter, w
    <3>. QED
      BY <2>3
  <2>5. iter[{}] = o
    <3>. HIDE DEF iter, s
    <3>1. {} \in SUBSET {}
      OBVIOUS
    <3>. QED
      BY <2>4, <3>1
  <2>. QED
    BY <2>2, <2>5
<1>2. ASSUME NEW name, s = <<name>>
      PROVE  Innermost(h, o, path) = json_object_get_object(h, o, name)
  <2>. DEFINE Iter(f) ==
                f = [t \in SUBSET {1} |->
                       IF t = {} THEN o
                         ELSE Entered(h, f[t \ {Max(t)}], s[Max(t)])]
              iter == CHOOSE f : Iter(f)
              w == [t \in SUBSET {1} |->
                      IF t = {} THEN o ELSE Entered(h, o, name)]
  <2>1. DOMAIN s = {1} /\ s[1] = name
    BY <1>2
  <2>2. Innermost(h, o, path) = iter[{1}]
    BY <2>1 DEF Innermost, Entered, FoldLeft, MapThenFoldSet
  <2>3. /\ \A t \in SUBSET {1} : t = {} \/ t = {1}
        /\ {1} \ {1} = {} /\ {} \in SUBSET {1} /\ {1} \in SUBSET {1}
        /\ {1} # {}
    OBVIOUS
  <2>4. Max({1}) = 1
    BY SingleMax
  <2>5. Iter(w)
    <3>1. w[{}] = o /\ w[{1}] = Entered(h, o, name)
      BY <2>3
    <3>2. ASSUME NEW t \in SUBSET {1}
          PROVE  w[t] = IF t = {} THEN o
                          ELSE Entered(h, w[t \ {Max(t)}], s[Max(t)])
      <4>. HIDE DEF w, s
      <4>1. CASE t = {}
        BY <3>1, <4>1
      <4>2. CASE t = {1}
        <5>1. t \ {Max(t)} = {} /\ s[Max(t)] = name /\ t # {}
          BY <2>1, <2>3, <2>4, <4>2
        <5>. QED
          BY <3>1, <4>2, <5>1
      <4>. QED
        BY <2>3, <4>1, <4>2
    <3>3. w = [t \in SUBSET {1} |-> w[t]]
      OBVIOUS
    <3>. HIDE DEF w, s
    <3>. QED
      BY <3>2, <3>3
  <2>6. Iter(iter)
    <3>. HIDE DEF Iter, w
    <3>. QED
      BY <2>5
  <2>7. iter[{1}] = Entered(h, o, name)
    <3>. HIDE DEF iter, s
    <3>1. \A t \in SUBSET {1} :
            iter[t] = IF t = {} THEN o
                        ELSE Entered(h, iter[t \ {Max(t)}], s[Max(t)])
      BY <2>6
    <3>2. iter[{}] = o
      BY <2>3, <3>1
    <3>3. iter[{1}] = Entered(h, iter[{1} \ {Max({1})}], s[Max({1})])
      BY <2>3, <3>1
    <3>4. {1} \ {Max({1})} = {} /\ s[Max({1})] = name
      BY <2>1, <2>3, <2>4
    <3>. QED
      BY <3>2, <3>3, <3>4
  <2>. QED
    BY <2>2, <2>7 DEF Entered
<1>. QED
  BY <1>1, <1>2

(* The walk of json_object_dotset_value takes as many steps as there are    *)
(* names before the last.                                                   *)
LEMMA WalkIs ==
  ASSUME NEW o, NEW s
  PROVE  /\ s = << >> => FoldLeft(Enter, o, s) = o
         /\ \A name : s = <<name>> => FoldLeft(Enter, o, s) = Enter(o, name)
<1>1. ASSUME s = << >> PROVE FoldLeft(Enter, o, s) = o
  <2>. DEFINE Iter(f) ==
                f = [t \in SUBSET {} |->
                       IF t = {} THEN o
                         ELSE Enter(f[t \ {Max(t)}], s[Max(t)])]
              iter == CHOOSE f : Iter(f)
              w == [t \in SUBSET {} |-> o]
  <2>1. DOMAIN s = {}
    BY <1>1
  <2>2. FoldLeft(Enter, o, s) = iter[{}]
    BY <2>1 DEF FoldLeft, MapThenFoldSet
  <2>3. Iter(w)
    <3>1. \A t \in SUBSET {} : t = {}
      OBVIOUS
    <3>. QED
      BY <3>1
  <2>4. Iter(iter)
    <3>. HIDE DEF Iter, w
    <3>. QED
      BY <2>3
  <2>5. iter[{}] = o
    <3>. HIDE DEF iter
    <3>1. {} \in SUBSET {}
      OBVIOUS
    <3>. QED
      BY <2>4, <3>1
  <2>. QED
    BY <2>2, <2>5
<1>2. ASSUME NEW name, s = <<name>>
      PROVE  FoldLeft(Enter, o, s) = Enter(o, name)
  <2>. DEFINE Iter(f) ==
                f = [t \in SUBSET {1} |->
                       IF t = {} THEN o
                         ELSE Enter(f[t \ {Max(t)}], s[Max(t)])]
              iter == CHOOSE f : Iter(f)
              w == [t \in SUBSET {1} |-> IF t = {} THEN o ELSE Enter(o, name)]
  <2>1. DOMAIN s = {1} /\ s[1] = name
    BY <1>2
  <2>2. FoldLeft(Enter, o, s) = iter[{1}]
    BY <2>1 DEF FoldLeft, MapThenFoldSet
  <2>3. /\ \A t \in SUBSET {1} : t = {} \/ t = {1}
        /\ {1} \ {1} = {} /\ {} \in SUBSET {1} /\ {1} \in SUBSET {1}
        /\ {1} # {}
    OBVIOUS
  <2>4. Max({1}) = 1
    BY SingleMax
  <2>5. Iter(w)
    <3>1. w[{}] = o /\ w[{1}] = Enter(o, name)
      BY <2>3
    <3>2. ASSUME NEW t \in SUBSET {1}
          PROVE  w[t] = IF t = {} THEN o
                          ELSE Enter(w[t \ {Max(t)}], s[Max(t)])
      <4>. HIDE DEF w
      <4>1. CASE t = {}
        BY <3>1, <4>1
      <4>2. CASE t = {1}
        <5>1. t \ {Max(t)} = {} /\ s[Max(t)] = name /\ t # {}
          BY <2>1, <2>3, <2>4, <4>2
        <5>. QED
          BY <3>1, <4>2, <5>1
      <4>. QED
        BY <2>3, <4>1, <4>2
    <3>3. w = [t \in SUBSET {1} |-> w[t]]
      OBVIOUS
    <3>. HIDE DEF w
    <3>. QED
      BY <3>2, <3>3
  <2>6. Iter(iter)
    <3>. HIDE DEF Iter, w
    <3>. QED
      BY <2>5
  <2>7. iter[{1}] = Enter(o, name)
    <3>. HIDE DEF iter
    <3>1. \A t \in SUBSET {1} :
            iter[t] = IF t = {} THEN o
                        ELSE Enter(iter[t \ {Max(t)}], s[Max(t)])
      BY <2>6
    <3>2. iter[{}] = o
      BY <2>3, <3>1
    <3>3. iter[{1}] = Enter(iter[{1} \ {Max({1})}], s[Max({1})])
      BY <2>3, <3>1
    <3>4. {1} \ {Max({1})} = {} /\ s[Max({1})] = name
      BY <2>1, <2>3, <2>4
    <3>. QED
      BY <3>2, <3>3, <3>4
  <2>. QED
    BY <2>2, <2>7
<1>. QED
  BY <1>1, <1>2
-----------------------------------------------------------------------------
(* Reading and adding members.                                              *)

(* After the arrays grow, one more value fits (parson.c:356, 442).          *)
LEMMA GrownIs ==
  ASSUME NEW n \in Nat, NEW c \in Nat, n <= c
  PROVE  Grown(n, c) \in Nat /\ n + 1 <= Grown(n, c)
<1>. DEFINE a == 2 * c
            b == STARTING_CAPACITY
<1>1. a \in Nat /\ b \in Nat /\ b >= 1 /\ c * 2 = a
  BY JsonTreeAssumption
<1>2. Max({a, b}) = IF a >= b THEN a ELSE b
  BY <1>1 DEF Max
<1>. HIDE DEF b
<1>3. Grown(n, c) = IF n < c THEN c ELSE IF a >= b THEN a ELSE b
  BY <1>1, <1>2 DEF Grown, b
<1>4. ~(n < c) => n = c
  OBVIOUS
<1>. QED
  BY <1>1, <1>3, <1>4

(* Index finds the one place of a name, or there is none.                   *)
LEMMA IndexIs ==
  ASSUME NEW h, Nodes(h), NEW o \in Value, NEW name
  PROVE  \/ Index(h, o, name) = 0 /\ name \notin ToSet(h[o].names)
         \/ /\ Index(h, o, name) \in DOMAIN h[o].names
            /\ h[o].names[Index(h, o, name)] = name
            /\ Index(h, o, name) # 0
<1>. DEFINE s == h[o].names
            found == {i \in DOMAIN s : s[i] = name}
<1>1. DOMAIN s = 1 .. Len(s) /\ Len(s) \in Nat /\ IsInjective(s)
  BY LenProperties, Fields DEF Nodes, Node
<1>2. Index(h, o, name) = IF found = {} THEN 0 ELSE Min(found)
  BY DEF Index
<1>. HIDE DEF s
<1>3. CASE found = {}
  BY <1>2, <1>3 DEF ToSet, s
<1>4. CASE found # {}
  <2>1. PICK i \in DOMAIN s : s[i] = name
    BY <1>4
  <2>2. found = {i} /\ i # 0 /\ i \in Int
    BY <1>1, <2>1 DEF IsInjective
  <2>. HIDE DEF found
  <2>3. Min(found) = i
    BY <2>2 DEF Min
  <2>. QED
    BY <1>2, <1>4, <2>1, <2>2, <2>3 DEF s
<1>. QED
  BY <1>3, <1>4

(* json_object_get_value finds a value that the object holds, or the name   *)
(* is not there (parson.c:1075).                                            *)
LEMMA GetIs ==
  ASSUME NEW h, Nodes(h), NEW o \in Value, h[o].type = "object", NEW name
  PROVE  LET i == Index(h, o, name)
             v == json_object_get_value(h, o, name) IN
         \/ i = 0 /\ v = NULL /\ name \notin ToSet(h[o].names)
         \/ /\ i # 0 /\ i \in DOMAIN h[o].values /\ i \in DOMAIN h[o].names
            /\ v = h[o].values[i]
            /\ v \in Kids(h, o) /\ v \in Value /\ v # NULL
<1>. DEFINE i == Index(h, o, name)
<1>1. /\ Len(h[o].names) = Len(h[o].values)
      /\ h[o].names \in Seq(Name) /\ h[o].values \in Seq(Value)
  BY Fields DEF Nodes, Node
<1>2. DOMAIN h[o].names = DOMAIN h[o].values
  BY <1>1, LenProperties
<1>3. \A j \in DOMAIN h[o].values :
        h[o].values[j] \in Kids(h, o) /\ h[o].values[j] \in Value
  BY <1>1, ElementOfSeq, LenProperties DEF Kids, ToSet
<1>. QED
  BY <1>2, <1>3, IndexIs, JsonTreeAssumption DEF json_object_get_value

\* v can go into the container c.
Takes(h, c, v) ==
  h[v].type # "free" /\ h[v].parent = NULL /\ c \notin Tree(h, v)

\* n is at the address v.
With(h, v, n) == [h EXCEPT ![v] = n]

\* The container c becomes nc, and v is in it.
Attached(h, c, nc, v) ==
  With(With(h, c, nc), v, [h[v] EXCEPT !.parent = c])

(* A value that is put into a container keeps its shape.                    *)
LEMMA HeldNode ==
  ASSUME NEW n, Node(n), n.type # "free", NEW p \in Value
  PROVE  Node([n EXCEPT !.parent = p])
BY DEF Node, JSON_Value

(* Writing one value keeps the shape of all.                                *)
LEMMA ChangedNode ==
  ASSUME NEW h, Nodes(h), NEW c \in Value, NEW n, Node(n)
  PROVE  LET g == With(h, c, n) IN
         /\ Nodes(g) /\ g[c] = n
         /\ \A w \in Value : w # c => g[w] = h[w]
BY DEF Nodes, Node, With

(* Writing a container and a value in it keeps the shape of all.            *)
LEMMA ChangedNodes ==
  ASSUME NEW h, Nodes(h), NEW c \in Value, NEW nc, Node(nc),
         NEW v \in Value, v # c, Node(h[v]), h[v].type # "free"
  PROVE  LET g == Attached(h, c, nc, v) IN
         /\ Nodes(g) /\ g[c] = nc
         /\ g[v].parent = c /\ g[v].values = h[v].values
         /\ g[v].type = h[v].type
         /\ \A w \in Value : w \notin {c, v} => g[w] = h[w]
<1>. DEFINE nv == [h[v] EXCEPT !.parent = c]
            g1 == With(h, c, nc)
            g == With(g1, v, nv)
<1>1. Node(nv)
  BY HeldNode
<1>2. /\ nv.type = h[v].type /\ nv.parent = c /\ nv.values = h[v].values
  BY DEF Node, JSON_Value
<1>. HIDE DEF nv, g1, g
<1>3. /\ Nodes(g1) /\ g1[c] = nc
      /\ \A w \in Value : w # c => g1[w] = h[w]
  BY ChangedNode DEF g1
<1>4. /\ Nodes(g) /\ g[v] = nv
      /\ \A w \in Value : w # v => g[w] = g1[w]
  BY <1>1, <1>3, ChangedNode DEF g
<1>5. Attached(h, c, nc, v) = g
  BY DEF Attached, g, g1, nv
<1>. QED
  BY <1>2, <1>3, <1>4, <1>5

(* A value that can go into a container does, at a new place.               *)
LEMMA AppendGood ==
  ASSUME NEW h, Good(h), NEW c \in Value, NEW v \in Value, Takes(h, c, v),
         NEW nc, Node(nc), nc.parent = h[c].parent, nc.type = h[c].type,
         ToSet(nc.values) = Kids(h, c) \cup {v},
         NEW g, g = Attached(h, c, nc, v)
  PROVE  /\ Good(g)
         /\ \A w \in Value : /\ g[w].type = h[w].type
                             /\ w # v => g[w].parent = h[w].parent
         /\ g[v].parent = c /\ g[v].values = h[v].values
         /\ g[c].values = nc.values
         /\ \A w \in Value : w # c => Kids(g, w) = Kids(h, w)
<1>1. Nodes(h) /\ Node(h[v]) /\ c # v
  BY TreeIs DEF Good, Nodes, Takes
<1>4. /\ Nodes(g) /\ g[c] = nc
      /\ g[v].parent = c /\ g[v].values = h[v].values
      /\ g[v].type = h[v].type
      /\ \A w \in Value : w \notin {c, v} => g[w] = h[w]
  BY <1>1, ChangedNodes DEF Takes
<1>5. /\ \A w \in Value : w # c => Kids(g, w) = Kids(h, w)
      /\ Kids(g, c) = Kids(h, c) \cup {v}
      /\ \A w \in Value : w # v => g[w].parent = h[w].parent
      /\ g[v].parent = c
  BY <1>4 DEF Kids
<1>6. Moves(h, g, c, {}, {v})
  BY <1>1, <1>5 DEF Moves
<1>7. Good(g)
  BY <1>4, <1>6, MovesGood DEF Takes
<1>. QED
  BY <1>4, <1>5, <1>7

(* json_object_add adds a value that may go there, or the name is taken and *)
(* nothing changes (parson.c:347-366).                                      *)
LEMMA AddGood ==
  ASSUME NEW h, Good(h), NEW o \in Value, h[o].type = "object",
         NEW name \in Name, NEW v \in Value, Takes(h, o, v),
         NEW r, r = json_object_add(h, o, name, v)
  PROVE  \/ r = Failure(h) /\ json_object_get_value(h, o, name) # NULL
         \/ /\ r.ret = "JSONSuccess"
            /\ Good(r.heap)
            /\ \A w \in Value :
                 /\ r.heap[w].type = h[w].type
                 /\ w # v => r.heap[w].parent = h[w].parent
            /\ r.heap[v].parent = o
            /\ \A w \in Value : w # o => Kids(r.heap, w) = Kids(h, w)
            /\ Kids(r.heap, o) = Kids(h, o) \cup {v}
<1>. SUFFICES ASSUME json_object_get_value(h, o, name) = NULL
              PROVE  /\ r.ret = "JSONSuccess"
                     /\ Good(r.heap)
                     /\ \A w \in Value :
                          /\ r.heap[w].type = h[w].type
                          /\ w # v => r.heap[w].parent = h[w].parent
                     /\ r.heap[v].parent = o
                     /\ \A w \in Value : w # o => Kids(r.heap, w) = Kids(h, w)
                     /\ Kids(r.heap, o) = Kids(h, o) \cup {v}
  BY Zenon DEF json_object_add
<1>. DEFINE n == h[o]
            names == Append(n.names, name)
            values == Append(n.values, v)
            capacity == Grown(Len(n.values), n.capacity)
            nc == [n EXCEPT !.names = names, !.values = values,
                            !.capacity = capacity]
            g == Attached(h, o, nc, v)
<1>1. Nodes(h) /\ Node(n) /\ o # v /\ v \notin Kids(h, o)
  BY TreeIs, JsonTreeAssumption DEF Good, Nodes, Takes, Linked
<1>2. r = Success(g)
  <2>1. h \in [Value -> JSON_Value]
    BY <1>1 DEF Nodes
  <2>2. [h EXCEPT ![o].names = Append(@, name),
                  ![o].values = Append(@, v),
                  ![o].capacity = Grown(Len(h[o].values), h[o].capacity),
                  ![v].parent = o] = g
    BY <1>1, <2>1 DEF JSON_Value, Attached, With
  <2>. QED
    BY <2>2 DEF json_object_add
<1>3. name \notin ToSet(n.names)
  BY <1>1, GetIs
<1>4. /\ n.names \in Seq(Name) /\ n.values \in Seq(Value) /\ n.capacity \in Nat
      /\ Len(n.values) <= n.capacity /\ Len(n.names) = Len(n.values)
      /\ IsInjective(n.names) /\ IsInjective(n.values)
      /\ n.type = "object" /\ n.parent \in Value \cup {NULL} /\ n \in JSON_Value
      /\ v \notin ToSet(n.values) /\ Len(n.values) \in Nat
  BY <1>1, Fields, LenProperties DEF Node, Kids
<1>5. /\ names \in Seq(Name) /\ Len(names) = Len(n.names) + 1
      /\ IsInjective(names)
  BY <1>3, <1>4, AppendedIs
<1>6. /\ values \in Seq(Value) /\ Len(values) = Len(n.values) + 1
      /\ IsInjective(values) /\ ToSet(values) = Kids(h, o) \cup {v}
  BY <1>4, AppendedIs DEF Kids
<1>7. capacity \in Nat /\ Len(n.values) + 1 <= capacity
  BY <1>4, GrownIs
<1>. HIDE DEF names, values, capacity
<1>8. /\ nc \in JSON_Value /\ nc.type = "object" /\ nc.parent = n.parent
      /\ nc.names = names /\ nc.values = values /\ nc.capacity = capacity
  BY <1>4, <1>5, <1>6, <1>7 DEF JSON_Value
<1>. HIDE DEF nc, n
<1>9. Node(nc)
  BY <1>4, <1>5, <1>6, <1>7, <1>8 DEF Node, Scalar
<1>. HIDE DEF g
<1>10. /\ Good(g)
       /\ \A w \in Value : /\ g[w].type = h[w].type
                           /\ w # v => g[w].parent = h[w].parent
       /\ g[v].parent = o
       /\ g[o].values = values
       /\ \A w \in Value : w # o => Kids(g, w) = Kids(h, w)
  BY <1>6, <1>8, <1>9, AppendGood DEF n, g
<1>11. Kids(g, o) = Kids(h, o) \cup {v}
  BY <1>6, <1>10 DEF Kids
<1>. QED
  BY <1>2, <1>10, <1>11, SMTT(30) DEF Success
-----------------------------------------------------------------------------
(* Releasing and exchanging what a container holds.                         *)

(* A place of a container leads to a value that knows the container, and    *)
(* does not hold it.                                                        *)
LEMMA ItemIs ==
  ASSUME NEW h, Good(h), NEW c \in Value, NEW i \in DOMAIN h[c].values
  PROVE  LET old == h[c].values[i] IN
         /\ old \in Value /\ old \in Kids(h, c) /\ h[old].parent = c
         /\ c \notin Tree(h, old)
<1>. DEFINE old == h[c].values[i]
<1>1. h[c].values \in Seq(Value)
  BY Fields DEF Good
<1>2. old \in Value /\ old \in Kids(h, c)
  BY <1>1, ElementOfSeq, LenProperties DEF Kids, ToSet
<1>3. h[old].parent = c
  BY <1>2 DEF Good, Linked
<1>. QED
  BY <1>2, <1>3, TreeIs

(* What json_value_free leaves when a container holds the value.            *)
LEMMA FreedIs ==
  ASSUME NEW h, Good(h), NEW c \in Value, NEW old \in Kids(h, c),
         NEW f, f = json_value_free(h, old)
  PROVE  LET F == Tree(h, old) IN
         /\ old \in Value
         /\ Nodes(f) /\ f[c] = h[c] /\ c \notin F
         /\ F \subseteq Value
         /\ \A w \in F : /\ Kids(f, w) = {} /\ f[w].parent = NULL
                         /\ Kids(h, w) \subseteq F
                         /\ h[w].parent \in F \cup {c}
         /\ \A w \in Value \ F : f[w] = h[w]
         /\ Kids(h, c) \ F = Kids(h, c) \ {old}
<1>. DEFINE F == Tree(h, old)
<1>0. NULL \notin Value
  BY JsonTreeAssumption
<1>1. old \in Value /\ h[old].parent = c /\ Nodes(h)
  BY Fields DEF Good, Linked
<1>2. /\ old \in F /\ F \subseteq Value /\ c \notin F
      /\ \A w \in F : Kids(h, w) \subseteq F
      /\ \A w \in F : w = old \/ h[w].parent \in F
  BY <1>1, TreeIs
<1>3. f = [w \in Value |-> IF w \in F THEN NewValue("free") ELSE h[w]]
  BY DEF json_value_free
<1>. HIDE DEF F
<1>4. Nodes(f)
  BY <1>1, <1>3, NewNode DEF Nodes, Node
<1>5. \A w \in Kids(h, c) : h[w].parent = c
  BY <1>1, Fields DEF Good, Linked
<1>6. Kids(h, c) \ F = Kids(h, c) \ {old}
  BY <1>2, <1>5
<1>7. \A w \in F : Kids(f, w) = {} /\ f[w].parent = NULL
  BY <1>2, <1>3 DEF Kids, ToSet, NewValue
<1>8. \A w \in F : h[w].parent \in F \cup {c}
  BY <1>1, <1>2
<1>9. \A w \in Value \ F : f[w] = h[w]
  BY <1>3
<1>10. f[c] = h[c]
  BY <1>2, <1>9
<1>. QED
  BY <1>1, <1>2, <1>4, <1>6, <1>7, <1>8, <1>9, <1>10 DEF F

(* A value is released from its container.                                  *)
LEMMA DetachGood ==
  ASSUME NEW h, Good(h), NEW c \in Value, NEW old \in Kids(h, c),
         NEW nc, Node(nc), nc.parent = h[c].parent, nc.type = h[c].type,
         ToSet(nc.values) = Kids(h, c) \ {old},
         NEW g, g = With(json_value_free(h, old), c, nc)
  PROVE  Good(g)
<1>. DEFINE F == Tree(h, old)
            f == json_value_free(h, old)
<1>0. NULL \notin Value
  BY JsonTreeAssumption
<1>1. /\ Nodes(f) /\ f[c] = h[c] /\ c \notin F /\ F \subseteq Value
      /\ \A w \in F : /\ Kids(f, w) = {} /\ f[w].parent = NULL
                      /\ Kids(h, w) \subseteq F
                      /\ h[w].parent \in F \cup {c}
      /\ \A w \in Value \ F : f[w] = h[w]
      /\ Kids(h, c) \ F = Kids(h, c) \ {old}
  BY FreedIs
<1>. HIDE DEF F, f
<1>2. g = With(f, c, nc)
  BY DEF f
<1>3. /\ Nodes(g) /\ g[c] = nc
      /\ \A w \in Value : w # c => g[w] = f[w]
  BY <1>1, <1>2, ChangedNode
<1>5. /\ \A w \in F : Kids(g, w) = {} /\ g[w].parent = NULL
      /\ \A w \in Value \ F : w # c => Kids(g, w) = Kids(h, w)
      /\ \A w \in Value \ F : g[w].parent = h[w].parent
      /\ Kids(g, c) = Kids(h, c) \ F
  BY <1>1, <1>3, ZenonT(30) DEF Kids
<1>6. Moves(h, g, c, F, {})
  BY <1>1, <1>5 DEF Moves
<1>. QED
  BY <1>1, <1>3, <1>6, MovesGood

\* What container c held as old has been released, and c changed.
Detached(h, g, c, old) ==
  /\ \A w \in Tree(h, old) : g[w].type = "free"
  /\ \A w \in Value \ Tree(h, old) : w # c => g[w] = h[w]
  /\ g[c].type = h[c].type /\ g[c].parent = h[c].parent

(* That is so when old is taken from c and released.                        *)
LEMMA DetachIs ==
  ASSUME NEW h, Good(h), NEW c \in Value, NEW old \in Kids(h, c),
         NEW nc, nc.parent = h[c].parent, nc.type = h[c].type,
         NEW g, g = With(json_value_free(h, old), c, nc)
  PROVE  Detached(h, g, c, old) /\ g[c] = nc
<1>. DEFINE f == json_value_free(h, old)
            F == Tree(h, old)
<1>1. f = [w \in Value |-> IF w \in F THEN NewValue("free") ELSE h[w]]
  BY DEF json_value_free
<1>2. c \notin F /\ F \subseteq Value
  BY FreedIs
<1>. HIDE DEF f, F
<1>3. /\ g[c] = nc
      /\ \A w \in Value : w # c => g[w] = f[w]
  BY <1>1 DEF With, f
<1>4. \A w \in F : g[w].type = "free"
  BY <1>1, <1>2, <1>3 DEF NewValue
<1>5. \A w \in Value \ F : w # c => g[w] = h[w]
  BY <1>1, <1>3
<1>. QED
  BY <1>3, <1>4, <1>5 DEF Detached, F

(* A value takes the place of another, which is released.                   *)
LEMMA ExchangeGood ==
  ASSUME NEW h, Good(h), NEW c \in Value, NEW old \in Kids(h, c),
         NEW v \in Value, Takes(h, c, v),
         NEW nc, Node(nc), nc.parent = h[c].parent, nc.type = h[c].type,
         ToSet(nc.values) = (Kids(h, c) \ {old}) \cup {v},
         NEW g, g = Attached(json_value_free(h, old), c, nc, v)
  PROVE  Good(g)
<1>. DEFINE F == Tree(h, old)
            f == json_value_free(h, old)
<1>0. NULL \notin Value
  BY JsonTreeAssumption
<1>1. /\ Nodes(f) /\ f[c] = h[c] /\ c \notin F /\ F \subseteq Value
      /\ \A w \in F : /\ Kids(f, w) = {} /\ f[w].parent = NULL
                      /\ Kids(h, w) \subseteq F
                      /\ h[w].parent \in F \cup {c}
      /\ \A w \in Value \ F : f[w] = h[w]
      /\ Kids(h, c) \ F = Kids(h, c) \ {old}
  BY FreedIs
<1>. HIDE DEF F, f
<1>2. /\ v # c /\ v \notin F /\ f[v] = h[v] /\ Node(f[v]) /\ f[v].type # "free"
      /\ h[v].parent = NULL /\ c \notin Tree(h, v)
  BY <1>0, <1>1, TreeIs DEF Takes, Nodes
<1>5. g = Attached(f, c, nc, v)
  BY DEF f
<1>6. /\ Nodes(g) /\ g[c] = nc
      /\ g[v].parent = c /\ g[v].values = h[v].values
      /\ \A w \in Value : w \notin {c, v} => g[w] = f[w]
  BY <1>1, <1>2, <1>5, ChangedNodes
<1>8. /\ \A w \in F : Kids(g, w) = {} /\ g[w].parent = NULL
      /\ \A w \in Value \ F : w # c => Kids(g, w) = Kids(h, w)
      /\ \A w \in Value \ F : w # v => g[w].parent = h[w].parent
      /\ g[v].parent = c
      /\ Kids(g, c) = (Kids(h, c) \ F) \cup {v}
  BY <1>1, <1>2, <1>6, SMTT(30) DEF Kids
<1>9. Moves(h, g, c, F, {v})
  BY <1>1, <1>2, <1>8 DEF Moves
<1>. QED
  BY <1>1, <1>2, <1>6, <1>9, MovesGood

(* json_object_set_value and json_array_replace_value keep the invariant    *)
(* where a value is there already (parson.c:1556, 1688).                    *)
LEMMA ReplacedGood ==
  ASSUME NEW h, Good(h), NEW c \in Value, NEW i \in DOMAIN h[c].values,
         NEW v \in Value, Takes(h, c, v)
  PROVE  Good(Replaced(h, c, i, v))
<1>. DEFINE n == h[c]
            old == n.values[i]
            values == [n.values EXCEPT ![i] = v]
            nc == [n EXCEPT !.values = values]
            f == json_value_free(h, old)
            g == Attached(f, c, nc, v)
<1>1. old \in Value /\ old \in Kids(h, c)
  BY ItemIs
<1>2. Nodes(f) /\ f[c] = n /\ Node(n)
  BY <1>1, FreedIs DEF Nodes
<1>3. v # c /\ v \notin Kids(h, c)
  BY TreeIs, JsonTreeAssumption DEF Good, Linked, Takes
<1>4. Replaced(h, c, i, v) = g
  BY <1>2, <1>3 DEF Replaced, Attached, With, Nodes, JSON_Value
<1>. HIDE DEF f
<1>5. /\ n \in JSON_Value /\ n.values \in Seq(Value) /\ IsInjective(n.values)
      /\ v \notin ToSet(n.values) /\ Len(n.values) # 0
  BY <1>2, <1>3, LenProperties DEF Node, JSON_Value, Kids
<1>6. /\ values \in Seq(Value) /\ Len(values) = Len(n.values)
      /\ IsInjective(values)
      /\ ToSet(values) = (Kids(h, c) \ {old}) \cup {v}
  BY <1>5, ExchangedIs DEF Kids
<1>7. n.type \notin Scalar \cup {"free"}
  BY <1>2, <1>5 DEF Node
<1>. HIDE DEF values
<1>8. /\ nc \in JSON_Value /\ nc.type = n.type /\ nc.parent = n.parent
      /\ nc.names = n.names /\ nc.values = values /\ nc.capacity = n.capacity
  BY <1>5, <1>6 DEF JSON_Value
<1>. HIDE DEF nc, n
<1>9. Node(nc)
  BY <1>2, <1>6, <1>7, <1>8 DEF Node
<1>10. ToSet(nc.values) = (Kids(h, c) \ {old}) \cup {v}
  BY <1>6, <1>8
<1>11. nc.parent = h[c].parent /\ nc.type = h[c].type
  BY <1>8 DEF n
<1>. HIDE DEF g, old
<1>12. g = Attached(json_value_free(h, old), c, nc, v)
  BY DEF g, f
<1>13. Good(g)
  BY <1>1, <1>9, <1>10, <1>11, <1>12, ExchangeGood
<1>. QED
  BY <1>4, <1>13

(* json_object_remove keeps the invariant (parson.c:1798).                  *)
LEMMA ObjectRemoveGood ==
  ASSUME NEW h, Good(h), NEW o \in Value, h[o].type = "object",
         NEW name \in Name
  PROVE  LET i == Index(h, o, name)
             g == json_object_remove(h, o, name).heap IN
         /\ Good(g)
         /\ i = 0 => g = h
         /\ i # 0 => /\ Detached(h, g, o, h[o].values[i])
                     /\ g[o].names = MovedUp(h[o].names, i)
                     /\ g[o].values = MovedUp(h[o].values, i)
<1>. DEFINE n == h[o]
            i == Index(h, o, name)
            old == n.values[i]
            last == Len(n.names)
            names == MovedUp(n.names, i)
            values == MovedUp(n.values, i)
            nc == [n EXCEPT !.names = names, !.values = values]
            f == json_value_free(h, old)
            g == With(f, o, nc)
<1>0. Nodes(h) /\ Node(n)
  BY SMTT(30) DEF Good, Nodes
<1>13. i = 0 => json_object_remove(h, o, name).heap = h
  BY Zenon DEF json_object_remove, Failure
<1>. SUFFICES ASSUME i # 0
              PROVE  LET k == json_object_remove(h, o, name).heap IN
                     /\ Good(k) /\ Detached(h, k, o, old)
                     /\ k[o].names = names /\ k[o].values = values
  BY <1>13, Zenon
<1>1. i \in DOMAIN n.values /\ i \in DOMAIN n.names
  BY <1>0, GetIs
<1>2. /\ n \in JSON_Value /\ n.values \in Seq(Value) /\ n.names \in Seq(Name)
      /\ IsInjective(n.names) /\ IsInjective(n.values)
      /\ Len(n.values) \in Nat /\ Len(n.names) = Len(n.values)
      /\ n.capacity \in Nat /\ Len(n.values) <= n.capacity
  BY <1>0, LenProperties DEF Node, JSON_Value
<1>3. old \in Value /\ old \in Kids(h, o)
  BY <1>1, ItemIs
<1>4. Nodes(f) /\ f[o] = n
  BY <1>3, FreedIs
<1>. HIDE DEF i, f, old
<1>5. json_object_remove(h, o, name) = Success(g)
  <2>1. f = [w \in Value |-> f[w]]
    BY <1>4 DEF Nodes
  <2>. DEFINE new ==
                [f EXCEPT
                   ![o].names = Front([@ EXCEPT ![i] = f[o].names[last]]),
                   ![o].values = Front([@ EXCEPT ![i] = f[o].values[last]])]
  <2>2. json_object_remove(h, o, name) = Success(new)
    BY DEF json_object_remove, i, f, old
  <2>3. /\ names = Front([n.names EXCEPT ![i] = n.names[last]])
        /\ values = Front([n.values EXCEPT ![i] = n.values[last]])
    BY <1>2 DEF MovedUp
  <2>. HIDE DEF names, values
  <2>4. new = g
    BY <1>2, <1>4, <2>1, <2>3 DEF With, JSON_Value
  <2>. QED
    BY <2>2, <2>4
<1>6. /\ names \in Seq(Name) /\ Len(names) = Len(n.names) - 1
      /\ IsInjective(names)
  <2>. DEFINE s == n.names
  <2>1. s \in Seq(Name) /\ IsInjective(s) /\ i \in DOMAIN s
    BY <1>1, <1>2
  <2>. HIDE DEF s
  <2>2. /\ MovedUp(s, i) \in Seq(Name) /\ Len(MovedUp(s, i)) = Len(s) - 1
        /\ IsInjective(MovedUp(s, i))
    BY <2>1, MovedUpIs
  <2>. QED
    BY <2>2 DEF s
<1>7. /\ values \in Seq(Value) /\ Len(values) = Len(n.values) - 1
      /\ IsInjective(values)
      /\ ToSet(values) = Kids(h, o) \ {old}
  <2>. DEFINE s == n.values
  <2>1. s \in Seq(Value) /\ IsInjective(s) /\ i \in DOMAIN s
    BY <1>1, <1>2
  <2>. HIDE DEF s
  <2>2. /\ MovedUp(s, i) \in Seq(Value) /\ Len(MovedUp(s, i)) = Len(s) - 1
        /\ IsInjective(MovedUp(s, i))
        /\ ToSet(MovedUp(s, i)) = ToSet(s) \ {s[i]}
    BY <2>1, MovedUpIs
  <2>. QED
    BY <2>2 DEF s, Kids, old
<1>. HIDE DEF names, values
<1>8. /\ nc \in JSON_Value /\ nc.type = "object" /\ nc.parent = n.parent
      /\ nc.names = names /\ nc.values = values /\ nc.capacity = n.capacity
  BY <1>2, <1>6, <1>7 DEF JSON_Value
<1>. HIDE DEF nc, n
<1>9. Node(nc)
  BY <1>2, <1>6, <1>7, <1>8 DEF Node, Scalar
<1>10. /\ ToSet(nc.values) = Kids(h, o) \ {old}
       /\ nc.parent = h[o].parent /\ nc.type = h[o].type
  BY <1>7, <1>8 DEF n
<1>. HIDE DEF g
<1>11. Good(g)
  BY <1>3, <1>9, <1>10, DetachGood DEF g, f
<1>12. Detached(h, g, o, old) /\ g[o] = nc
  BY <1>3, <1>10, DetachIs DEF g, f
<1>. QED
  BY <1>5, <1>8, <1>11, <1>12 DEF Success

(* json_array_remove keeps the invariant (parson.c:1544).                   *)
LEMMA ArrayRemoveGood ==
  ASSUME NEW h, Good(h), NEW a \in Value, h[a].type = "array", NEW i
  PROVE  LET g == json_array_remove(h, a, i).heap IN
         /\ Good(g)
         /\ i \notin DOMAIN h[a].values => g = h
         /\ i \in DOMAIN h[a].values =>
              /\ Detached(h, g, a, h[a].values[i])
              /\ g[a].values = RemoveAt(h[a].values, i)
<1>. DEFINE n == h[a]
            old == n.values[i]
            values == RemoveAt(n.values, i)
            nc == [n EXCEPT !.values = values]
            f == json_value_free(h, old)
            g == With(f, a, nc)
<1>0. Nodes(h) /\ Node(n)
  BY DEF Good, Nodes
<1>13. i \notin DOMAIN n.values => json_array_remove(h, a, i).heap = h
  BY DEF json_array_remove, Failure
<1>. SUFFICES ASSUME i \in DOMAIN n.values
              PROVE  LET k == json_array_remove(h, a, i).heap IN
                     Good(k) /\ Detached(h, k, a, old) /\ k[a].values = values
  BY <1>13, Zenon
<1>2. /\ n \in JSON_Value /\ n.values \in Seq(Value) /\ n.names = << >>
      /\ IsInjective(n.names) /\ IsInjective(n.values)
      /\ Len(n.values) \in Nat
      /\ n.capacity \in Nat /\ Len(n.values) <= n.capacity
  BY <1>0, LenProperties DEF Node, JSON_Value
<1>3. old \in Value /\ old \in Kids(h, a)
  BY ItemIs
<1>4. Nodes(f) /\ f[a] = n
  BY <1>3, FreedIs
<1>. HIDE DEF f, old
<1>5. json_array_remove(h, a, i) = Success(g)
  <2>1. f = [w \in Value |-> f[w]]
    BY <1>4 DEF Nodes
  <2>2. [f EXCEPT ![a].values = RemoveAt(@, i)] = g
    BY <1>2, <1>4, <2>1 DEF With
  <2>. QED
    BY <2>2 DEF json_array_remove, f, old
<1>7. /\ values \in Seq(Value) /\ Len(values) = Len(n.values) - 1
      /\ IsInjective(values)
      /\ ToSet(values) = Kids(h, a) \ {old}
  BY <1>2, RemovedIs DEF Kids, old
<1>. HIDE DEF values
<1>8. /\ nc \in JSON_Value /\ nc.type = "array" /\ nc.parent = n.parent
      /\ nc.names = n.names /\ nc.values = values /\ nc.capacity = n.capacity
  BY <1>2, <1>7 DEF JSON_Value
<1>. HIDE DEF nc, n
<1>9. Node(nc)
  BY <1>2, <1>7, <1>8 DEF Node, Scalar
<1>10. /\ ToSet(nc.values) = Kids(h, a) \ {old}
       /\ nc.parent = h[a].parent /\ nc.type = h[a].type
  BY <1>7, <1>8 DEF n
<1>. HIDE DEF g
<1>11. Good(g)
  BY <1>3, <1>9, <1>10, DetachGood DEF g, f
<1>12. Detached(h, g, a, old) /\ g[a] = nc
  BY <1>3, <1>10, DetachIs DEF g, f
<1>. QED
  BY <1>5, <1>8, <1>11, <1>12 DEF Success

(* json_object_clear and json_array_clear keep the invariant                *)
(* (parson.c:1614, 1836).                                                   *)
LEMMA ClearedGood ==
  ASSUME NEW h, Good(h), NEW c \in Value,
         h[c].type \in {"object", "array"}
  PROVE  Good(Cleared(h, c))
<1>. DEFINE n == h[c]
            nc == [n EXCEPT !.names = << >>, !.values = << >>]
            T == Tree(h, c)
            F == T \ {c}
            g == Cleared(h, c)
<1>0. NULL \notin Value
  BY JsonTreeAssumption
<1>1. /\ c \in T /\ T \subseteq Value
      /\ \A w \in T : Kids(h, w) \subseteq T
      /\ \A w \in T : w = c \/ h[w].parent \in T
      /\ h[c].parent \notin T
  BY TreeIs
<1>2. /\ g = [w \in Value |-> g[w]]
      /\ g[c] = nc
      /\ \A w \in F : g[w] = NewValue("free")
      /\ \A w \in Value \ F : w # c => g[w] = h[w]
  BY <1>1 DEF Cleared
<1>. HIDE DEF T, g
<1>3. Nodes(h) /\ Node(n)
  BY DEF Good, Nodes
<1>4. /\ nc \in JSON_Value /\ nc.type = n.type /\ nc.parent = n.parent
      /\ nc.names = << >> /\ nc.values = << >> /\ nc.capacity = n.capacity
  <2>. DEFINE e == << >>
  <2>1. e \in Seq(Name) /\ e \in Seq(Value)
    BY EmptySeq
  <2>2. nc = [n EXCEPT !.names = e, !.values = e] /\ n \in JSON_Value
    BY <1>3 DEF Node
  <2>. HIDE DEF e, n, nc
  <2>3. /\ nc \in JSON_Value /\ nc.type = n.type /\ nc.parent = n.parent
        /\ nc.names = e /\ nc.values = e /\ nc.capacity = n.capacity
    BY <2>1, <2>2 DEF JSON_Value
  <2>. QED
    BY <2>3 DEF e
<1>5. Node(nc)
  <2>1. Len(<< >>) = 0 /\ IsInjective(<< >>)
    BY DEF IsInjective
  <2>2. n.capacity \in Nat /\ n.type # "free"
    BY <1>3 DEF Node, JSON_Value
  <2>. HIDE DEF nc, n
  <2>. QED
    BY <1>4, <2>1, <2>2 DEF Node
<1>. HIDE DEF nc
<1>6. Nodes(g)
  <2>1. Node(NewValue("free"))
    BY NewNode
  <2>2. \A w \in Value : Node(g[w])
    BY <1>2, <1>3, <1>5, <2>1 DEF Nodes
  <2>3. \A w \in Value : g[w] \in JSON_Value
    BY <2>2 DEF Node
  <2>4. g \in [Value -> JSON_Value]
    BY <1>2, <2>3
  <2>. QED
    BY <2>2, <2>4 DEF Nodes
<1>7. \A w \in F : Kids(g, w) = {} /\ g[w].parent = NULL
  BY <1>2 DEF Kids, ToSet, NewValue
<1>8. Kids(g, c) = {}
  BY <1>2, <1>4 DEF Kids, ToSet
<1>9. /\ \A w \in Value \ F : w # c => Kids(g, w) = Kids(h, w)
      /\ \A w \in Value \ F : g[w].parent = h[w].parent
  BY <1>2, <1>4 DEF Kids
<1>10. \A p, w \in Value : w \in Kids(h, p) <=> h[w].parent = p
  BY DEF Good, Linked
<1>11. /\ \A w \in F : Kids(h, w) \subseteq F
       /\ \A w \in F : h[w].parent \in F \cup {c, NULL}
       /\ Kids(h, c) \subseteq F
  BY <1>0, <1>1, <1>10
<1>12. Moves(h, g, c, F, {})
  BY <1>7, <1>8, <1>9, <1>11 DEF Moves
<1>. QED
  BY <1>1, <1>6, <1>11, <1>12, MovesGood DEF g
-----------------------------------------------------------------------------
(* Names with dots: setting and removing.                                   *)

\* The calls that a program may make: Legal, of any heap.
MayHold(h, c, v) ==
  h[v].type # "free" /\ (h[v].parent = NULL => c \notin Tree(h, v))

(* json_object_set_value keeps the invariant, or fails and changes nothing  *)
(* (parson.c:1681).                                                         *)
LEMMA SetValueGood ==
  ASSUME NEW h, Good(h), NEW o \in Value, h[o].type = "object",
         NEW name \in Name, NEW v \in Value, MayHold(h, o, v),
         NEW r, r = json_object_set_value(h, o, name, v)
  PROVE  /\ Good(r.heap)
         /\ r = Failure(h) \/ r.ret = "JSONSuccess"
<1>1. CASE h[v].parent # NULL
  BY <1>1 DEF json_object_set_value, Failure
<1>2. CASE h[v].parent = NULL
  <2>1. Takes(h, o, v) /\ Nodes(h)
    BY <1>2 DEF MayHold, Takes, Good
  <2>. DEFINE i == Index(h, o, name)
  <2>2. CASE i # 0
    <3>1. i \in DOMAIN h[o].values
      BY <2>1, <2>2, GetIs
    <3>2. r = Success(Replaced(h, o, i, v))
      BY <1>2, <2>2 DEF json_object_set_value
    <3>. HIDE DEF i
    <3>3. Good(Replaced(h, o, i, v))
      BY <2>1, <3>1, ReplacedGood
    <3>. QED
      BY <3>2, <3>3 DEF Success
  <2>3. CASE i = 0
    <3>1. r = json_object_add(h, o, name, v)
      BY <1>2, <2>3 DEF json_object_set_value
    <3>2. r = Failure(h) \/ (r.ret = "JSONSuccess" /\ Good(r.heap))
      BY <2>1, <3>1, AddGood
    <3>. QED
      BY <3>2 DEF Failure
  <2>. QED
    BY <2>2, <2>3
<1>. QED
  BY <1>1, <1>2

(* json_object_get_object finds an object that this object holds            *)
(* (parson.c:1090).                                                         *)
LEMMA GetObjectIs ==
  ASSUME NEW h, Good(h), NEW o \in Value, h[o].type = "object", NEW name
  PROVE  LET found == json_object_get_object(h, o, name) IN
         \/ found = NULL
         \/ found \in Value /\ h[found].type = "object" /\ h[found].parent = o
<1>. DEFINE v == json_object_get_value(h, o, name)
<1>1. v = NULL \/ (v \in Kids(h, o) /\ v \in Value)
  BY GetIs DEF Good
<1>2. v \in Kids(h, o) /\ v \in Value => h[v].parent = o
  BY DEF Good, Linked
<1>. QED
  BY <1>1, <1>2 DEF json_object_get_object

(* A tree only grows where something is put into it.                        *)
LEMMA TreeKept ==
  ASSUME NEW h, Good(h), NEW g, NEW v \in Value,
         \A w \in Tree(h, v) : Kids(g, w) \subseteq Kids(h, w)
  PROVE  Tree(g, v) \subseteq Tree(h, v)
<1>1. /\ v \in Tree(h, v)
      /\ \A w \in Tree(h, v) : Kids(h, w) \subseteq Tree(h, v)
  BY TreeIs
<1>2. Closed(g, Tree(h, v))
  BY <1>1, ClosedIs
<1>. QED
  BY <1>1, <1>2, TreeIsLeast

(* Where there is room there is a free address.                             *)
LEMMA RoomIs ==
  ASSUME NEW h, NEW n \in Nat, Cardinality(FreeAddresses(h)) >= n, n # 0
  PROVE  FreeAddresses(h) # {}
BY FS_EmptySet DEF FreeAddresses

(* One level of a path: into an object that is there or is made.            *)
LEMMA EnterGood ==
  ASSUME NEW h, Good(h), NEW o \in Value, h[o].type = "object",
         NEW name \in Name, NEW v \in Value, MayHold(h, o, v),
         FreeAddresses(h) # {},
         NEW walk,
         walk = Enter([heap |-> h, object |-> o, ret |-> "JSONSuccess"], name)
  PROVE  /\ Good(walk.heap)
         /\ walk.ret # "JSONFailure" =>
              /\ walk.object \in Value
              /\ walk.heap[walk.object].type = "object"
              /\ MayHold(walk.heap, walk.object, v)
         /\ walk.heap[v].parent = h[v].parent
         /\ walk.heap[v].type = h[v].type
<1>. DEFINE start == [heap |-> h, object |-> o, ret |-> "JSONSuccess"]
            found == json_object_get_object(h, o, name)
            new == malloc(h)
            g == json_value_init(h, "object")
            added == json_object_add(g, o, name, new)
<1>0. NULL \notin Value
  BY JsonTreeAssumption
<1>1. CASE found # NULL
  <2>1. walk = [start EXCEPT !.object = found]
    BY <1>1 DEF Enter
  <2>2. walk.heap = h /\ walk.object = found /\ walk.ret = "JSONSuccess"
    BY <2>1
  <2>3. found \in Value /\ h[found].type = "object" /\ h[found].parent = o
    BY <1>1, GetObjectIs
  <2>. HIDE DEF found
  <2>4. h[v].parent = NULL => found \notin Tree(h, v)
    BY <1>0, <2>3, TreeIs DEF MayHold
  <2>. QED
    BY <2>2, <2>3, <2>4 DEF MayHold
<1>2. CASE found = NULL
  <2>1. walk = IF added.ret = "JSONFailure"
                 THEN [start EXCEPT !.ret = added.ret]
                 ELSE [heap |-> added.heap, object |-> new, ret |-> added.ret]
    BY <1>2 DEF Enter
  <2>2. /\ new \in Value /\ h[new].type = "free"
        /\ Good(g)
        /\ g[new] = NewValue("object")
        /\ \A w \in Value : w # new => g[w] = h[w]
        /\ Kids(g, new) = {}
    BY NewGood DEF Type
  <2>3. new # o /\ new # v
    BY <2>2 DEF MayHold
  <2>4. Takes(g, o, new)
    <3>1. Tree(g, new) \subseteq {new}
      <4>1. Closed(g, {new})
        BY <2>2, ClosedIs
      <4>. QED
        BY <4>1, TreeIsLeast
    <3>. QED
      BY <2>2, <2>3, <3>1 DEF Takes, NewValue
  <2>5. g[o].type = "object" /\ g[v] = h[v]
    BY <2>2, <2>3
  <2>. HIDE DEF found, new, g
  <2>6. \/ added = Failure(g)
        \/ /\ added.ret = "JSONSuccess"
           /\ Good(added.heap)
           /\ \A w \in Value :
                /\ added.heap[w].type = g[w].type
                /\ w # new => added.heap[w].parent = g[w].parent
           /\ added.heap[new].parent = o
           /\ \A w \in Value : w # o => Kids(added.heap, w) = Kids(g, w)
    BY <2>2, <2>4, <2>5, AddGood
  <2>. HIDE DEF added
  <2>7. CASE added = Failure(g)
    <3>1. walk = [start EXCEPT !.ret = "JSONFailure"]
      BY <2>1, <2>7 DEF Failure
    <3>2. walk.heap = h /\ walk.ret = "JSONFailure"
      BY <3>1
    <3>. QED
      BY <3>2
  <2>8. CASE added.ret = "JSONSuccess"
    <3>. DEFINE k == added.heap
    <3>1. walk.heap = k /\ walk.object = new /\ walk.ret = "JSONSuccess"
      BY <2>1, <2>8
    <3>2. /\ Good(k) /\ k[new].type = "object" /\ k[new].parent = o
          /\ k[v].type = h[v].type /\ k[v].parent = h[v].parent
          /\ \A w \in Value : w # o => Kids(k, w) = Kids(g, w)
      BY <2>2, <2>3, <2>5, <2>6, <2>8 DEF Failure, NewValue
    <3>. HIDE DEF k
    <3>3. ASSUME h[v].parent = NULL PROVE new \notin Tree(k, v)
      <4>1. o \notin Tree(h, v) /\ Tree(h, v) \subseteq Value
        BY <3>3, TreeIs DEF MayHold
      <4>2. \A w \in Tree(h, v) : Kids(k, w) \subseteq Kids(h, w)
        BY <2>2, <3>2, <4>1 DEF Kids
      <4>3. Tree(k, v) \subseteq Tree(h, v)
        BY <4>2, TreeKept
      <4>4. o \notin Tree(k, v)
        BY <4>1, <4>3
      <4>. QED
        BY <2>3, <3>2, <4>4, TreeIs
    <3>. QED
      BY <2>2, <3>1, <3>2, <3>3 DEF MayHold
  <2>. QED
    BY <2>6, <2>7, <2>8
<1>. QED
  BY <1>1, <1>2

(* json_object_dotset_value keeps the invariant; the value is not moved     *)
(* when the call fails (parson.c:1718-1748).                                *)
LEMMA DotsetGood ==
  ASSUME NEW h, Good(h), NEW o \in Value, h[o].type = "object",
         NEW path \in Dotted, NEW v \in Value, MayHold(h, o, v),
         Len(path) = 2 => FreeAddresses(h) # {},
         NEW r, r = json_object_dotset_value(h, o, path, v)
  PROVE  /\ Good(r.heap)
         /\ \/ r.ret = "JSONSuccess"
            \/ /\ r.heap[v].type = h[v].type
               /\ r.heap[v].parent = h[v].parent
<1>. DEFINE start == [heap |-> h, object |-> o, ret |-> "JSONSuccess"]
            walk == FoldLeft(Enter, start, Front(path))
<1>1. r = IF walk.ret = "JSONFailure" THEN Failure(walk.heap)
          ELSE json_object_set_value(walk.heap, walk.object, Last(path), v)
  BY DEF json_object_dotset_value
<1>2. /\ Good(walk.heap)
      /\ walk.ret # "JSONFailure" =>
           /\ walk.object \in Value
           /\ walk.heap[walk.object].type = "object"
           /\ MayHold(walk.heap, walk.object, v)
      /\ walk.heap[v].parent = h[v].parent
      /\ walk.heap[v].type = h[v].type
  <2>1. CASE Front(path) = << >>
    <3>1. walk = start
      BY <2>1, WalkIs
    <3>. HIDE DEF walk
    <3>2. walk.heap = h /\ walk.object = o
      BY <3>1
    <3>. QED
      BY <3>2
  <2>2. CASE Len(path) = 2 /\ \E name \in Name : Front(path) = <<name>>
    <3>1. PICK name \in Name : Front(path) = <<name>>
      BY <2>2
    <3>2. walk = Enter(start, name)
      BY <3>1, WalkIs
    <3>. HIDE DEF walk
    <3>. QED
      BY <2>2, <3>2, EnterGood
  <2>. QED
    BY <2>1, <2>2, DottedIs
<1>. HIDE DEF walk
<1>. DEFINE k == walk.heap
<1>3. Last(path) \in Name
  BY DottedIs
<1>4. CASE walk.ret = "JSONFailure"
  BY <1>1, <1>2, <1>4 DEF Failure
<1>5. CASE walk.ret # "JSONFailure"
  <2>1. r = json_object_set_value(k, walk.object, Last(path), v)
    BY <1>1, <1>5
  <2>2. Good(r.heap) /\ (r = Failure(k) \/ r.ret = "JSONSuccess")
    BY <1>2, <1>3, <1>5, <2>1, SetValueGood
  <2>. QED
    BY <1>2, <2>2 DEF Failure
<1>. QED
  BY <1>4, <1>5

(* A value made for a call may go into every container that was there.      *)
LEMMA MadeIs ==
  ASSUME NEW h, Good(h), NEW type \in Type, FreeAddresses(h) # {}
  PROVE  LET new == malloc(h)
             g == json_value_init(h, type) IN
         /\ new \in Value /\ Good(g)
         /\ g[new].type = type /\ g[new].parent = NULL
         /\ \A c \in Value : h[c].type # "free" =>
              /\ c # new /\ g[c] = h[c]
              /\ Takes(g, c, new) /\ MayHold(g, c, new)
         /\ FreeAddresses(g) = FreeAddresses(h) \ {new}
<1>. DEFINE new == malloc(h)
            g == json_value_init(h, type)
<1>1. /\ new \in Value /\ h[new].type = "free"
      /\ Good(g)
      /\ g[new] = NewValue(type)
      /\ \A v \in Value : v # new => g[v] = h[v]
      /\ Kids(g, new) = {}
  BY NewGood
<1>. HIDE DEF new, g
<1>2. Tree(g, new) \subseteq {new}
  <2>1. Closed(g, {new})
    BY <1>1, ClosedIs
  <2>. QED
    BY <2>1, TreeIsLeast
<1>3. g[new].type = type /\ g[new].parent = NULL /\ type # "free"
  BY <1>1 DEF NewValue, Type, Scalar
<1>4. \A c \in Value : h[c].type # "free" =>
        /\ c # new /\ g[c] = h[c]
        /\ Takes(g, c, new) /\ MayHold(g, c, new)
  BY <1>1, <1>2, <1>3 DEF Takes, MayHold
<1>5. FreeAddresses(g) = FreeAddresses(h) \ {new}
  BY <1>1, <1>3 DEF FreeAddresses, Live
<1>. QED
  BY <1>1, <1>3, <1>4, <1>5 DEF new, g

(* Where there is room for a value and a path to it there is room for the   *)
(* path when the value has been made.                                       *)
LEMMA DotsetRoom ==
  ASSUME NEW h, Good(h), NEW path \in Dotted, NEW type \in Scalar,
         Cardinality(FreeAddresses(h)) >= Len(path)
  PROVE  /\ type \in Type /\ FreeAddresses(h) # {}
         /\ Len(path) = 2 => FreeAddresses(json_value_init(h, type)) # {}
<1>. DEFINE new == malloc(h)
            g == json_value_init(h, type)
            free == FreeAddresses(h)
<1>1. Len(path) \in {1, 2}
  BY DottedIs
<1>2. IsFiniteSet(free)
  BY JsonTreeAssumption, FS_Subset DEF FreeAddresses
<1>3. type \in Type /\ free # {}
  <2>1. CASE Len(path) = 1
    BY <2>1, RoomIs DEF Type
  <2>2. CASE Len(path) = 2
    BY <2>2, RoomIs DEF Type
  <2>. QED
    BY <1>1, <2>1, <2>2
<1>4. FreeAddresses(g) = free \ {new}
  BY <1>3, MadeIs
<1>5. ASSUME Len(path) = 2, free \subseteq {new}
      PROVE  FALSE
  <2>1. Cardinality(free) >= 2
    BY <1>5
  <2>2. IsFiniteSet({new}) /\ Cardinality({new}) = 1
    BY FS_Singleton
  <2>. HIDE DEF free
  <2>3. Cardinality(free) <= 1 /\ Cardinality(free) \in Nat
    BY <1>2, <1>5, <2>2, FS_Subset, FS_CardinalityType
  <2>. QED
    BY <2>1, <2>3
<1>. QED
  BY <1>3, <1>4, <1>5

(* json_object_dotset_string and _number keep the invariant: what they made *)
(* is held, or released (parson.c:1750-1796).                               *)
LEMMA DotsetScalarGood ==
  ASSUME NEW h, Good(h), NEW o \in Value, h[o].type = "object",
         NEW path \in Dotted, NEW type \in Scalar,
         Cardinality(FreeAddresses(h)) >= Len(path)
  PROVE  Good(json_object_dotset_scalar(h, o, path, type).heap)
<1>. DEFINE new == malloc(h)
            g == json_value_init(h, type)
            set == json_object_dotset_value(g, o, path, new)
<1>1. /\ type \in Type /\ FreeAddresses(h) # {}
      /\ Len(path) = 2 => FreeAddresses(g) # {}
  BY DotsetRoom
<1>2. /\ new \in Value /\ Good(g)
      /\ g[new].type = type /\ g[new].parent = NULL
      /\ g[o] = h[o] /\ MayHold(g, o, new)
  BY <1>1, MadeIs
<1>3. json_object_dotset_scalar(h, o, path, type)
        = IF set.ret = "JSONFailure"
            THEN Failure(json_value_free(set.heap, new)) ELSE set
  BY DEF json_object_dotset_scalar
<1>. HIDE DEF new, g
<1>4. /\ Good(set.heap)
      /\ \/ set.ret = "JSONSuccess"
         \/ set.heap[new].parent = NULL
  BY <1>1, <1>2, DotsetGood
<1>. HIDE DEF set
<1>5. CASE set.ret = "JSONFailure"
  <2>1. Good(json_value_free(set.heap, new))
    BY <1>2, <1>4, <1>5, ReleaseGood
  <2>. QED
    BY <1>3, <1>5, <2>1 DEF Failure
<1>6. CASE set.ret # "JSONFailure"
  BY <1>3, <1>4, <1>6
<1>. QED
  BY <1>5, <1>6

(* All names of a path but the last lead to an object, or nowhere.          *)
LEMMA InnermostObject ==
  ASSUME NEW h, Good(h), NEW o \in Value, h[o].type = "object",
         NEW path \in Dotted
  PROVE  LET inner == Innermost(h, o, path) IN
         inner = NULL \/ (inner \in Value /\ h[inner].type = "object")
<1>1. o # NULL
  BY JsonTreeAssumption
<1>2. CASE Front(path) = << >>
  BY <1>1, <1>2, InnermostIs
<1>3. CASE \E name \in Name : Front(path) = <<name>>
  BY <1>1, <1>3, InnermostIs, GetObjectIs
<1>. QED
  BY <1>2, <1>3, DottedIs

(* json_object_dotremove keeps the invariant (parson.c:1819).               *)
LEMMA DotremoveGood ==
  ASSUME NEW h, Good(h), NEW o \in Value, h[o].type = "object",
         NEW path \in Dotted
  PROVE  Good(json_object_dotremove(h, o, path).heap)
<1>. DEFINE inner == Innermost(h, o, path)
<1>1. inner = NULL \/ (inner \in Value /\ h[inner].type = "object")
  BY InnermostObject
<1>. HIDE DEF inner
<1>2. Last(path) \in Name
  BY DottedIs
<1>3. json_object_dotremove(h, o, path)
        = IF inner = NULL THEN Failure(h)
          ELSE json_object_remove(h, inner, Last(path))
  BY DEF json_object_dotremove, inner
<1>4. CASE inner = NULL
  BY <1>3, <1>4 DEF Failure
<1>5. CASE inner # NULL
  BY <1>1, <1>2, <1>3, <1>5, ObjectRemoveGood
<1>. QED
  BY <1>4, <1>5
-----------------------------------------------------------------------------
(* Arrays.                                                                  *)

(* json_array_append_value keeps the invariant (parson.c:440, 1626).        *)
LEMMA ArrayAppendGood ==
  ASSUME NEW h, Good(h), NEW a \in Value, h[a].type = "array",
         NEW v \in Value, MayHold(h, a, v)
  PROVE  Good(json_array_append_value(h, a, v).heap)
<1>. DEFINE n == h[a]
            values == Append(n.values, v)
            capacity == Grown(Len(n.values), n.capacity)
            nc == [n EXCEPT !.values = values, !.capacity = capacity]
            g == Attached(h, a, nc, v)
<1>. SUFFICES ASSUME h[v].parent = NULL
              PROVE  Good(json_array_append_value(h, a, v).heap)
  BY DEF json_array_append_value, Failure
<1>0. Takes(h, a, v)
  BY DEF Takes, MayHold
<1>1. Nodes(h) /\ Node(n) /\ a # v /\ v \notin Kids(h, a)
  BY <1>0, TreeIs, JsonTreeAssumption DEF Good, Nodes, Takes, Linked
<1>2. json_array_append_value(h, a, v) = Success(g)
  <2>1. h \in [Value -> JSON_Value]
    BY <1>1 DEF Nodes
  <2>2. [h EXCEPT ![a].values = Append(@, v),
                  ![a].capacity = Grown(Len(h[a].values), h[a].capacity),
                  ![v].parent = a] = g
    BY <1>1, <2>1 DEF JSON_Value, Attached, With
  <2>. QED
    BY <2>2 DEF json_array_append_value
<1>4. /\ n.values \in Seq(Value) /\ n.capacity \in Nat
      /\ Len(n.values) <= n.capacity /\ n.names = << >>
      /\ IsInjective(n.names) /\ IsInjective(n.values)
      /\ n.type = "array" /\ n.parent \in Value \cup {NULL} /\ n \in JSON_Value
      /\ v \notin ToSet(n.values) /\ Len(n.values) \in Nat
  BY <1>1, Fields, LenProperties DEF Node, Kids
<1>6. /\ values \in Seq(Value) /\ Len(values) = Len(n.values) + 1
      /\ IsInjective(values) /\ ToSet(values) = Kids(h, a) \cup {v}
  BY <1>4, AppendedIs DEF Kids
<1>7. capacity \in Nat /\ Len(n.values) + 1 <= capacity
  BY <1>4, GrownIs
<1>. HIDE DEF values, capacity
<1>8. /\ nc \in JSON_Value /\ nc.type = "array" /\ nc.parent = n.parent
      /\ nc.names = n.names /\ nc.values = values /\ nc.capacity = capacity
  BY <1>4, <1>6, <1>7 DEF JSON_Value
<1>. HIDE DEF nc, n
<1>9. Node(nc)
  BY <1>4, <1>6, <1>7, <1>8 DEF Node, Scalar
<1>. HIDE DEF g
<1>10. Good(g)
  BY <1>0, <1>4, <1>6, <1>8, <1>9, AppendGood DEF n, g
<1>. QED
  BY <1>2, <1>10 DEF Success

(* json_array_replace_value keeps the invariant, or fails and changes       *)
(* nothing (parson.c:1556).                                                 *)
LEMMA ArrayReplaceGood ==
  ASSUME NEW h, Good(h), NEW a \in Value,
         NEW v \in Value, MayHold(h, a, v), NEW i,
         NEW r, r = json_array_replace_value(h, a, i, v)
  PROVE  Good(r.heap) /\ (r = Failure(h) \/ r.ret = "JSONSuccess")
<1>1. CASE h[v].parent # NULL \/ i \notin DOMAIN h[a].values
  BY <1>1 DEF json_array_replace_value, Failure
<1>2. CASE h[v].parent = NULL /\ i \in DOMAIN h[a].values
  <2>1. Takes(h, a, v)
    BY <1>2 DEF Takes, MayHold
  <2>2. r = Success(Replaced(h, a, i, v))
    BY <1>2 DEF json_array_replace_value
  <2>3. Good(Replaced(h, a, i, v))
    BY <1>2, <2>1, ReplacedGood
  <2>. QED
    BY <2>2, <2>3 DEF Success
<1>. QED
  BY <1>1, <1>2
-----------------------------------------------------------------------------
(* Copies.                                                                  *)

(* As many values fit as were added.                                        *)
LEMMA CapacityForIs ==
  ASSUME NEW m \in Nat
  PROVE  CapacityFor(m) \in Nat /\ m <= CapacityFor(m)
<1>. DEFINE Steps(n, f) ==
              f = [k \in 0 .. n |-> IF k = 0 THEN 0 ELSE Grown(k - 1, f[k - 1])]
            S == {n \in Nat : \E f : Steps(n, f)}
<1>1. 0 \in S
  <2>. DEFINE f == [k \in 0 .. 0 |-> 0]
  <2>1. Steps(0, f)
    OBVIOUS
  <2>. HIDE DEF f
  <2>. QED
    BY <2>1
<1>2. ASSUME NEW n \in Nat, n \in S
      PROVE  n + 1 \in S
  <2>1. PICK f : Steps(n, f)
    BY <1>2
  <2>. DEFINE g == [k \in 0 .. n + 1 |->
                      IF k = n + 1 THEN Grown(n, f[n]) ELSE f[k]]
  <2>2. \A k \in 0 .. n + 1 :
          g[k] = IF k = 0 THEN 0 ELSE Grown(k - 1, g[k - 1])
    <3>1. \A k \in 0 .. n : f[k] = IF k = 0 THEN 0 ELSE Grown(k - 1, f[k - 1])
      BY <2>1
    <3>2. \A k \in 0 .. n : g[k] = f[k]
      OBVIOUS
    <3>3. g[n + 1] = Grown(n, f[n])
      OBVIOUS
    <3>. HIDE DEF g
    <3>4. \A k \in 1 .. n + 1 : k - 1 \in 0 .. n
      OBVIOUS
    <3>. QED
      BY <3>1, <3>2, <3>3, <3>4
  <2>3. g = [k \in 0 .. n + 1 |-> g[k]]
    OBVIOUS
  <2>. HIDE DEF g
  <2>4. Steps(n + 1, g)
    BY <2>2, <2>3
  <2>. QED
    BY <2>4
<1>3. \A n \in Nat : n \in S
  <2>. HIDE DEF S
  <2>. QED
    BY <1>1, <1>2, NatSetInduction
<1>. DEFINE capacity == CHOOSE f : Steps(m, f)
<1>4. Steps(m, capacity)
  BY <1>3
<1>5. CapacityFor(m) = capacity[m]
  BY DEF CapacityFor
<1>. HIDE DEF capacity
<1>6. \A k \in 0 .. m :
        capacity[k] = IF k = 0 THEN 0 ELSE Grown(k - 1, capacity[k - 1])
  BY <1>4
<1>. HIDE DEF Steps, S
<1>. DEFINE R == {n \in Nat :
                    n <= m => capacity[n] \in Nat /\ n <= capacity[n]}
<1>7. 0 \in R
  BY <1>6
<1>8. ASSUME NEW n \in Nat, n \in R
      PROVE  n + 1 \in R
  <2>. SUFFICES ASSUME n + 1 <= m
                PROVE  capacity[n + 1] \in Nat /\ n + 1 <= capacity[n + 1]
    OBVIOUS
  <2>1. capacity[n + 1] = Grown(n, capacity[n])
    BY <1>6
  <2>2. capacity[n] \in Nat /\ n <= capacity[n]
    BY <1>8
  <2>. QED
    BY <2>1, <2>2, GrownIs
<1>9. \A n \in Nat : n \in R
  <2>. HIDE DEF R
  <2>. QED
    BY <1>7, <1>8, NatSetInduction
<1>. QED
  BY <1>5, <1>9

(* There is an injection into a finite set that is not smaller.             *)
LEMMA RoomForCopy ==
  ASSUME NEW S, NEW T, IsFiniteSet(S), IsFiniteSet(T),
         Cardinality(S) <= Cardinality(T)
  PROVE  Injection(S, T) # {}
<1>1. PICK n \in Nat : ExistsBijection(1 .. n, S)
  BY FS_NatBijection
<1>2. PICK m \in Nat : ExistsBijection(1 .. m, T)
  BY FS_NatBijection
<1>3. n <= m
  BY <1>1, <1>2, FS_CountingElements
<1>4. ExistsInjection(S, 1 .. n) /\ ExistsInjection(1 .. m, T)
  BY <1>1, <1>2, Fun_ExistsBijEquiv
<1>5. ExistsInjection(1 .. n, 1 .. m)
  BY <1>3, Fun_NatInjLeq
<1>6. ExistsInjection(S, T)
  BY <1>4, <1>5, Fun_ExistsInjTransitive
<1>. QED
  BY <1>6 DEF ExistsInjection

\* The copy of w when copies lie at the addresses to.
CopyOf(h, v, to, w) ==
  [h[w] EXCEPT
     !.parent = IF w = v THEN NULL ELSE to[@],
     !.values = [i \in DOMAIN @ |-> to[@[i]]],
     !.capacity = CapacityFor(Len(h[w].values))]

(* The copy of a value is one, in the copy of its container, and holds      *)
(* copies.                                                                  *)
LEMMA CopyIs ==
  ASSUME NEW h, Good(h), NEW v \in Value, NEW S \in SUBSET Value,
         NEW to \in [Tree(h, v) -> S], IsInjective(to),
         h[v].type # "free", NEW w \in Tree(h, v)
  PROVE  LET n == CopyOf(h, v, to, w) IN
         /\ Node(n)
         /\ w = v => n.parent = NULL
         /\ w # v => h[w].parent \in Tree(h, v) /\ n.parent = to[h[w].parent]
         /\ ToSet(n.values) = {to[k] : k \in Kids(h, w)}
         /\ n.type = h[w].type
<1>. DEFINE T == Tree(h, v)
            o == h[w]
            values == [i \in DOMAIN o.values |-> to[o.values[i]]]
            capacity == CapacityFor(Len(o.values))
            parent == IF w = v THEN NULL ELSE to[o.parent]
            n == [o EXCEPT !.parent = parent, !.values = values,
                           !.capacity = capacity]
<1>0. n = CopyOf(h, v, to, w)
  BY DEF CopyOf
<1>1. /\ w \in Value /\ T \subseteq Value /\ T \subseteq Live(h)
      /\ Kids(h, w) \subseteq T
      /\ w # v => o.parent \in T
  BY TreeIs
<1>2. /\ o \in JSON_Value /\ Node(o) /\ o.type # "free"
      /\ o.values \in Seq(Value) /\ IsInjective(o.values)
      /\ Len(o.values) \in Nat /\ DOMAIN o.values = 1 .. Len(o.values)
      /\ \A i \in DOMAIN o.values : o.values[i] \in T
  BY <1>1, Fields, LenProperties DEF Good, Nodes, Node, Live, Kids, ToSet
<1>3. \A x \in T : to[x] \in Value
  OBVIOUS
<1>. HIDE DEF T, o
<1>4. values \in Seq(Value) /\ Len(values) = Len(o.values)
  <2>. DEFINE k == Len(o.values)
  <2>1. values = [i \in 1 .. k |-> to[o.values[i]]] /\ k \in Nat
    BY <1>2
  <2>2. \A i \in 1 .. k : to[o.values[i]] \in Value
    BY <1>2, <1>3
  <2>. HIDE DEF k
  <2>3. values \in Seq(Value)
    BY <2>1, <2>2, IsASeq
  <2>4. DOMAIN values = 1 .. k
    BY <2>1
  <2>. HIDE DEF values
  <2>. QED
    BY <2>1, <2>3, <2>4, LenProperties DEF k
<1>5. IsInjective(values)
  BY <1>2 DEF IsInjective, T
<1>6. ToSet(values) = {to[k] : k \in Kids(h, w)}
  BY DEF ToSet, Kids, o
<1>7. capacity \in Nat /\ Len(values) <= capacity
  BY <1>2, <1>4, CapacityForIs
<1>8. parent \in Value \cup {NULL}
  BY <1>1, <1>3
<1>9. o.values = << >> => values = << >>
  BY <1>2, <1>4
<1>. HIDE DEF values, capacity, parent
<1>10. /\ n \in JSON_Value /\ n.type = o.type /\ n.parent = parent
       /\ n.names = o.names /\ n.values = values /\ n.capacity = capacity
  BY <1>2, <1>4, <1>7, <1>8 DEF JSON_Value
<1>. HIDE DEF n
<1>11. Node(n)
  BY <1>2, <1>4, <1>5, <1>7, <1>9, <1>10 DEF Node
<1>. QED
  BY <1>0, <1>1, <1>6, <1>10, <1>11 DEF parent, T, o

\* g is h with a copy of what v reaches; the copy of w is at to[w].
Copied(h, g, v, to) ==
  /\ to \in [Tree(h, v) -> FreeAddresses(h)] /\ IsInjective(to)
  /\ \A w \in Tree(h, v) : g[to[w]] = CopyOf(h, v, to, w)
  /\ \A u \in Value : (\A w \in Tree(h, v) : u # to[w]) => g[u] = h[u]

(* json_value_deep_copy keeps the invariant: the copy holds nothing of the  *)
(* original, and nothing holds the copy (parson.c:1341-1418).               *)
LEMMA DeepCopyGood ==
  ASSUME NEW h, Good(h), NEW v \in Value, h[v].type # "free",
         Cardinality(FreeAddresses(h)) >= Cardinality(Tree(h, v))
  PROVE  LET g == json_value_deep_copy(h, v) IN
         Good(g) /\ \E to : Copied(h, g, v, to)
<1>. DEFINE T == Tree(h, v)
            Free == FreeAddresses(h)
            to == CHOOSE f \in Injection(T, Free) : TRUE
            back == AntiFunction(to)
            R == Range(to)
            g == json_value_deep_copy(h, v)
<1>0. NULL \notin Value
  BY JsonTreeAssumption
<1>1. /\ v \in T /\ T \subseteq Value
      /\ \A w \in T : Kids(h, w) \subseteq T
      /\ h[v].parent \notin T
  BY TreeIs
<1>2. IsFiniteSet(T) /\ IsFiniteSet(Free) /\ Free \subseteq Value
  BY <1>1, JsonTreeAssumption, FS_Subset DEF FreeAddresses
<1>3. to \in Injection(T, Free)
  <2>. HIDE DEF T, Free
  <2>1. Injection(T, Free) # {}
    BY <1>2, RoomForCopy DEF T, Free
  <2>. QED
    BY <2>1
<1>4. /\ to \in [T -> Free] /\ IsInjective(to) /\ DOMAIN to = T
      /\ R = {to[w] : w \in T} /\ R \subseteq Free
  <2>. HIDE DEF to, T, Free
  <2>1. to \in [T -> Free] /\ IsInjective(to)
    BY <1>3 DEF Injection
  <2>2. R = {to[w] : w \in T}
    BY <2>1 DEF Range
  <2>. QED
    BY <2>1, <2>2
<1>5. \A w \in T : back[to[w]] = w
  <2>. HIDE DEF to, T, Free
  <2>1. SUFFICES ASSUME NEW w \in T PROVE back[to[w]] = w
    OBVIOUS
  <2>2. to[w] \in R
    BY <1>4
  <2>3. back[to[w]] = CHOOSE x \in T : to[w] \in R => to[x] = to[w]
    BY <1>4, <2>2 DEF AntiFunction, Inverse
  <2>4. \A x \in T : to[x] = to[w] => x = w
    BY <1>4 DEF IsInjective
  <2>. QED
    BY <2>2, <2>3, <2>4
<1>6. g = [u \in Value |-> IF u \in R THEN CopyOf(h, v, to, back[u]) ELSE h[u]]
  BY DEF json_value_deep_copy, CopyOf
<1>7. /\ Nodes(h) /\ \A p, u \in Value : u \in Kids(h, p) <=> h[u].parent = p
  BY DEF Good, Linked
<1>8. \A u \in Free : Kids(h, u) = {} /\ h[u].parent = NULL
  BY <1>7 DEF Nodes, Node, FreeAddresses, Live, Kids, ToSet
<1>9. \A w \in T :
        /\ Node(CopyOf(h, v, to, w))
        /\ w = v => CopyOf(h, v, to, w).parent = NULL
        /\ w # v => /\ h[w].parent \in T
                    /\ CopyOf(h, v, to, w).parent = to[h[w].parent]
        /\ ToSet(CopyOf(h, v, to, w).values) = {to[k] : k \in Kids(h, w)}
  <2>. HIDE DEF to
  <2>. QED
    BY <1>2, <1>4, CopyIs
<1>. HIDE DEF T, Free, to, back, R, g
<1>10. \A w \in T : g[to[w]] = CopyOf(h, v, to, w)
  BY <1>2, <1>4, <1>5, <1>6
<1>11. \A u \in Value \ R : g[u] = h[u]
  BY <1>6
<1>12. \A w \in T :
         /\ Node(g[to[w]])
         /\ w = v => g[to[w]].parent = NULL
         /\ w # v => /\ h[w].parent \in T
                     /\ g[to[w]].parent = to[h[w].parent]
         /\ Kids(g, to[w]) = {to[k] : k \in Kids(h, w)}
  BY <1>9, <1>10 DEF Kids
<1>13. Nodes(g)
  <2>1. \A u \in Value : Node(g[u])
    BY <1>4, <1>7, <1>11, <1>12 DEF Nodes
  <2>2. \A u \in Value : g[u] \in JSON_Value
    BY <2>1 DEF Node
  <2>3. g = [u \in Value |-> g[u]]
    BY <1>6
  <2>. QED
    BY <2>1, <2>2, <2>3 DEF Nodes
<1>14. Linked(g)
  <2>. SUFFICES ASSUME NEW p \in Value, NEW u \in Value
                PROVE  u \in Kids(g, p) <=> g[u].parent = p
    BY DEF Linked
  <2>1. CASE p \notin R /\ u \notin R
    BY <1>7, <1>11, <2>1 DEF Kids
  <2>2. CASE p \in R /\ u \notin R
    <3>1. Kids(g, p) \subseteq R
      BY <1>1, <1>4, <1>12, <2>2
    <3>2. h[u].parent # p
      BY <1>4, <1>7, <1>8, <2>2
    <3>. QED
      BY <1>11, <2>2, <3>1, <3>2
  <2>3. CASE p \notin R /\ u \in R
    <3>1. u \notin Kids(g, p)
      <4>1. Kids(g, p) = Kids(h, p)
        BY <1>11, <2>3 DEF Kids
      <4>2. h[u].parent # p
        BY <1>0, <1>4, <1>8, <2>3
      <4>. QED
        BY <1>7, <4>1, <4>2
    <3>2. g[u].parent # p
      BY <1>0, <1>4, <1>12, <2>3
    <3>. QED
      BY <3>1, <3>2
  <2>4. CASE p \in R /\ u \in R
    <3>1. PICK w \in T, x \in T : p = to[w] /\ u = to[x]
      BY <1>4, <2>4
    <3>2. \A a, b \in T : to[a] = to[b] => a = b
      BY <1>4 DEF IsInjective
    <3>3. u \in Kids(g, p) <=> x \in Kids(h, w)
      <4>1. Kids(g, p) = {to[k] : k \in Kids(h, w)} /\ Kids(h, w) \subseteq T
        BY <1>1, <1>12, <3>1
      <4>2. ASSUME u \in Kids(g, p) PROVE x \in Kids(h, w)
        <5>1. PICK k \in Kids(h, w) : u = to[k]
          BY <4>1, <4>2
        <5>2. k = x
          BY <3>1, <3>2, <4>1, <5>1
        <5>. QED
          BY <5>1, <5>2
      <4>. QED
        BY <3>1, <4>1, <4>2
    <3>4. x \in Kids(h, w) <=> h[x].parent = w
      BY <1>1, <1>7
    <3>5. g[u].parent = p <=> h[x].parent = w
      BY <1>0, <1>1, <1>12, <3>1, <3>2
    <3>. QED
      BY <3>3, <3>4, <3>5
  <2>. QED
    BY <2>1, <2>2, <2>3, <2>4
<1>15. Ranked(g)
  <2>1. PICK rank \in [Value -> Nat] : Below(h, rank)
    BY DEF Good, Ranked
  <2>. DEFINE r == [u \in Value |-> IF u \in R THEN rank[back[u]] ELSE rank[u]]
  <2>2. r \in [Value -> Nat]
    BY <1>1, <1>4, <1>5
  <2>3. \A w \in T : r[to[w]] = rank[w]
    BY <1>2, <1>4, <1>5
  <2>4. \A u \in Value \ R : r[u] = rank[u]
    OBVIOUS
  <2>. HIDE DEF r
  <2>5. ASSUME NEW u \in Value, g[u].parent # NULL
        PROVE  r[g[u].parent] < r[u]
    <3>1. CASE u \in R
      <4>1. PICK w \in T : u = to[w]
        BY <1>4, <3>1
      <4>2. h[w].parent \in T /\ g[u].parent = to[h[w].parent]
        BY <1>12, <2>5, <4>1
      <4>3. rank[h[w].parent] < rank[w]
        BY <1>0, <1>1, <2>1, <4>2 DEF Below
      <4>. QED
        BY <2>3, <4>1, <4>2, <4>3
    <3>2. CASE u \notin R
      <4>1. g[u].parent = h[u].parent /\ h[u].parent \in Value
        BY <1>7, <1>11, <2>5, <3>2, Fields
      <4>2. h[u].parent \notin R
        BY <1>4, <1>7, <1>8, <4>1
      <4>3. rank[h[u].parent] < rank[u]
        BY <2>1, <2>5, <4>1 DEF Below
      <4>. QED
        BY <2>4, <3>2, <4>1, <4>2, <4>3
    <3>. QED
      BY <3>1, <3>2
  <2>. QED
    BY <2>2, <2>5 DEF Ranked, Below
<1>16. Copied(h, g, v, to)
  BY <1>4, <1>10, <1>11 DEF Copied, T, Free
<1>. QED
  BY <1>13, <1>14, <1>15, <1>16 DEF Good, g
-----------------------------------------------------------------------------
(* What was set is what is read.                                            *)

(* A name that is there is found where it is.                               *)
LEMMA GetFound ==
  ASSUME NEW h, Nodes(h), NEW o \in Value, NEW name,
         NEW i \in DOMAIN h[o].names, h[o].names[i] = name
  PROVE  json_object_get_value(h, o, name) = h[o].values[i]
<1>. DEFINE k == Index(h, o, name)
<1>1. k \in DOMAIN h[o].names /\ h[o].names[k] = name /\ k # 0
  BY IndexIs DEF ToSet
<1>2. k = i
  BY <1>1 DEF Nodes, Node, IsInjective
<1>. QED
  BY <1>1, <1>2 DEF json_object_get_value

(* What json_object_add adds is found by its name, and what was found by    *)
(* another name still is (parson.c:347-370).                                *)
LEMMA AddGets ==
  ASSUME NEW h, Good(h), NEW o \in Value, h[o].type = "object",
         NEW name \in Name, NEW v \in Value, Takes(h, o, v),
         NEW r, r = json_object_add(h, o, name, v), r.ret = "JSONSuccess"
  PROVE  /\ json_object_get_value(r.heap, o, name) = v
         /\ \A other : json_object_get_value(h, o, other) # NULL =>
              json_object_get_value(r.heap, o, other)
                = json_object_get_value(h, o, other)
         /\ \A w \in Value : w \notin {o, v} => r.heap[w] = h[w]
<1>. DEFINE names == h[o].names
            values == h[o].values
            g == r.heap
<1>1. Nodes(h) /\ o # v
  BY TreeIs DEF Good, Takes
<1>2. /\ Good(g) /\ g[o].type = "object"
      /\ json_object_get_value(h, o, name) = NULL
  <2>1. r # Failure(h)
    BY DEF Failure
  <2>2. json_object_get_value(h, o, name) = NULL
    BY <2>1 DEF json_object_add
  <2>3. Good(r.heap) /\ r.heap[o].type = h[o].type
    BY <2>1, AddGood
  <2>. QED
    BY <2>2, <2>3
<1>3. /\ names \in Seq(Name) /\ values \in Seq(Value)
      /\ Len(names) = Len(values) /\ Len(names) \in Nat
      /\ h[o] \in JSON_Value /\ h \in [Value -> JSON_Value]
  BY <1>1, LenProperties, SMTT(30) DEF Nodes, Node, JSON_Value
<1>4. g = [h EXCEPT ![o].names = Append(@, name),
                    ![o].values = Append(@, v),
                    ![o].capacity = Grown(Len(values), h[o].capacity),
                    ![v].parent = o]
  BY <1>2 DEF json_object_add, Success
<1>5. /\ g[o].names = Append(names, name) /\ g[o].values = Append(values, v)
      /\ \A w \in Value : w \notin {o, v} => g[w] = h[w]
  <2>. DEFINE capacity == Grown(Len(values), h[o].capacity)
  <2>. HIDE DEF capacity, g
  <2>1. g = [h EXCEPT ![o].names = Append(@, name),
                      ![o].values = Append(@, v),
                      ![o].capacity = capacity,
                      ![v].parent = o]
    BY <1>4 DEF capacity
  <2>. QED
    BY <1>1, <1>3, <2>1 DEF JSON_Value
<1>. HIDE DEF g, names, values
<1>6. Nodes(g)
  BY <1>2 DEF Good
<1>. DEFINE n == Len(names)
<1>7. /\ \A i \in 1 .. n : i \in DOMAIN g[o].names
                           /\ g[o].names[i] = names[i]
                           /\ g[o].values[i] = values[i]
      /\ n + 1 \in DOMAIN g[o].names
      /\ g[o].names[n + 1] = name /\ g[o].values[n + 1] = v
  <2>1. /\ Len(Append(names, name)) = n + 1
        /\ \A i \in 1 .. n : Append(names, name)[i] = names[i]
        /\ Append(names, name)[n + 1] = name
        /\ Append(names, name) \in Seq(Name)
    BY <1>3, AppendProperties
  <2>2. /\ \A i \in 1 .. n : Append(values, v)[i] = values[i]
        /\ Append(values, v)[n + 1] = v
    BY <1>3, AppendProperties
  <2>3. DOMAIN Append(names, name) = 1 .. n + 1
    BY <2>1, LenProperties
  <2>. QED
    BY <1>3, <1>5, <2>1, <2>2, <2>3
<1>8. json_object_get_value(g, o, name) = v
  BY <1>6, <1>7, GetFound
<1>9. ASSUME NEW other, json_object_get_value(h, o, other) # NULL
      PROVE  json_object_get_value(g, o, other)
               = json_object_get_value(h, o, other)
  <2>. DEFINE i == Index(h, o, other)
  <2>1. /\ i \in DOMAIN names /\ names[i] = other
        /\ json_object_get_value(h, o, other) = values[i]
    BY <1>1, <1>9, IndexIs DEF json_object_get_value, names, values
  <2>2. DOMAIN names = 1 .. n
    BY <1>3, LenProperties
  <2>. HIDE DEF i
  <2>3. json_object_get_value(g, o, other) = g[o].values[i]
    BY <1>6, <1>7, <2>1, <2>2, GetFound
  <2>. QED
    BY <1>7, <2>1, <2>2, <2>3
<1>. QED
  BY <1>5, <1>8, <1>9 DEF g

(* What json_object_set_value sets is found by its name, and the container  *)
(* of the object does not change (parson.c:1681-1700).                      *)
LEMMA SetValueGets ==
  ASSUME NEW h, Good(h), NEW o \in Value, h[o].type = "object",
         NEW name \in Name, NEW v \in Value, MayHold(h, o, v),
         NEW r, r = json_object_set_value(h, o, name, v),
         r.ret = "JSONSuccess"
  PROVE  /\ json_object_get_value(r.heap, o, name) = v
         /\ r.heap[o].type = "object"
         /\ h[o].parent # NULL => r.heap[h[o].parent] = h[h[o].parent]
<1>. DEFINE i == Index(h, o, name)
            p == h[o].parent
<1>0. NULL \notin Value
  BY JsonTreeAssumption
<1>1. h[v].parent = NULL /\ Takes(h, o, v) /\ Nodes(h)
  BY DEF json_object_set_value, Failure, MayHold, Takes, Good
<1>2. o \notin Tree(h, v) /\ o # v
  BY <1>1, TreeIs DEF Takes
<1>3. p # NULL => p \in Value /\ p # o /\ p # v
  <2>. SUFFICES ASSUME p # NULL PROVE p \in Value /\ p # o /\ p # v
    OBVIOUS
  <2>1. p \in Value
    BY <1>1, Fields
  <2>2. p # o
    BY TreeIs
  <2>3. p # v
    BY <1>2, TreeIs
  <2>. QED
    BY <2>1, <2>2, <2>3
<1>. HIDE DEF p
<1>4. CASE i # 0
  <2>. DEFINE old == h[o].values[i]
              F == Tree(h, old)
              f == json_value_free(h, old)
              g == Replaced(h, o, i, v)
  <2>1. /\ i \in DOMAIN h[o].values /\ i \in DOMAIN h[o].names
        /\ h[o].names[i] = name
    BY <1>1, <1>4, GetIs, IndexIs
  <2>2. r = Success(g)
    BY <1>1, <1>4 DEF json_object_set_value
  <2>. HIDE DEF i
  <2>3. old \in Value /\ old \in Kids(h, o)
    BY <2>1, ItemIs
  <2>4. /\ Nodes(f) /\ f[o] = h[o] /\ o \notin F
        /\ \A w \in Value \ F : f[w] = h[w]
    BY <2>3, FreedIs
  <2>5. p # NULL => p \notin F
    BY <2>3, <2>4, TreeIs DEF p
  <2>6. Good(g)
    BY <1>1, <2>1, ReplacedGood
  <2>7. /\ g[o].names = h[o].names /\ g[o].values[i] = v
        /\ g[o].type = h[o].type
        /\ \A w \in Value : w \notin {o, v} => g[w] = f[w]
    <3>. DEFINE F1 == [f EXCEPT ![o].values[i] = v]
    <3>1. f \in [Value -> JSON_Value] /\ f[o] \in JSON_Value
      BY <2>4 DEF Nodes
    <3>. HIDE DEF f, old
    <3>2. g = [f EXCEPT ![o].values[i] = v, ![v].parent = o]
      BY DEF Replaced, f, old
    <3>. HIDE DEF g
    <3>3. /\ g[o].names = f[o].names
          /\ g[o].values = [f[o].values EXCEPT ![i] = v]
          /\ g[o].type = f[o].type
          /\ \A w \in Value : w \notin {o, v} => g[w] = f[w]
      BY <1>2, <3>1, <3>2 DEF JSON_Value
    <3>. QED
      BY <2>1, <2>4, <3>3
  <2>. HIDE DEF f, g, F, old
  <2>8. json_object_get_value(g, o, name) = v
    BY <2>1, <2>6, <2>7, GetFound DEF Good
  <2>9. p # NULL => g[p] = h[p]
    BY <1>3, <2>4, <2>5, <2>7
  <2>. QED
    BY <2>2, <2>7, <2>8, <2>9 DEF Success, p
<1>5. CASE i = 0
  <2>1. r = json_object_add(h, o, name, v)
    BY <1>1, <1>5 DEF json_object_set_value
  <2>2. /\ json_object_get_value(r.heap, o, name) = v
        /\ \A w \in Value : w \notin {o, v} => r.heap[w] = h[w]
    BY <1>1, <2>1, AddGets
  <2>3. r.heap[o].type = h[o].type
    BY <1>1, <2>1, AddGood DEF Failure
  <2>4. p # NULL => r.heap[p] = h[p]
    BY <1>3, <2>2
  <2>. QED
    BY <2>2, <2>3, <2>4 DEF p
<1>. QED
  BY <1>4, <1>5

\* What a name leads to in h, it leads to in k.
Keeps(h, k) ==
  /\ \A w \in Value : h[w].type # "free" => k[w].type = h[w].type
  /\ \A o \in Value : \A name :
       h[o].type = "object" /\ json_object_get_value(h, o, name) # NULL =>
         json_object_get_value(k, o, name) = json_object_get_value(h, o, name)

(* A name with dots leads where it led, if each of its names does.          *)
LEMMA KeepsDotted ==
  ASSUME NEW h, Good(h), NEW k, Keeps(h, k),
         NEW o \in Value, h[o].type = "object", NEW path \in Dotted,
         json_object_dotget_value(h, o, path) # NULL
  PROVE  json_object_dotget_value(k, o, path)
           = json_object_dotget_value(h, o, path)
<1>0. o # NULL /\ NULL \notin Value
  BY JsonTreeAssumption
<1>1. Innermost(h, o, path) # NULL
  BY DEF json_object_dotget_value
<1>2. CASE Front(path) = << >>
  <2>1. Innermost(h, o, path) = o /\ Innermost(k, o, path) = o
    BY <1>0, <1>2, InnermostIs
  <2>. QED
    BY <1>0, <2>1 DEF json_object_dotget_value, Keeps
<1>3. CASE \E name \in Name : Front(path) = <<name>>
  <2>1. PICK name \in Name : Front(path) = <<name>>
    BY <1>3
  <2>. DEFINE inner == json_object_get_object(h, o, name)
  <2>2. /\ Innermost(h, o, path) = inner
        /\ Innermost(k, o, path) = json_object_get_object(k, o, name)
    BY <1>0, <2>1, InnermostIs
  <2>3. inner # NULL
    BY <1>1, <2>2
  <2>4. inner \in Value /\ h[inner].type = "object"
    BY <2>3, GetObjectIs
  <2>5. /\ json_object_get_value(h, o, name) = inner
        /\ json_object_get_value(k, o, name) = inner
        /\ k[inner].type = "object"
    <3>1. json_object_get_value(h, o, name) = inner
      BY <2>3 DEF json_object_get_object
    <3>2. json_object_get_value(h, o, name) # NULL
      BY <2>3, <3>1
    <3>. HIDE DEF inner
    <3>. QED
      BY <2>4, <3>1, <3>2 DEF Keeps
  <2>6. json_object_get_object(k, o, name) = inner
    <3>. HIDE DEF inner
    <3>. QED
      BY <2>3, <2>5 DEF json_object_get_object
  <2>. HIDE DEF inner
  <2>. QED
    BY <2>2, <2>3, <2>4, <2>6 DEF json_object_dotget_value, Keeps
<1>. QED
  BY <1>2, <1>3, DottedIs

(* The walk of json_object_dotset_value leads into the object of that name; *)
(* it changes nothing that led somewhere, and nothing at all when it fails  *)
(* (parson.c:1731-1746).                                                    *)
LEMMA EnterGets ==
  ASSUME NEW h, Good(h), NEW o \in Value, h[o].type = "object",
         NEW name \in Name, FreeAddresses(h) # {},
         NEW walk,
         walk = Enter([heap |-> h, object |-> o, ret |-> "JSONSuccess"], name)
  PROVE  /\ walk.ret = "JSONFailure" => walk.heap = h
         /\ walk.ret # "JSONFailure" =>
              /\ json_object_get_value(walk.heap, o, name) = walk.object
              /\ walk.heap[walk.object].parent = o
              /\ Keeps(h, walk.heap)
<1>. DEFINE start == [heap |-> h, object |-> o, ret |-> "JSONSuccess"]
            found == json_object_get_object(h, o, name)
            new == malloc(h)
            g == json_value_init(h, "object")
            added == json_object_add(g, o, name, new)
<1>1. CASE found # NULL
  <2>1. walk = [start EXCEPT !.object = found]
    BY <1>1 DEF Enter
  <2>2. walk.heap = h /\ walk.object = found /\ walk.ret = "JSONSuccess"
    BY <2>1
  <2>3. found \in Value /\ h[found].type = "object" /\ h[found].parent = o
    BY <1>1, GetObjectIs
  <2>4. json_object_get_value(h, o, name) = found
    BY <1>1 DEF json_object_get_object
  <2>. HIDE DEF found
  <2>5. Keeps(h, h)
    BY DEF Keeps
  <2>. QED
    BY <2>2, <2>3, <2>4, <2>5
<1>2. CASE found = NULL
  <2>1. walk = IF added.ret = "JSONFailure"
                 THEN [start EXCEPT !.ret = added.ret]
                 ELSE [heap |-> added.heap, object |-> new, ret |-> added.ret]
    BY <1>2 DEF Enter
  <2>2. /\ new \in Value /\ Good(g)
        /\ h[new].type = "free" /\ g[new] = NewValue("object")
        /\ \A w \in Value : w # new => g[w] = h[w]
    BY NewGood DEF Type
  <2>3. g[o] = h[o] /\ Takes(g, o, new) /\ o # new
    BY MadeIs DEF Type
  <2>. HIDE DEF found, new, g
  <2>4. CASE added.ret = "JSONFailure"
    <3>1. walk = [start EXCEPT !.ret = "JSONFailure"]
      BY <2>1, <2>4
    <3>2. walk.heap = h /\ walk.ret = "JSONFailure"
      BY <3>1
    <3>. QED
      BY <3>2
  <2>5. CASE added.ret # "JSONFailure"
    <3>. DEFINE k == added.heap
    <3>1. added.ret = "JSONSuccess"
      BY <2>2, <2>3, <2>5, AddGood DEF Failure
    <3>2. walk.heap = k /\ walk.object = new /\ walk.ret = "JSONSuccess"
      BY <2>1, <3>1
    <3>3. /\ json_object_get_value(k, o, name) = new
          /\ \A other : json_object_get_value(g, o, other) # NULL =>
               json_object_get_value(k, o, other)
                 = json_object_get_value(g, o, other)
          /\ \A w \in Value : w \notin {o, new} => k[w] = g[w]
      BY <2>2, <2>3, <3>1, AddGets
    <3>4. /\ k[new].parent = o
          /\ \A w \in Value : k[w].type = g[w].type
      BY <2>2, <2>3, <3>1, AddGood DEF Failure
    <3>. HIDE DEF added, k
    <3>5. Keeps(h, k)
      <4>1. ASSUME NEW w \in Value, h[w].type # "free"
            PROVE  k[w].type = h[w].type
        BY <2>2, <3>4, <4>1
      <4>2. ASSUME NEW p \in Value, NEW other, h[p].type = "object",
                   json_object_get_value(h, p, other) # NULL
            PROVE  json_object_get_value(k, p, other)
                     = json_object_get_value(h, p, other)
        <5>1. g[p] = h[p] /\ p # new
          BY <2>2, <4>2
        <5>2. json_object_get_value(g, p, other)
                = json_object_get_value(h, p, other)
          BY <5>1 DEF json_object_get_value, Index
        <5>3. CASE p = o
          BY <3>3, <4>2, <5>2, <5>3, SMTT(30)
        <5>4. CASE p # o
          <6>1. k[p] = g[p]
            BY <3>3, <5>1, <5>4
          <6>. QED
            BY <5>2, <6>1 DEF json_object_get_value, Index
        <5>. QED
          BY <5>3, <5>4
      <4>. QED
        BY <4>1, <4>2 DEF Keeps
    <3>. QED
      BY <3>2, <3>3, <3>4, <3>5
  <2>. QED
    BY <2>4, <2>5
<1>. QED
  BY <1>1, <1>2

(* What json_object_dotset_value sets is found there; when it fails, what   *)
(* led somewhere still does (parson.c:1718-1748).                           *)
LEMMA DotsetGets ==
  ASSUME NEW h, Good(h), NEW o \in Value, h[o].type = "object",
         NEW path \in Dotted, NEW v \in Value, MayHold(h, o, v),
         Len(path) = 2 => FreeAddresses(h) # {},
         NEW r, r = json_object_dotset_value(h, o, path, v)
  PROVE  /\ r.ret = "JSONSuccess" =>
              json_object_dotget_value(r.heap, o, path) = v
         /\ r.ret # "JSONSuccess" => Keeps(h, r.heap)
<1>. DEFINE start == [heap |-> h, object |-> o, ret |-> "JSONSuccess"]
            walk == FoldLeft(Enter, start, Front(path))
            last == Last(path)
<1>0. o # NULL /\ NULL \notin Value
  BY JsonTreeAssumption
<1>1. r = IF walk.ret = "JSONFailure" THEN Failure(walk.heap)
          ELSE json_object_set_value(walk.heap, walk.object, last, v)
  BY DEF json_object_dotset_value
<1>2. last \in Name
  BY DottedIs
<1>3. Keeps(h, h)
  BY DEF Keeps
<1>4. CASE Front(path) = << >>
  <2>1. walk = start
    BY <1>4, WalkIs
  <2>. HIDE DEF walk, last
  <2>2. r = json_object_set_value(h, o, last, v)
    BY <1>1, <2>1
  <2>3. \A g : Innermost(g, o, path) = o
    BY <1>0, <1>4, InnermostIs
  <2>4. CASE r.ret = "JSONSuccess"
    <3>1. json_object_get_value(r.heap, o, last) = v
      BY <1>2, <2>2, <2>4, SetValueGets
    <3>. QED
      BY <1>0, <2>3, <2>4, <3>1 DEF json_object_dotget_value, last
  <2>5. CASE r.ret # "JSONSuccess"
    <3>1. r = Failure(h)
      BY <1>2, <2>2, <2>5, SetValueGood
    <3>. QED
      BY <1>3, <2>5, <3>1 DEF Failure
  <2>. QED
    BY <2>4, <2>5
<1>5. CASE Len(path) = 2 /\ \E name \in Name : Front(path) = <<name>>
  <2>1. PICK name \in Name : Front(path) = <<name>>
    BY <1>5
  <2>2. walk = Enter(start, name)
    BY <2>1, WalkIs
  <2>. HIDE DEF walk, last
  <2>. DEFINE k == walk.heap
              inner == walk.object
  <2>3. /\ Good(k)
        /\ walk.ret # "JSONFailure" =>
             /\ inner \in Value /\ k[inner].type = "object"
             /\ MayHold(k, inner, v)
    BY <1>5, <2>2, EnterGood
  <2>4. /\ walk.ret = "JSONFailure" => k = h
        /\ walk.ret # "JSONFailure" =>
             /\ json_object_get_value(k, o, name) = inner
             /\ k[inner].parent = o
             /\ Keeps(h, k)
    BY <1>5, <2>2, EnterGets
  <2>. HIDE DEF k, inner
  <2>5. CASE walk.ret = "JSONFailure"
    <3>1. r.heap = h /\ r.ret # "JSONSuccess"
      BY <1>1, <2>4, <2>5 DEF Failure, k
    <3>. QED
      BY <1>3, <3>1
  <2>6. CASE walk.ret # "JSONFailure"
    <3>1. r = json_object_set_value(k, inner, last, v)
      BY <1>1, <2>6 DEF k, inner
    <3>2. CASE r.ret = "JSONSuccess"
      <4>. DEFINE g == r.heap
      <4>1. /\ json_object_get_value(g, inner, last) = v
            /\ g[inner].type = "object"
            /\ k[inner].parent # NULL =>
                 g[k[inner].parent] = k[k[inner].parent]
        BY <1>2, <2>3, <2>6, <3>1, <3>2, SetValueGets
      <4>2. g[o] = k[o]
        BY <1>0, <2>4, <2>6, <4>1
      <4>. HIDE DEF g
      <4>3. json_object_get_value(g, o, name) = inner
        BY <2>4, <2>6, <4>2 DEF json_object_get_value, Index
      <4>4. json_object_get_object(g, o, name) = inner /\ inner # NULL
        BY <1>0, <2>3, <2>6, <4>1, <4>3 DEF json_object_get_object
      <4>5. Innermost(g, o, path) = inner
        BY <1>0, <2>1, <4>4, InnermostIs
      <4>6. json_object_dotget_value(g, o, path) = v
        BY <4>1, <4>4, <4>5 DEF json_object_dotget_value, last
      <4>. QED
        BY <3>2, <4>6 DEF g
    <3>3. CASE r.ret # "JSONSuccess"
      <4>1. r = Failure(k)
        BY <1>2, <2>3, <2>6, <3>1, <3>3, SetValueGood
      <4>. QED
        BY <2>4, <2>6, <3>3, <4>1 DEF Failure
    <3>. QED
      BY <3>2, <3>3
  <2>. QED
    BY <2>5, <2>6
<1>. QED
  BY <1>4, <1>5, DottedIs
-----------------------------------------------------------------------------
(* The theorems.                                                            *)

(* The invariant holds before the first call.                               *)
LEMMA InitGood == Init => Good(heap)
<1>. SUFFICES ASSUME Init PROVE Good(heap)
  OBVIOUS
<1>1. /\ \A v \in Value : heap[v] = NewValue("free")
      /\ heap = [v \in Value |-> heap[v]]
  BY DEF Init
<1>2. Node(NewValue("free"))
  BY NewNode
<1>3. \A v \in Value : Node(heap[v]) /\ heap[v] \in JSON_Value
  BY <1>1, <1>2 DEF Node
<1>4. Nodes(heap)
  BY <1>1, <1>3 DEF Nodes
<1>5. \A v \in Value : Kids(heap, v) = {} /\ heap[v].parent = NULL
  BY <1>1 DEF Kids, ToSet, NewValue
<1>6. Linked(heap)
  BY <1>5, JsonTreeAssumption DEF Linked
<1>7. Ranked(heap)
  <2>1. [v \in Value |-> 0] \in [Value -> Nat]
    OBVIOUS
  <2>. QED
    BY <1>5, <2>1 DEF Ranked, Below
<1>. QED
  BY <1>4, <1>6, <1>7 DEF Good

(* Every call keeps the invariant.                                          *)
LEMMA NextGood == Good(heap) /\ [Next]_heap => Good(heap)'
<1>. SUFFICES ASSUME Good(heap), [Next]_heap PROVE Good(heap')
  OBVIOUS
<1>0. /\ \A v \in Live(heap) : v \in Value /\ heap[v].type # "free"
      /\ \A o \in Objects : o \in Value /\ heap[o].type = "object"
      /\ \A a \in Arrays : a \in Value /\ heap[a].type = "array"
  BY DEF Live, Objects, Arrays
<1>1. Room(1) => FreeAddresses(heap) # {}
  BY RoomIs DEF Room
<1>2. \A c \in Value, v \in Live(heap) :
        Legal(c, v) => MayHold(heap, c, v)
  BY <1>0 DEF Legal, MayHold
<1>3. CASE Make
  BY <1>1, <1>3, NewGood DEF Make
<1>4. CASE Release
  BY <1>0, <1>4, ReleaseGood DEF Release
<1>5. CASE SetValue
  <2>1. PICK o \in Objects, path \in Dotted, v \in Live(heap) :
          /\ Legal(o, v) /\ Room(Len(path) - 1)
          /\ heap' = json_object_dotset_value(heap, o, path, v).heap
    BY <1>5 DEF SetValue, Call
  <2>2. Len(path) = 2 => FreeAddresses(heap) # {}
    BY <1>1, <2>1
  <2>. QED
    BY <1>0, <1>2, <2>1, <2>2, DotsetGood
<1>6. CASE SetScalar
  <2>1. PICK o \in Objects, path \in Dotted, type \in Scalar :
          /\ Room(Len(path))
          /\ heap' = json_object_dotset_scalar(heap, o, path, type).heap
    BY <1>6 DEF SetScalar, Call
  <2>. QED
    BY <1>0, <2>1, DotsetScalarGood DEF Room
<1>7. CASE RemoveMember
  <2>1. PICK o \in Objects, path \in Dotted :
          heap' = json_object_dotremove(heap, o, path).heap
    BY <1>7 DEF RemoveMember, Call
  <2>. QED
    BY <1>0, <2>1, DotremoveGood
<1>8. CASE AppendValue
  <2>1. PICK a \in Arrays, v \in Live(heap) :
          /\ Legal(a, v)
          /\ heap' = json_array_append_value(heap, a, v).heap
    BY <1>8 DEF AppendValue, Call
  <2>. QED
    BY <1>0, <1>2, <2>1, ArrayAppendGood
<1>9. CASE AppendScalar
  <2>. DEFINE new == malloc(heap)
  <2>1. PICK a \in Arrays, type \in Scalar :
          heap' = json_array_append_value(json_value_init(heap, type),
                                          a, new).heap
    BY <1>9 DEF AppendScalar, Call
  <2>. DEFINE k == json_value_init(heap, type)
  <2>2. /\ new \in Value /\ Good(k)
        /\ k[a] = heap[a] /\ MayHold(k, a, new)
    <3>1. type \in Type /\ FreeAddresses(heap) # {}
      BY <1>1, <1>9 DEF AppendScalar, Type
    <3>2. a \in Value /\ heap[a].type # "free"
      BY <1>0
    <3>. QED
      BY <3>1, <3>2, MadeIs
  <2>3. heap' = json_array_append_value(k, a, new).heap
    BY <2>1
  <2>. HIDE DEF k, new
  <2>. QED
    BY <1>0, <2>2, <2>3, ArrayAppendGood
<1>10. CASE ReplaceValue
  <2>1. PICK a \in Arrays, v \in Live(heap), i \in Nat :
          /\ Legal(a, v)
          /\ heap' = json_array_replace_value(heap, a, i, v).heap
    BY <1>10 DEF ReplaceValue, Call
  <2>. QED
    BY <1>0, <1>2, <2>1, ArrayReplaceGood
<1>11. CASE ReplaceScalar
  <2>. DEFINE new == malloc(heap)
  <2>1. PICK a \in Arrays, type \in Scalar, i \in Nat :
          heap' = LET set == json_array_replace_value(
                               json_value_init(heap, type), a, i, new)
                  IN  IF set.ret = "JSONFailure"
                        THEN json_value_free(set.heap, new) ELSE set.heap
    BY <1>11 DEF ReplaceScalar
  <2>. DEFINE k == json_value_init(heap, type)
              set == json_array_replace_value(k, a, i, new)
  <2>2. /\ new \in Value /\ Good(k) /\ MayHold(k, a, new)
        /\ k[new].parent = NULL
    BY <1>0, <1>1, <1>11, MadeIs DEF ReplaceScalar, Type
  <2>3. heap' = IF set.ret = "JSONFailure"
                  THEN json_value_free(set.heap, new) ELSE set.heap
    BY <2>1
  <2>. HIDE DEF new, k
  <2>4. Good(set.heap) /\ (set = Failure(k) \/ set.ret = "JSONSuccess")
    BY <1>0, <2>2, ArrayReplaceGood
  <2>. HIDE DEF set
  <2>5. CASE set = Failure(k)
    <3>1. set.heap = k
      BY <2>5 DEF Failure
    <3>2. Good(json_value_free(k, new))
      BY <2>2, ReleaseGood
    <3>. QED
      BY <2>3, <2>4, <3>1, <3>2
  <2>6. CASE set.ret = "JSONSuccess"
    BY <2>3, <2>4, <2>6
  <2>. QED
    BY <2>4, <2>5, <2>6
<1>12. CASE RemoveItem
  <2>1. PICK a \in Arrays, i \in Nat :
          heap' = json_array_remove(heap, a, i).heap
    BY <1>12 DEF RemoveItem, Call
  <2>. QED
    BY <1>0, <2>1, ArrayRemoveGood
<1>13. CASE Clear
  BY <1>0, <1>13, ClearedGood DEF Clear
<1>14. CASE DeepCopy
  BY <1>0, <1>14, DeepCopyGood DEF DeepCopy, Room
<1>15. CASE UNCHANGED heap
  BY <1>15
<1>. QED
  BY <1>3, <1>4, <1>5, <1>6, <1>7, <1>8, <1>9, <1>10, <1>11, <1>12, <1>13,
     <1>14, <1>15 DEF Next

(* The invariant holds after every sequence of calls.                       *)
LEMMA AlwaysGood == Spec => []Good(heap)
<1>. QED
  BY InitGood, NextGood, PTL DEF Spec

(* The types are a part of the invariant.                                   *)
LEMMA GoodIsTyped == Good(heap) => TypeOK
BY DEF Good, Nodes, Node, TypeOK

(* Values are of a type, only objects have names, one for each value, and   *)
(* no array of names or values is written past its capacity, in every       *)
(* sequence of calls and for any number of values and names                 *)
(* (parson.c:334-479, 1544-1846).                                           *)
THEOREM JsonTreeTypeOK == Spec => []TypeOK
<1>. QED
  BY AlwaysGood, GoodIsTyped, PTL

(* The invariant says where every value is held.                            *)
LEMMA GoodIsOwned == Good(heap) => Ownership
<1>. SUFFICES ASSUME Good(heap), NEW v \in Value
              PROVE  /\ IF heap[v].type = "free" \/ heap[v].parent = NULL
                          THEN Places(v) = {}
                          ELSE \E i \in DOMAIN heap[heap[v].parent].values :
                                 Places(v) = {<<heap[v].parent, i>>}
                     /\ IsInjective(heap[v].names)
  BY DEF Ownership
<1>1. /\ Nodes(heap) /\ Node(heap[v])
      /\ \A p \in Value : v \in Kids(heap, p) <=> heap[v].parent = p
      /\ NULL \notin Value
  BY JsonTreeAssumption DEF Good, Nodes, Linked
<1>2. CASE heap[v].type = "free" \/ heap[v].parent = NULL
  <2>1. heap[v].parent = NULL
    BY <1>1, <1>2 DEF Node
  <2>2. \A p \in Value : v \notin Kids(heap, p)
    BY <1>1, <2>1
  <2>3. Places(v) = {}
    BY <2>2 DEF Places, Kids, ToSet
  <2>. QED
    BY <1>1, <1>2, <2>3 DEF Node
<1>3. CASE ~(heap[v].type = "free" \/ heap[v].parent = NULL)
  <2>. DEFINE p == heap[v].parent
              s == heap[p].values
  <2>1. p \in Value /\ v \in ToSet(s)
    BY <1>1, <1>3, Fields DEF Kids
  <2>2. IsInjective(s)
    BY <1>1, <2>1 DEF Nodes, Node
  <2>3. PICK i \in DOMAIN s : s[i] = v
    BY <2>1 DEF ToSet
  <2>4. {k \in DOMAIN s : s[k] = v} = {i}
    BY <2>2, <2>3 DEF IsInjective
  <2>5. \A q \in Value : q # p =>
          {k \in DOMAIN heap[q].values : heap[q].values[k] = v} = {}
    BY <1>1 DEF Kids, ToSet
  <2>6. Places(v) = {p} \X {i}
    BY <2>1, <2>4, <2>5 DEF Places
  <2>. QED
    BY <1>1, <1>3, <2>3, <2>6 DEF Node
<1>. QED
  BY <1>2, <1>3

(* Every value is in exactly the container that it knows as its parent, at  *)
(* one place, or in none, and no name is in an object twice, in every       *)
(* sequence of calls and for any number of values and names                 *)
(* (parson.c:334-479, 1544-1846).                                           *)
THEOREM JsonTreeOwnership == Spec => []Ownership
<1>. QED
  BY AlwaysGood, GoodIsOwned, PTL

(* What the calls do to a good heap is what SetIsGot says.                  *)
LEMMA GoodIsGot == Good(heap) => SetIsGot
<1>. SUFFICES ASSUME Good(heap),
                     NEW o \in Objects, NEW path \in Dotted,
                     NEW v \in Live(heap),
                     Legal(o, v), Room(Len(path) - 1)
              PROVE  LET set == json_object_dotset_value(heap, o, path, v) IN
                     IF set.ret = "JSONSuccess"
                       THEN json_object_dotget_value(set.heap, o, path) = v
                       ELSE \A p \in Objects, other \in Dotted :
                              json_object_dotget_value(heap, p, other) # NULL =>
                                json_object_dotget_value(set.heap, p, other)
                                  = json_object_dotget_value(heap, p, other)
  BY DEF SetIsGot
<1>. DEFINE set == json_object_dotset_value(heap, o, path, v)
<1>1. /\ v \in Value /\ MayHold(heap, o, v)
      /\ \A p \in Objects : p \in Value /\ heap[p].type = "object"
  BY DEF Objects, Live, Legal, MayHold
<1>2. Len(path) = 2 => FreeAddresses(heap) # {}
  BY RoomIs DEF Room
<1>3. /\ set.ret = "JSONSuccess" =>
           json_object_dotget_value(set.heap, o, path) = v
      /\ set.ret # "JSONSuccess" => Keeps(heap, set.heap)
  BY <1>1, <1>2, DotsetGets
<1>. HIDE DEF set
<1>4. ASSUME set.ret # "JSONSuccess", NEW p \in Objects, NEW other \in Dotted,
             json_object_dotget_value(heap, p, other) # NULL
      PROVE  json_object_dotget_value(set.heap, p, other)
               = json_object_dotget_value(heap, p, other)
  BY <1>1, <1>3, <1>4, KeepsDotted
<1>. QED
  BY <1>3, <1>4 DEF set

(* In every sequence of calls, for any number of values and names, what     *)
(* json_object_dotset_value has set is what json_object_dotget_value reads, *)
(* and where it fails nothing is lost (parson.c:1102, 1718).                *)
THEOREM JsonTreeSetIsGot == Spec => []SetIsGot
<1>. QED
  BY AlwaysGood, GoodIsGot, PTL
-----------------------------------------------------------------------------
(* Paths.                                                                   *)

(* What a path begins with and what is left of it.                          *)
LEMMA PrefixIs ==
  ASSUME NEW K, NEW s \in Seq(K), NEW t \in Seq(K)
  PROVE  /\ IsPrefix(s, t) <=>
              Len(s) <= Len(t) /\ \A i \in 1 .. Len(s) : s[i] = t[i]
         /\ IsPrefix(s, t) =>
              D!Beyond(s, t) \in Seq(K) /\ t = s \o D!Beyond(s, t)
<1>0. Len(s) \in Nat /\ Len(t) \in Nat
  BY LenProperties
<1>1. SubSeq(s, 1, Len(s)) = s
  BY SubSeqFull
<1>2. ASSUME Len(s) <= Len(t)
      PROVE  /\ SubSeq(t, 1, Len(s)) \in Seq(K)
             /\ Len(SubSeq(t, 1, Len(s))) = Len(s)
             /\ \A i \in 1 .. Len(s) : SubSeq(t, 1, Len(s))[i] = t[i]
  <2>1. \A i \in 1 .. Len(s) : t[i] \in K
    BY <1>0, <1>2, ElementOfSeq
  <2>. QED
    BY <1>0, <2>1, SubSeqProperties, SMTT(20)
<1>3. IsPrefix(s, t) <=> Len(s) <= Len(t) /\ \A i \in 1 .. Len(s) : s[i] = t[i]
  <2>1. ASSUME Len(s) <= Len(t), \A i \in 1 .. Len(s) : s[i] = t[i]
        PROVE  SubSeq(t, 1, Len(s)) = s
    <3>. DEFINE u == SubSeq(t, 1, Len(s))
    <3>1. u \in Seq(K) /\ Len(u) = Len(s) /\ \A i \in 1 .. Len(u) : u[i] = s[i]
      BY <1>2, <2>1
    <3>. HIDE DEF u
    <3>2. u = s
      BY <3>1, SeqEqual
    <3>. QED
      BY <3>2 DEF u
  <2>. QED
    BY <1>0, <1>1, <1>2, <2>1 DEF IsPrefix
<1>4. ASSUME IsPrefix(s, t)
      PROVE  D!Beyond(s, t) \in Seq(K) /\ t = s \o D!Beyond(s, t)
  <2>. DEFINE u == SubSeq(t, Len(s) + 1, Len(t))
  <2>1. Len(s) <= Len(t) /\ \A i \in 1 .. Len(s) : s[i] = t[i]
    BY <1>3, <1>4
  <2>2. \A i \in Len(s) + 1 .. Len(t) : t[i] \in K
    BY <1>0, ElementOfSeq
  <2>3. /\ u \in Seq(K) /\ Len(u) = Len(t) - Len(s)
        /\ \A i \in 1 .. Len(t) - Len(s) : u[i] = t[Len(s) + i]
    BY <1>0, <2>1, <2>2, SubSeqProperties, SMTT(20)
  <2>. HIDE DEF u
  <2>4. /\ s \o u \in Seq(K) /\ Len(s \o u) = Len(t)
        /\ \A i \in 1 .. Len(t) : (s \o u)[i] =
                     IF i <= Len(s) THEN s[i] ELSE u[i - Len(s)]
    BY <1>0, <2>3, ConcatProperties, SMTT(20)
  <2>5. \A i \in 1 .. Len(s \o u) : (s \o u)[i] = t[i]
    <3>. SUFFICES ASSUME NEW i \in 1 .. Len(t) PROVE (s \o u)[i] = t[i]
      BY <2>4
    <3>1. CASE i <= Len(s)
      BY <1>0, <2>1, <2>4, <3>1
    <3>2. CASE i > Len(s)
      <4>1. i - Len(s) \in 1 .. Len(t) - Len(s)
        BY <1>0, <3>2
      <4>2. u[i - Len(s)] = t[Len(s) + (i - Len(s))]
        BY <2>3, <4>1
      <4>. QED
        BY <1>0, <2>4, <3>2, <4>2
    <3>3. i <= Len(s) \/ i > Len(s)
      BY <1>0
    <3>. QED
      BY <3>1, <3>2, <3>3
  <2>6. s \o u = t
    BY <2>4, <2>5, SeqEqual
  <2>. QED
    BY <2>3, <2>6 DEF u, D!Beyond
<1>. QED
  BY <1>3, <1>4

(* What follows s in s \o u is u.                                           *)
LEMMA ConcatIs ==
  ASSUME NEW K, NEW s \in Seq(K), NEW u \in Seq(K)
  PROVE  s \o u \in Seq(K) /\ IsPrefix(s, s \o u) /\ D!Beyond(s, s \o u) = u
<1>0. Len(s) \in Nat /\ Len(u) \in Nat
  BY LenProperties
<1>1. /\ s \o u \in Seq(K) /\ Len(s \o u) = Len(s) + Len(u)
      /\ \A i \in 1 .. Len(s) + Len(u) : (s \o u)[i] =
                   IF i <= Len(s) THEN s[i] ELSE u[i - Len(s)]
  BY ConcatProperties
<1>. DEFINE t == s \o u
<1>2. IsPrefix(s, t)
  <2>1. Len(s) <= Len(t) /\ \A i \in 1 .. Len(s) : s[i] = t[i]
    BY <1>0, <1>1
  <2>. HIDE DEF t
  <2>. QED
    BY <1>1, <2>1, PrefixIs DEF t
<1>3. D!Beyond(s, t) \in Seq(K) /\ t = s \o D!Beyond(s, t)
  <2>1. t \in Seq(K)
    BY <1>1
  <2>. HIDE DEF t
  <2>. QED
    BY <1>2, <2>1, PrefixIs
<1>4. D!Beyond(s, s \o u) = u
  BY <1>3, ConcatSimplifications
<1>. QED
  BY <1>1, <1>2, <1>4

(* A path with one more step.                                               *)
LEMMA AppendIs ==
  ASSUME NEW K, NEW t \in Seq(K), NEW k \in K
  PROVE  /\ Append(t, k) \in Seq(K) /\ Append(t, k) # << >>
         /\ Len(Append(t, k)) = Len(t) + 1
         /\ Append(t, k)[Len(t) + 1] = k
         /\ ~IsPrefix(Append(t, k), t) /\ IsPrefix(t, Append(t, k))
         /\ Front(Append(t, k)) = t /\ Last(Append(t, k)) = k
<1>. DEFINE a == Append(t, k)
<1>0. Len(t) \in Nat
  BY LenProperties
<1>1. /\ a \in Seq(K) /\ a # << >>
      /\ Len(a) = Len(t) + 1
      /\ \A i \in 1 .. Len(t) : a[i] = t[i]
      /\ a[Len(t) + 1] = k
  BY AppendProperties
<1>2. Front(a) = t
  BY <1>0, <1>1 DEF Front
<1>3. Last(a) = k
  BY <1>1 DEF Last
<1>. HIDE DEF a
<1>4. ~IsPrefix(a, t) /\ IsPrefix(t, a)
  BY <1>0, <1>1, PrefixIs
<1>. QED
  BY <1>1, <1>2, <1>3, <1>4 DEF a

(* What a path with one more step begins with, and what it follows.         *)
LEMMA AppendPrefix ==
  ASSUME NEW K, NEW s \in Seq(K), NEW t \in Seq(K), NEW k \in K
  PROVE  /\ IsPrefix(s, Append(t, k)) <=> IsPrefix(s, t) \/ s = Append(t, k)
         /\ s \o Append(t, k) = Append(s \o t, k)
<1>. DEFINE a == Append(t, k)
<1>0. Len(s) \in Nat /\ Len(t) \in Nat
  BY LenProperties
<1>1. /\ a \in Seq(K)
      /\ Len(a) = Len(t) + 1
      /\ \A i \in 1 .. Len(t) : a[i] = t[i]
  BY AppendProperties
<1>2. a = t \o <<k>> /\ <<k>> \in Seq(K)
  BY AppendIsConcat
<1>3. s \o a = Append(s \o t, k)
  BY <1>2, ConcatAssociative, AppendIsConcat, ConcatProperties
<1>. HIDE DEF a
<1>6. IsPrefix(s, a) <=>
        Len(s) <= Len(a) /\ \A i \in 1 .. Len(s) : s[i] = a[i]
  BY <1>1, PrefixIs
<1>7. IsPrefix(s, t) <=>
        Len(s) <= Len(t) /\ \A i \in 1 .. Len(s) : s[i] = t[i]
  BY PrefixIs
<1>8. ASSUME IsPrefix(s, a), ~IsPrefix(s, t) PROVE s = a
  <2>1. Len(s) = Len(a)
    BY <1>0, <1>1, <1>6, <1>7, <1>8, SMTT(20)
  <2>. QED
    BY <1>1, <1>6, <1>8, <2>1, SeqEqual
<1>9. IsPrefix(s, t) => IsPrefix(s, a)
  BY <1>0, <1>1, <1>6, <1>7, SMTT(20)
<1>10. IsPrefix(a, a)
  BY <1>1, PrefixIs
<1>. QED
  BY <1>3, <1>8, <1>9, <1>10 DEF a

(* Beginnings of beginnings, and of the same length.                        *)
LEMMA PrefixOrder ==
  ASSUME NEW K, NEW s \in Seq(K), NEW t \in Seq(K), NEW u \in Seq(K)
  PROVE  /\ IsPrefix(s, s)
         /\ IsPrefix(s, t) /\ IsPrefix(t, u) => IsPrefix(s, u)
         /\ IsPrefix(s, t) /\ IsPrefix(t, s) => s = t
<1>0. Len(s) \in Nat /\ Len(t) \in Nat /\ Len(u) \in Nat
  BY LenProperties
<1>1. \A x, y \in Seq(K) : IsPrefix(x, y) <=>
        Len(x) <= Len(y) /\ \A i \in 1 .. Len(x) : x[i] = y[i]
  BY PrefixIs
<1>2. IsPrefix(s, s)
  BY <1>0, <1>1
<1>3. ASSUME IsPrefix(s, t), IsPrefix(t, u) PROVE IsPrefix(s, u)
  <2>1. /\ Len(s) <= Len(t) /\ \A i \in 1 .. Len(s) : s[i] = t[i]
        /\ Len(t) <= Len(u) /\ \A i \in 1 .. Len(t) : t[i] = u[i]
    BY <1>1, <1>3
  <2>2. Len(s) <= Len(u) /\ \A i \in 1 .. Len(s) : s[i] = u[i]
    BY <1>0, <2>1
  <2>. QED
    BY <1>1, <2>2
<1>4. ASSUME IsPrefix(s, t), IsPrefix(t, s) PROVE s = t
  <2>1. Len(s) = Len(t) /\ \A i \in 1 .. Len(s) : s[i] = t[i]
    BY <1>0, <1>1, <1>4
  <2>. QED
    BY <2>1, SeqEqual
<1>. QED
  BY <1>2, <1>3, <1>4

(* What is above a path: nothing above the root, and what is above it and   *)
(* itself above one more step.                                              *)
LEMMA AboveIs ==
  ASSUME NEW K, NEW p \in Seq(K), NEW k \in K
  PROVE  /\ D!Above(<< >>) = {}
         /\ D!Above(p) \subseteq Seq(K)
         /\ D!Above(Append(p, k)) = D!Above(p) \cup {p}
         /\ \A q \in D!Above(p) : Len(q) < Len(p) /\ IsPrefix(q, p)
         /\ \A q \in Seq(K) : IsPrefix(q, p) /\ q # p => q \in D!Above(p)
<1>0. Len(p) \in Nat
  BY LenProperties
<1>1. \A n \in 0 .. Len(p) : /\ SubSeq(p, 1, n) \in Seq(K)
                             /\ Len(SubSeq(p, 1, n)) = n
                             /\ \A i \in 1 .. n : SubSeq(p, 1, n)[i] = p[i]
  <2>. SUFFICES ASSUME NEW n \in 0 .. Len(p)
                PROVE  /\ SubSeq(p, 1, n) \in Seq(K)
                       /\ Len(SubSeq(p, 1, n)) = n
                       /\ \A i \in 1 .. n : SubSeq(p, 1, n)[i] = p[i]
    OBVIOUS
  <2>1. \A i \in 1 .. n : p[i] \in K
    BY <1>0, ElementOfSeq
  <2>. QED
    BY <1>0, <2>1, SubSeqProperties, SMTT(20)
<1>2. D!Above(p) \subseteq Seq(K)
  BY <1>1 DEF D!Above
<1>3. \A q \in D!Above(p) : Len(q) < Len(p) /\ IsPrefix(q, p)
  <2>. SUFFICES ASSUME NEW n \in 0 .. Len(p), SubSeq(p, 1, n) # p
                PROVE  LET q == SubSeq(p, 1, n) IN Len(q) < Len(p) /\ IsPrefix(q, p)
    BY DEF D!Above
  <2>. DEFINE q == SubSeq(p, 1, n)
  <2>1. n # Len(p)
    BY SubSeqFull
  <2>2. q \in Seq(K) /\ Len(q) = n /\ \A i \in 1 .. n : q[i] = p[i]
    BY <1>1
  <2>. HIDE DEF q
  <2>3. Len(q) < Len(p) /\ IsPrefix(q, p)
    BY <1>0, <2>1, <2>2, PrefixIs, SMTT(30)
  <2>. QED
    BY <2>3 DEF q
<1>4. ASSUME NEW q \in Seq(K), IsPrefix(q, p), q # p PROVE q \in D!Above(p)
  <2>1. Len(q) \in Nat /\ SubSeq(q, 1, Len(q)) = q
    BY LenProperties, SubSeqFull
  <2>2. Len(q) \in 0 .. Len(p) /\ SubSeq(p, 1, Len(q)) = q
    BY <1>0, <1>4, <2>1 DEF IsPrefix
  <2>. QED
    BY <1>4, <2>2 DEF D!Above
<1>5. D!Above(<< >>) = {}
  <2>1. SubSeq(<< >>, 1, 0) = << >>
    BY SubSeqEmpty
  <2>. QED
    BY <2>1 DEF D!Above
<1>6. D!Above(Append(p, k)) = D!Above(p) \cup {p}
  <2>. DEFINE a == Append(p, k)
  <2>1. /\ a \in Seq(K) /\ Len(a) = Len(p) + 1
        /\ \A i \in 1 .. Len(p) : a[i] = p[i]
    BY AppendProperties
  <2>. HIDE DEF a
  <2>2. \A n \in 0 .. Len(p) : SubSeq(a, 1, n) = SubSeq(p, 1, n)
    <3>. SUFFICES ASSUME NEW n \in 0 .. Len(p)
                  PROVE  SubSeq(a, 1, n) = SubSeq(p, 1, n)
      OBVIOUS
    <3>1. \A i \in 1 .. n : a[i] \in K
      BY <1>0, <2>1, ElementOfSeq
    <3>2. /\ SubSeq(a, 1, n) \in Seq(K)
          /\ Len(SubSeq(a, 1, n)) = n
          /\ \A i \in 1 .. n : SubSeq(a, 1, n)[i] = a[i]
      BY <1>0, <3>1, SubSeqProperties, SMTT(20)
    <3>3. \A i \in 1 .. Len(SubSeq(a, 1, n)) :
            SubSeq(a, 1, n)[i] = SubSeq(p, 1, n)[i]
      BY <1>0, <1>1, <2>1, <3>2
    <3>. HIDE DEF a
    <3>. QED
      BY <1>1, <3>2, <3>3, SeqEqual
  <2>3. SubSeq(a, 1, Len(p) + 1) = a
    BY <2>1, SubSeqFull
  <2>4. SubSeq(p, 1, Len(p)) = p
    BY SubSeqFull
  <2>5. \A n \in 0 .. Len(p) : SubSeq(p, 1, n) # a
    BY <1>0, <1>1, <2>1
  <2>6. 0 .. Len(p) + 1 = (0 .. Len(p)) \cup {Len(p) + 1}
    BY <1>0
  <2>7. D!Above(a) = {SubSeq(p, 1, n) : n \in 0 .. Len(p)}
    <3>1. {SubSeq(a, 1, n) : n \in 0 .. Len(a)}
            = {SubSeq(a, 1, n) : n \in 0 .. Len(p)} \cup {a}
      <4>1. 0 .. Len(a) = (0 .. Len(p)) \cup {Len(p) + 1}
        BY <2>1, <2>6
      <4>. QED
        BY <2>3, <4>1
    <3>2. {SubSeq(a, 1, n) : n \in 0 .. Len(p)}
            = {SubSeq(p, 1, n) : n \in 0 .. Len(p)}
      BY <2>2, Zenon
    <3>. QED
      BY <3>1, <3>2, <2>5 DEF D!Above
  <2>8. D!Above(p) \cup {p} = {SubSeq(p, 1, n) : n \in 0 .. Len(p)}
    BY <1>0, <2>4 DEF D!Above
  <2>. QED
    BY <2>7, <2>8 DEF a
<1>. QED
  BY <1>2, <1>3, <1>4, <1>5, <1>6
-----------------------------------------------------------------------------
(* From a value to the document it is in.                                   *)

Key == Name \cup Nat

(* root[v] is the value that stands for the document that v is in, path[v]  *)
(* the path of v in it.                                                     *)
Traced(h, root, path) ==
  /\ root \in [Value -> Value] /\ path \in [Value -> Seq(Key)]
  /\ \A v \in Value :
       IF h[v].parent = NULL THEN root[v] = v /\ path[v] = << >>
       ELSE /\ root[v] = root[h[v].parent]
            /\ path[v] = Append(path[h[v].parent], KeyOf(h, v))

(* The key of the i-th value of a container is its i-th name, or i.         *)
LEMMA KeyIs ==
  ASSUME NEW h, Good(h), NEW p \in Value, NEW i \in DOMAIN h[p].values
  PROVE  /\ i \in Nat \ {0} /\ h[p].values[i] \in Value
         /\ h[h[p].values[i]].parent = p
         /\ h[p].type \in {"object", "array"}
         /\ KeyOf(h, h[p].values[i]) =
              IF h[p].type = "object" THEN h[p].names[i] ELSE i
         /\ h[p].type = "object" => i \in DOMAIN h[p].names /\ h[p].names[i] \in Name
         /\ KeyOf(h, h[p].values[i]) \in Key
<1>. DEFINE v == h[p].values[i]
<1>1. /\ h[p].type \in Type \cup {"free"}
      /\ h[p].names \in Seq(Name) /\ h[p].values \in Seq(Value)
  BY Fields DEF Good
<1>2. DOMAIN h[p].values = 1 .. Len(h[p].values) /\ Len(h[p].values) \in Nat
  BY <1>1, LenProperties
<1>3. v \in Value /\ v \in Kids(h, p)
  BY <1>1, <1>2, ElementOfSeq DEF Kids, ToSet
<1>4. h[v].parent = p
  BY <1>3 DEF Good, Linked
<1>5. /\ IsInjective(h[p].values)
      /\ h[p].type = "object" => Len(h[p].names) = Len(h[p].values)
      /\ h[p].type \in Scalar \cup {"free"} => h[p].values = << >>
  BY DEF Good, Nodes, Node
<1>6. h[p].type \in {"object", "array"}
  BY <1>1, <1>2, <1>5 DEF Type
<1>7. h[p].values[i] = v
  OBVIOUS
<1>. HIDE DEF v
<1>11. \A k \in DOMAIN h[h[v].parent].values :
         h[h[v].parent].values[k] = v <=> k = i
  BY <1>4, <1>5, <1>7 DEF IsInjective
<1>12. PlaceOf(h, v) = i
  BY <1>4, <1>11 DEF PlaceOf
<1>8. KeyOf(h, v) = IF h[p].type = "object" THEN h[p].names[i] ELSE i
  BY <1>4, <1>12 DEF KeyOf
<1>9. h[p].type = "object" => i \in DOMAIN h[p].names /\ h[p].names[i] \in Name
  BY <1>1, <1>2, <1>5, LenProperties, ElementOfSeq
<1>10. i \in Nat \ {0}
  BY <1>2
<1>. QED
  BY <1>3, <1>4, <1>6, <1>7, <1>8, <1>9, <1>10 DEF Key

(* A value with a parent is one of those that the parent holds, and no      *)
(* other of them has its key.                                               *)
LEMMA HeldIs ==
  ASSUME NEW h, Good(h), NEW v \in Value, h[v].parent # NULL
  PROVE  /\ h[v].parent \in Value
         /\ h[h[v].parent].type \in {"object", "array"}
         /\ \E i \in DOMAIN h[h[v].parent].values : h[h[v].parent].values[i] = v
         /\ KeyOf(h, v) \in Key
         /\ KeyOf(h, v) \in Name <=> h[h[v].parent].type = "object"
         /\ \A w \in Value : /\ h[w].parent = h[v].parent
                             /\ KeyOf(h, w) = KeyOf(h, v)
                             => w = v
<1>. DEFINE p == h[v].parent
<1>1. p \in Value
  BY Fields DEF Good
<1>2. \A w \in Value : h[w].parent = p =>
        \E i \in DOMAIN h[p].values : h[p].values[i] = w
  BY <1>1 DEF Good, Linked, Kids, ToSet
<1>3. PICK i \in DOMAIN h[p].values : h[p].values[i] = v
  BY <1>2
<1>4. /\ i \in Nat \ {0}
      /\ h[p].type \in {"object", "array"}
      /\ KeyOf(h, v) = IF h[p].type = "object" THEN h[p].names[i] ELSE i
      /\ h[p].type = "object" => h[p].names[i] \in Name
      /\ KeyOf(h, v) \in Key
  BY <1>1, <1>3, KeyIs
<1>5. KeyOf(h, v) \in Name <=> h[p].type = "object"
  BY <1>4, JsonTreeAssumption
<1>6. ASSUME NEW w \in Value, h[w].parent = p, KeyOf(h, w) = KeyOf(h, v)
      PROVE  w = v
  <2>1. PICK j \in DOMAIN h[p].values : h[p].values[j] = w
    BY <1>2, <1>6
  <2>2. /\ KeyOf(h, w) = IF h[p].type = "object" THEN h[p].names[j] ELSE j
        /\ h[p].type = "object" =>
             i \in DOMAIN h[p].names /\ j \in DOMAIN h[p].names
    BY <1>1, <1>3, <2>1, KeyIs
  <2>3. IsInjective(h[p].names)
    BY <1>1 DEF Good, Nodes, Node
  <2>4. i = j
    BY <1>4, <1>6, <2>2, <2>3 DEF IsInjective
  <2>. QED
    BY <1>3, <2>1, <2>4
<1>. QED
  BY <1>1, <1>3, <1>4, <1>5, <1>6

(* Induction from a container to what it holds.                             *)
LEMMA Descent ==
  ASSUME NEW h, Good(h), NEW S,
         \A v \in Value : h[v].parent = NULL \/ h[v].parent \in S => v \in S
  PROVE  Value \subseteq S
<1>1. PICK rank \in [Value -> Nat] : Below(h, rank)
  BY DEF Good, Ranked
<1>. DEFINE N == {n \in Nat : \A v \in Value : rank[v] < n => v \in S}
<1>2. 0 \in N
  OBVIOUS
<1>3. ASSUME NEW n \in Nat, n \in N PROVE n + 1 \in N
  <2>1. ASSUME NEW v \in Value, rank[v] < n + 1, h[v].parent # NULL
        PROVE  v \in S
    <3>1. h[v].parent \in Value /\ rank[h[v].parent] < rank[v]
      BY <1>1, <2>1, Fields DEF Below, Good
    <3>2. rank[h[v].parent] \in Nat /\ rank[v] \in Nat
      BY <3>1
    <3>3. rank[h[v].parent] < n
      BY <2>1, <3>1, <3>2
    <3>. QED
      BY <1>3, <3>1, <3>3
  <2>. QED
    BY <2>1
<1>. HIDE DEF N
<1>4. \A n \in Nat : n \in N
  BY <1>2, <1>3, NatSetInduction
<1>. SUFFICES ASSUME NEW v \in Value PROVE v \in S
  OBVIOUS
<1>5. rank[v] + 1 \in N /\ rank[v] < rank[v] + 1
  BY <1>4
<1>. QED
  BY <1>5 DEF N

(* There are finitely many ranks.                                           *)
LEMMA RankBound ==
  ASSUME NEW rank \in [Value -> Nat]
  PROVE  \E m \in Nat : \A v \in Value : rank[v] < m
<1>. DEFINE N == {n \in Nat : \A f \in [1 .. n -> Nat] :
                     \E m \in Nat : \A i \in 1 .. n : f[i] < m}
<1>1. 0 \in N
  OBVIOUS
<1>2. ASSUME NEW n \in Nat, n \in N PROVE n + 1 \in N
  <2>0. n + 1 \in Nat
    OBVIOUS
  <2>. SUFFICES \A f \in [1 .. n + 1 -> Nat] :
                  \E m \in Nat : \A i \in 1 .. n + 1 : f[i] < m
    BY <2>0, Zenon
  <2>. TAKE f \in [1 .. n + 1 -> Nat]
  <2>. DEFINE g == [i \in 1 .. n |-> f[i]]
  <2>1. g \in [1 .. n -> Nat]
    OBVIOUS
  <2>2. PICK k \in Nat : \A i \in 1 .. n : g[i] < k
    BY <1>2, <2>1
  <2>3. f[n + 1] \in Nat
    OBVIOUS
  <2>4. \A i \in 1 .. n + 1 : f[i] < k + f[n + 1] + 1
    <3>. SUFFICES ASSUME NEW i \in 1 .. n + 1 PROVE f[i] < k + f[n + 1] + 1
      OBVIOUS
    <3>1. CASE i = n + 1
      BY <2>3, <3>1
    <3>2. CASE i # n + 1
      <4>1. i \in 1 .. n
        BY <3>2
      <4>2. f[i] < k /\ f[i] \in Nat
        BY <2>2, <4>1
      <4>. QED
        BY <2>3, <4>2
    <3>. QED
      BY <3>1, <3>2
  <2>. QED
    <3>1. k + f[n + 1] + 1 \in Nat
      BY <2>3
    <3>. QED
      BY <2>4, <3>1
<1>. HIDE DEF N
<1>3. \A n \in Nat : n \in N
  BY <1>1, <1>2, NatSetInduction
<1>4. Cardinality(Value) \in Nat /\ ExistsBijection(1 .. Cardinality(Value), Value)
  BY FS_CardinalityType, JsonTreeAssumption
<1>5. PICK b : b \in Bijection(1 .. Cardinality(Value), Value)
  BY <1>4 DEF ExistsBijection
<1>6. /\ b \in [1 .. Cardinality(Value) -> Value]
      /\ \A v \in Value : \E i \in 1 .. Cardinality(Value) : b[i] = v
  BY <1>5 DEF Bijection, Injection, Surjection
<1>. DEFINE f == [i \in 1 .. Cardinality(Value) |-> rank[b[i]]]
<1>7. f \in [1 .. Cardinality(Value) -> Nat]
  BY <1>6
<1>8. PICK m \in Nat : \A i \in 1 .. Cardinality(Value) : f[i] < m
  BY <1>3, <1>4, <1>7 DEF N
<1>. QED
  BY <1>6, <1>8

(* Every value can be traced.                                               *)
LEMMA TraceExists ==
  ASSUME NEW h, Good(h)
  PROVE  \E root, path : Traced(h, root, path)
<1>0. NULL \notin Value
  BY JsonTreeAssumption
<1>1. PICK rank \in [Value -> Nat] : Below(h, rank)
  BY DEF Good, Ranked
<1>. DEFINE Step(root, path, v) ==
              IF h[v].parent = NULL THEN root[v] = v /\ path[v] = << >>
              ELSE /\ root[v] = root[h[v].parent]
                   /\ path[v] = Append(path[h[v].parent], KeyOf(h, v))
            N == {n \in Nat :
                    \E root \in [Value -> Value], path \in [Value -> Seq(Key)] :
                      \A v \in Value : rank[v] < n => Step(root, path, v)}
<1>2. 0 \in N
  <2>. DEFINE root == [v \in Value |-> v]
              path == [v \in Value |-> << >>]
  <2>1. root \in [Value -> Value] /\ path \in [Value -> Seq(Key)]
    BY EmptySeq
  <2>2. \A v \in Value : ~(rank[v] < 0)
    OBVIOUS
  <2>. QED
    BY <2>1, <2>2
<1>3. ASSUME NEW n \in Nat, n \in N PROVE n + 1 \in N
  <2>1. PICK root \in [Value -> Value], path \in [Value -> Seq(Key)] :
          \A v \in Value : rank[v] < n => Step(root, path, v)
    BY <1>3
  <2>. DEFINE root2 == [v \in Value |->
                 IF rank[v] < n \/ h[v].parent = NULL THEN IF rank[v] < n THEN root[v] ELSE v
                 ELSE root[h[v].parent]]
              path2 == [v \in Value |->
                 IF rank[v] < n \/ h[v].parent = NULL THEN IF rank[v] < n THEN path[v] ELSE << >>
                 ELSE Append(path[h[v].parent], KeyOf(h, v))]
  <2>2. \A v \in Value : h[v].parent # NULL =>
          /\ h[v].parent \in Value /\ rank[h[v].parent] < rank[v]
          /\ KeyOf(h, v) \in Key
    BY <1>1, HeldIs DEF Below
  <2>3. root2 \in [Value -> Value]
    BY <2>2
  <2>4. path2 \in [Value -> Seq(Key)]
    <3>. SUFFICES ASSUME NEW v \in Value PROVE path2[v] \in Seq(Key)
      OBVIOUS
    <3>1. CASE rank[v] < n
      BY <3>1
    <3>2. CASE ~(rank[v] < n) /\ h[v].parent = NULL
      BY <3>2, EmptySeq
    <3>3. CASE ~(rank[v] < n) /\ h[v].parent # NULL
      <4>1. Append(path[h[v].parent], KeyOf(h, v)) \in Seq(Key)
        BY <2>2, <3>3, AppendProperties, SMTT(30)
      <4>. QED
        BY <3>3, <4>1
    <3>. QED
      BY <3>1, <3>2, <3>3
  <2>5. ASSUME NEW v \in Value, rank[v] < n + 1 PROVE Step(root2, path2, v)
    <3>1. CASE h[v].parent = NULL
      BY <2>1, <3>1, SMTT(30)
    <3>2. CASE h[v].parent # NULL
      <4>. DEFINE p == h[v].parent
      <4>1. p \in Value /\ rank[p] < rank[v] /\ rank[p] \in Nat /\ rank[v] \in Nat
        BY <2>2, <3>2
      <4>2. rank[p] < n
        BY <2>5, <4>1
      <4>3. root2[p] = root[p] /\ path2[p] = path[p]
        BY <4>1, <4>2
      <4>4. root2[v] = root[p] /\ path2[v] = Append(path[p], KeyOf(h, v))
        BY <2>1, <3>2
      <4>. QED
        BY <3>2, <4>3, <4>4, ZenonT(30)
    <3>. QED
      BY <3>1, <3>2, ZenonT(30)
  <2>. HIDE DEF root2, path2, Step
  <2>6. \E r \in [Value -> Value], q \in [Value -> Seq(Key)] :
          \A v \in Value : rank[v] < n + 1 => Step(r, q, v)
    BY <2>3, <2>4, <2>5
  <2>7. n + 1 \in Nat
    OBVIOUS
  <2>. QED
    BY <2>6, <2>7, Zenon
<1>. HIDE DEF N
<1>4. \A n \in Nat : n \in N
  BY <1>2, <1>3, NatSetInduction
<1>5. PICK m \in Nat : \A v \in Value : rank[v] < m
  BY RankBound
<1>6. m \in N
  BY <1>4
<1>. QED
  BY <1>5, <1>6 DEF N, Traced

(* In one way only.                                                         *)
LEMMA TraceIsOne ==
  ASSUME NEW h, Good(h), NEW root, NEW path, Traced(h, root, path)
  PROVE  PathTo(h) = path
<1>. DEFINE Rec(f) == f = [v \in Value |->
                             IF h[v].parent = NULL THEN << >>
                             ELSE Append(f[h[v].parent], KeyOf(h, v))]
            f == CHOOSE g : Rec(g)
<1>1. Rec(path)
  BY SMTT(30) DEF Traced
<1>2. Rec(f)
  BY <1>1, ZenonT(30)
<1>3. PathTo(h) = f
  BY DEF PathTo
<1>. HIDE DEF f
<1>. DEFINE S == {v \in Value : f[v] = path[v]}
<1>4. \A v \in Value : h[v].parent = NULL \/ h[v].parent \in S => v \in S
  BY <1>1, <1>2, ZenonT(60)
<1>. HIDE DEF S
<1>5. Value \subseteq S
  BY <1>4, Descent
<1>6. \A v \in Value : f[v] = path[v]
  BY <1>5 DEF S
<1>7. f = path
  BY <1>1, <1>2, <1>6
<1>. QED
  BY <1>3, <1>7

(* What is traced in a good heap: the root of a value has no parent and is  *)
(* a value if and only if it is one; the path of a value with a parent is   *)
(* one step longer than that of the parent.                                 *)
LEMMA TraceIs ==
  ASSUME NEW h, Good(h), NEW root, NEW path, Traced(h, root, path)
  PROVE  \A v \in Value :
           /\ root[v] \in Value /\ path[v] \in Seq(Key)
           /\ h[root[v]].parent = NULL /\ path[root[v]] = << >>
           /\ root[root[v]] = root[v]
           /\ root[v] \in Live(h) <=> v \in Live(h)
           /\ h[v].parent = NULL <=> path[v] = << >>
           /\ h[v].parent = NULL <=> root[v] = v
<1>0. NULL \notin Value
  BY JsonTreeAssumption
<1>1. \A v \in Value :
        /\ root[v] \in Value /\ path[v] \in Seq(Key)
        /\ h[v].parent = NULL => root[v] = v /\ path[v] = << >>
        /\ h[v].parent # NULL =>
             /\ root[v] = root[h[v].parent]
             /\ path[v] = Append(path[h[v].parent], KeyOf(h, v))
  BY DEF Traced
<1>. DEFINE S == {v \in Value : /\ h[root[v]].parent = NULL
                                /\ root[v] \in Live(h) <=> v \in Live(h)}
<1>2. ASSUME NEW v \in Value, h[v].parent = NULL \/ h[v].parent \in S
      PROVE  v \in S
  <2>1. CASE h[v].parent = NULL
    BY <1>1, <2>1
  <2>2. CASE h[v].parent # NULL
    <3>1. /\ h[v].parent \in Value
          /\ h[h[v].parent].type # "free"
      BY <2>2, HeldIs
    <3>2. h[v].type # "free"
      BY <2>2 DEF Good, Nodes, Node
    <3>. QED
      BY <1>1, <1>2, <2>2, <3>1, <3>2 DEF Live
  <2>. QED
    BY <2>1, <2>2
<1>. HIDE DEF S
<1>3. Value \subseteq S
  BY <1>2, Descent
<1>4. \A v \in Value : h[root[v]].parent = NULL /\ (root[v] \in Live(h) <=> v \in Live(h))
  BY <1>3 DEF S
<1>5. ASSUME NEW v \in Value, h[v].parent # NULL PROVE path[v] # << >>
  <2>1. h[v].parent \in Value /\ KeyOf(h, v) \in Key
    BY <1>5, HeldIs
  <2>. QED
    BY <1>1, <1>5, <2>1, AppendIs
<1>. QED
  BY <1>1, <1>4, <1>5

(* No two values are at one place.                                          *)
LEMMA TraceIsInjective ==
  ASSUME NEW h, Good(h), NEW root, NEW path, Traced(h, root, path),
         NEW v \in Value, NEW w \in Value, root[v] = root[w], path[v] = path[w]
  PROVE  v = w
<1>1. \A u \in Value :
        /\ path[u] \in Seq(Key)
        /\ h[u].parent = NULL => root[u] = u /\ path[u] = << >>
        /\ h[u].parent # NULL =>
             /\ h[u].parent \in Value /\ KeyOf(h, u) \in Key
             /\ path[h[u].parent] \in Seq(Key)
             /\ root[u] = root[h[u].parent]
             /\ path[u] = Append(path[h[u].parent], KeyOf(h, u))
  BY HeldIs DEF Traced
<1>. DEFINE S == {u \in Value : \A x \in Value :
                     root[u] = root[x] /\ path[u] = path[x] => u = x}
<1>2. ASSUME NEW u \in Value, h[u].parent = NULL \/ h[u].parent \in S
      PROVE  u \in S
  <2>. SUFFICES ASSUME NEW x \in Value, root[u] = root[x], path[u] = path[x]
                PROVE  u = x
    OBVIOUS
  <2>1. h[u].parent = NULL <=> h[x].parent = NULL
    BY TraceIs
  <2>2. CASE h[u].parent = NULL
    BY <1>1, <2>1, <2>2
  <2>3. CASE h[u].parent # NULL
    <3>1. h[x].parent # NULL
      BY <2>1, <2>3
    <3>. DEFINE a == path[h[u].parent]
                b == path[h[x].parent]
                k == KeyOf(h, u)
                l == KeyOf(h, x)
    <3>5. a \in Seq(Key) /\ b \in Seq(Key) /\ k \in Key /\ l \in Key
      BY <1>1, <2>3, <3>1
    <3>6. Append(a, k) = Append(b, l)
      <4>1. path[u] = Append(a, k) /\ path[x] = Append(b, l)
        BY <1>1, <2>3, <3>1, Zenon
      <4>. QED
        BY <4>1
    <3>. HIDE DEF a, b, k, l
    <3>7. a = b /\ k = l
      BY <3>5, <3>6, AppendInjective
    <3>2. path[h[u].parent] = path[h[x].parent] /\ KeyOf(h, u) = KeyOf(h, x)
      BY <3>7 DEF a, b, k, l
    <3>3. root[h[u].parent] = root[h[x].parent]
      BY <1>1, <2>3, <3>1
    <3>4. h[u].parent = h[x].parent
      BY <1>1, <1>2, <2>3, <3>1, <3>2, <3>3
    <3>. QED
      BY <2>3, <3>1, <3>2, <3>4, HeldIs
  <2>. QED
    BY <2>2, <2>3
<1>. HIDE DEF S
<1>3. Value \subseteq S
  BY <1>2, Descent
<1>. QED
  BY <1>3 DEF S

(* What v reaches is what is in the same document under its path.           *)
LEMMA TraceTree ==
  ASSUME NEW h, Good(h), NEW root, NEW path, Traced(h, root, path),
         NEW v \in Value
  PROVE  /\ Tree(h, v) =
              {w \in Value : root[w] = root[v] /\ IsPrefix(path[v], path[w])}
         /\ h[v].parent = NULL => Tree(h, v) = {w \in Value : root[w] = v}
<1>1. \A u \in Value :
        /\ path[u] \in Seq(Key)
        /\ h[u].parent = NULL => root[u] = u /\ path[u] = << >>
        /\ h[u].parent # NULL =>
             /\ h[u].parent \in Value /\ KeyOf(h, u) \in Key
             /\ path[h[u].parent] \in Seq(Key)
             /\ root[u] = root[h[u].parent]
             /\ path[u] = Append(path[h[u].parent], KeyOf(h, u))
  BY HeldIs DEF Traced
<1>. DEFINE T == Tree(h, v)
            S == {w \in Value : root[w] = root[v] /\ IsPrefix(path[v], path[w])}
<1>2. /\ v \in T /\ T \subseteq Value
      /\ \A w \in Value : h[w].parent \in T => w \in T
  BY TreeIs
<1>3. T \subseteq S
  <2>1. v \in S
    BY <1>1, PrefixOrder
  <2>2. ASSUME NEW p \in S PROVE Kids(h, p) \subseteq S
    <3>. SUFFICES ASSUME NEW w \in Kids(h, p) PROVE w \in S
      OBVIOUS
    <3>1. w \in Value /\ h[w].parent = p
      BY Fields DEF Good, Linked
    <3>2. p # NULL
      BY JsonTreeAssumption
    <3>3. root[w] = root[v] /\ path[w] = Append(path[p], KeyOf(h, w))
      BY <1>1, <3>1, <3>2
    <3>4. IsPrefix(path[v], path[w])
      BY <1>1, <3>1, <3>2, <3>3, AppendPrefix
    <3>. QED
      BY <3>1, <3>3, <3>4
  <2>. HIDE DEF S
  <2>. QED
    BY <2>1, <2>2, ClosedIs, TreeIsLeast
<1>4. S \subseteq T
  <2>. DEFINE R == {w \in Value : w \in S => w \in T}
  <2>1. ASSUME NEW w \in Value, h[w].parent = NULL \/ h[w].parent \in R
        PROVE  w \in R
    <3>. SUFFICES ASSUME w \in S PROVE w \in T
      OBVIOUS
    <3>1. CASE h[w].parent = NULL
      <4>1. path[w] = << >> /\ root[w] = w
        BY <1>1, <3>1
      <4>2. path[v] = << >>
        BY <1>1, <4>1, EmptySeq, LenProperties DEF IsPrefix
      <4>3. v = w
        BY <4>1, <4>2, TraceIsInjective
      <4>. QED
        BY <1>2, <4>3
    <3>2. CASE h[w].parent # NULL
      <4>1. IsPrefix(path[v], path[h[w].parent]) \/ path[v] = path[w]
        <5>. DEFINE s == path[v]
                    a == path[h[w].parent]
                    k == KeyOf(h, w)
        <5>1. s \in Seq(Key) /\ a \in Seq(Key) /\ k \in Key /\ path[w] = Append(a, k)
          BY <1>1, <3>2
        <5>2. IsPrefix(s, path[w])
          OBVIOUS
        <5>. HIDE DEF s, a, k
        <5>3. IsPrefix(s, a) \/ s = path[w]
          BY <5>1, <5>2, AppendPrefix
        <5>. QED
          BY <5>3 DEF s, a
      <4>2. CASE path[v] = path[w]
        <5>1. v = w
          BY <4>2, TraceIsInjective
        <5>. QED
          BY <1>2, <5>1
      <4>3. CASE IsPrefix(path[v], path[h[w].parent])
        <5>1. h[w].parent \in T
          BY <1>1, <2>1, <3>2, <4>3
        <5>. QED
          BY <1>2, <5>1
      <4>. QED
        BY <4>1, <4>2, <4>3
    <3>. QED
      BY <3>1, <3>2
  <2>. HIDE DEF R
  <2>2. Value \subseteq R
    BY <2>1, Descent
  <2>. QED
    BY <2>2 DEF R
<1>5. ASSUME h[v].parent = NULL PROVE S = {w \in Value : root[w] = v}
  <2>1. root[v] = v /\ path[v] = << >>
    BY <1>1, <1>5
  <2>2. \A w \in Value : IsPrefix(<< >>, path[w])
    BY <1>1, PrefixIs, EmptySeq, LenProperties
  <2>. QED
    BY <2>1, <2>2
<1>. HIDE DEF T, S
<1>6. T = S
  BY <1>3, <1>4
<1>. QED
  BY <1>5, <1>6 DEF T, S

\* A function.
IsMap(f) == f = [x \in DOMAIN f |-> f[x]]

(* Its values determine it.                                                 *)
LEMMA SameMap ==
  ASSUME NEW f, IsMap(f), NEW g, IsMap(g), \A x : x \in DOMAIN f <=> x \in DOMAIN g,
         \A x \in DOMAIN f : f[x] = g[x]
  PROVE  f = g
<1>1. DOMAIN f = DOMAIN g
  OBVIOUS
<1>. QED
  BY <1>1 DEF IsMap

(* The document of a root.                                                  *)
LEMMA DocumentIs ==
  ASSUME NEW h, Good(h), NEW root, NEW path, Traced(h, root, path),
         NEW r \in Value, h[r].parent = NULL
  PROVE  LET d == Document(h, r) IN
         /\ IsMap(d)
         /\ \A q : q \in DOMAIN d <=>
                  \E w \in Value : root[w] = r /\ path[w] = q
         /\ \A w \in Value : root[w] = r => d[path[w]] = h[w].type
<1>. DEFINE T == {u \in Value : root[u] = r}
            DocumentOf(f, parts) ==
              [p \in {f[v] : v \in parts} |-> h[CHOOSE v \in parts : f[v] = p].type]
            d == DocumentOf(path, T)
<1>1. PathTo(h) = path /\ Tree(h, r) = T
  BY TraceIsOne, TraceTree
<1>2. Document(h, r) = d
  <2>1. Document(h, r) = DocumentOf(PathTo(h), Tree(h, r))
    BY DEF Document
  <2>. HIDE DEF DocumentOf
  <2>. QED
    BY <1>1, <2>1
<1>3. DOMAIN d = {path[w] : w \in T}
  OBVIOUS
<1>4. ASSUME NEW w \in T PROVE d[path[w]] = h[w].type
  <2>1. \A u \in T : path[u] = path[w] => u = w
    BY TraceIsInjective
  <2>2. (CHOOSE v \in T : path[v] = path[w]) = w
    BY <2>1
  <2>. QED
    BY <2>2
<1>5. IsMap(d)
  BY DEF IsMap
<1>. HIDE DEF d
<1>. QED
  BY <1>2, <1>3, <1>4, <1>5

(* Above every value are the containers that lead to it, objects where a    *)
(* name follows and arrays where a number does.                             *)
LEMMA OnTheWay ==
  ASSUME NEW h, Good(h), NEW root, NEW path, Traced(h, root, path)
  PROVE  \A v \in Value : \A q \in D!Above(path[v]) :
           \E u \in Value :
             /\ root[u] = root[v] /\ path[u] = q
             /\ h[u].type = IF path[v][Len(q) + 1] \in Name THEN "object" ELSE "array"
<1>1. \A u \in Value :
        /\ path[u] \in Seq(Key)
        /\ h[u].parent = NULL => root[u] = u /\ path[u] = << >>
        /\ h[u].parent # NULL =>
             /\ h[u].parent \in Value /\ KeyOf(h, u) \in Key
             /\ path[h[u].parent] \in Seq(Key)
             /\ root[u] = root[h[u].parent]
             /\ path[u] = Append(path[h[u].parent], KeyOf(h, u))
  BY HeldIs DEF Traced
<1>. DEFINE S == {v \in Value : \A q \in D!Above(path[v]) :
           \E u \in Value :
             /\ root[u] = root[v] /\ path[u] = q
             /\ h[u].type = IF path[v][Len(q) + 1] \in Name THEN "object" ELSE "array"}
<1>2. ASSUME NEW v \in Value, h[v].parent = NULL \/ h[v].parent \in S
      PROVE  v \in S
  <2>. SUFFICES ASSUME NEW q \in D!Above(path[v])
                PROVE  \E u \in Value :
             /\ root[u] = root[v] /\ path[u] = q
             /\ h[u].type = IF path[v][Len(q) + 1] \in Name THEN "object" ELSE "array"
    OBVIOUS
  <2>1. CASE h[v].parent = NULL
    <3>1. 0 \in Key
      BY DEF Key
    <3>2. D!Above(path[v]) = {}
      BY <1>1, <2>1, <3>1, AboveIs
    <3>. QED
      BY <3>2
  <2>2. CASE h[v].parent # NULL
    <3>. DEFINE p == h[v].parent
                k == KeyOf(h, v)
    <3>1. /\ p \in Value /\ k \in Key /\ path[p] \in Seq(Key)
          /\ root[v] = root[p] /\ path[v] = Append(path[p], k)
      BY <1>1, <2>2
    <3>2. /\ k \in Name <=> h[p].type = "object"
          /\ h[p].type \in {"object", "array"}
      BY <2>2, HeldIs
    <3>3. p \in S
      BY <1>2, <2>2
    <3>. HIDE DEF p, k
    <3>4. /\ D!Above(path[v]) = D!Above(path[p]) \cup {path[p]}
          /\ \A x \in D!Above(path[p]) : Len(x) < Len(path[p])
      BY <3>1, AboveIs
    <3>5. path[v][Len(path[p]) + 1] = k
      BY <3>1, AppendIs
    <3>6. CASE q = path[p]
      BY <3>1, <3>2, <3>5, <3>6
    <3>7. CASE q \in D!Above(path[p])
      <4>1. q \in Seq(Key) /\ Len(q) \in Nat /\ Len(path[p]) \in Nat /\ Len(q) < Len(path[p])
        BY <3>1, <3>4, <3>7, AboveIs, LenProperties
      <4>2. Len(q) + 1 \in 1 .. Len(path[p])
        BY <4>1
      <4>3. path[v][Len(q) + 1] = path[p][Len(q) + 1]
        BY <3>1, <4>2, AppendProperties
      <4>. QED
        BY <3>1, <3>3, <3>7, <4>3
    <3>. QED
      BY <3>4, <3>6, <3>7
  <2>. QED
    BY <2>1, <2>2
<1>. HIDE DEF S
<1>3. Value \subseteq S
  BY <1>2, Descent
<1>. QED
  BY <1>3 DEF S

(* A value whose container keeps it at its place keeps its key.             *)
LEMMA KeyKept ==
  ASSUME NEW h, Good(h), NEW g, Good(g), NEW w \in Value, NEW p \in Value,
         h[p].type = g[p].type,
         NEW i \in DOMAIN h[p].values, NEW j \in DOMAIN g[p].values,
         h[p].values[i] = w, g[p].values[j] = w,
         IF h[p].type = "object" THEN h[p].names[i] = g[p].names[j] ELSE i = j
  PROVE  KeyOf(g, w) = KeyOf(h, w) /\ h[w].parent = p /\ g[w].parent = p
<1>1. /\ h[w].parent = p
      /\ KeyOf(h, w) = IF h[p].type = "object" THEN h[p].names[i] ELSE i
  BY KeyIs
<1>2. /\ g[w].parent = p
      /\ KeyOf(g, w) = IF g[p].type = "object" THEN g[p].names[j] ELSE j
  BY KeyIs
<1>. QED
  BY <1>1, <1>2

(* What a container holds keeps its key if the container does not change.   *)
LEMMA KeyStays ==
  ASSUME NEW h, Good(h), NEW g, Good(g), NEW w \in Value, h[w].parent # NULL,
         LET p == h[w].parent IN
         /\ h[p].type = g[p].type
         /\ h[p].names = g[p].names /\ h[p].values = g[p].values
  PROVE  g[w].parent = h[w].parent /\ KeyOf(g, w) = KeyOf(h, w)
<1>. DEFINE p == h[w].parent
<1>1. p \in Value /\ \E i \in DOMAIN h[p].values : h[p].values[i] = w
  BY HeldIs
<1>2. PICK i \in DOMAIN h[p].values : h[p].values[i] = w
  BY <1>1
<1>3. /\ h[p].type = g[p].type
      /\ h[p].names = g[p].names /\ h[p].values = g[p].values
  OBVIOUS
<1>. HIDE DEF p
<1>4. KeyOf(g, w) = KeyOf(h, w) /\ h[w].parent = p /\ g[w].parent = p
  BY <1>1, <1>2, <1>3, KeyKept
<1>. QED
  BY <1>4

(* The documents of a heap.                                                 *)
LEMMA DocumentsAre ==
  ASSUME NEW h
  PROVE  /\ DOMAIN AllDocuments(h) = Roots(h)
         /\ \A r \in Roots(h) : AllDocuments(h)[r] = Document(h, r)
         /\ Roots(h) = {v \in Value : h[v].type # "free" /\ h[v].parent = NULL}
BY DEF AllDocuments, Roots, Live

(* A document stays as it is if what is in it does.                         *)
LEMMA SameDocument ==
  ASSUME NEW h, Good(h), NEW root, NEW path, Traced(h, root, path),
         NEW g, Good(g), NEW root2, NEW path2, Traced(g, root2, path2),
         NEW r \in Value, h[r].parent = NULL, g[r].parent = NULL,
         \A w \in Value : root2[w] = r <=> root[w] = r,
         \A w \in Value : root[w] = r => path2[w] = path[w] /\ g[w].type = h[w].type
  PROVE  Document(g, r) = Document(h, r)
<1>. DEFINE d == Document(h, r)
            e == Document(g, r)
<1>1. /\ IsMap(d)
      /\ \A q : q \in DOMAIN d <=> \E w \in Value : root[w] = r /\ path[w] = q
      /\ \A w \in Value : root[w] = r => d[path[w]] = h[w].type
  BY DocumentIs
<1>2. /\ IsMap(e)
      /\ \A q : q \in DOMAIN e <=> \E w \in Value : root2[w] = r /\ path2[w] = q
      /\ \A w \in Value : root2[w] = r => e[path2[w]] = g[w].type
  BY DocumentIs
<1>. HIDE DEF d, e
<1>3. \A q : q \in DOMAIN e <=> q \in DOMAIN d
  BY <1>1, <1>2
<1>4. \A q \in DOMAIN e : e[q] = d[q]
  BY <1>1, <1>2, <1>3
<1>5. e = d
  BY <1>1, <1>2, <1>3, <1>4, SameMap
<1>. QED
  BY <1>5 DEF d, e

(* A document without a part of it.                                         *)
LEMMA WithoutIs ==
  ASSUME NEW d, NEW p
  PROVE  /\ IsMap(D!Without(d, p))
         /\ \A q : q \in DOMAIN D!Without(d, p) <=> q \in DOMAIN d /\ ~IsPrefix(p, q)
         /\ \A q \in DOMAIN D!Without(d, p) : D!Without(d, p)[q] = d[q]
<1>1. D!Without(d, p) = [q \in DOMAIN d \ D!Inside(d, p) |-> d[q]]
  BY DEF D!Without
<1>2. \A q : q \in D!Inside(d, p) <=> q \in DOMAIN d /\ IsPrefix(p, q)
  BY DEF D!Inside, D!IsPrefix, IsPrefix
<1>3. DOMAIN D!Without(d, p) = DOMAIN d \ D!Inside(d, p)
  BY <1>1
<1>4. \A q \in DOMAIN d \ D!Inside(d, p) : D!Without(d, p)[q] = d[q]
  BY <1>1
<1>5. IsMap(D!Without(d, p))
  BY <1>1 DEF IsMap
<1>. QED
  BY <1>2, <1>3, <1>4, <1>5

(* d with e at p, in place of what is there.                                *)
Placed(d, p, e) ==
  LET kept == D!Without(d, p) IN
  [q \in DOMAIN kept \cup {p \o r : r \in DOMAIN e} |->
     IF q \in DOMAIN kept THEN kept[q] ELSE e[D!Beyond(p, q)]]

(* The root s goes into c, with the key k; what was there, F, is released.  *)
Puts(h, g, c, k, s, F) ==
  /\ h[c].type # "free" /\ h[s].type # "free" /\ h[s].parent = NULL
  /\ \A w \in F : g[w].type = "free"
  /\ \A w \in Value \ F : g[w].type = h[w].type
  /\ \A w \in Value \ F : w # s => g[w].parent = h[w].parent
  /\ \A w \in Value \ F : w # s /\ h[w].parent # NULL =>
       KeyOf(g, w) = KeyOf(h, w)
  /\ g[s].parent = c /\ KeyOf(g, s) = k

\* What is at P and below it in the document of r.
Under(root, path, r, P) ==
  {w \in Value : root[w] = r /\ IsPrefix(P, path[w])}

\* Where everything is then.
PutRoot(root, c, s, F) ==
  [w \in Value |-> IF w \in F THEN w
                   ELSE IF root[w] = s THEN root[c] ELSE root[w]]

PutPath(root, path, s, P, F) ==
  [w \in Value |-> IF w \in F THEN << >>
                   ELSE IF root[w] = s THEN P \o path[w] ELSE path[w]]

(* Where everything is when s has been put into c.                          *)
LEMMA PutTraces ==
  ASSUME NEW h, Good(h), NEW root, NEW path, Traced(h, root, path),
         NEW g, Good(g), NEW c \in Value, NEW s \in Value, root[c] # s,
         NEW k \in Key, NEW F,
         F = Under(root, path, root[c], Append(path[c], k)),
         Puts(h, g, c, k, s, F)
  PROVE  /\ Traced(g, PutRoot(root, c, s, F),
                   PutPath(root, path, s, Append(path[c], k), F))
         /\ c \notin F /\ s \notin F
<1>. DEFINE P == Append(path[c], k)
            root2 == PutRoot(root, c, s, F)
            path2 == PutPath(root, path, s, P, F)
<1>0. NULL \notin Value
  BY JsonTreeAssumption
<1>1. /\ root \in [Value -> Value] /\ path \in [Value -> Seq(Key)]
      /\ \A v \in Value :
           /\ h[v].parent = NULL => root[v] = v /\ path[v] = << >>
           /\ h[v].parent # NULL =>
                /\ h[v].parent \in Value /\ KeyOf(h, v) \in Key
                /\ root[v] = root[h[v].parent]
                /\ path[v] = Append(path[h[v].parent], KeyOf(h, v))
  BY HeldIs DEF Traced
<1>2. P \in Seq(Key) /\ P # << >> /\ ~IsPrefix(P, path[c])
  BY <1>1, AppendIs
<1>3. /\ P = Append(path[c], k)
      /\ F = {w \in Value : root[w] = root[c] /\ IsPrefix(P, path[w])}
      /\ root2 = [w \in Value |-> IF w \in F THEN w
                                  ELSE IF root[w] = s THEN root[c] ELSE root[w]]
      /\ path2 = [w \in Value |-> IF w \in F THEN << >>
                                  ELSE IF root[w] = s THEN P \o path[w] ELSE path[w]]
  BY DEF Under, PutRoot, PutPath
<1>. HIDE DEF P, root2, path2
<1>4. c \notin F
  BY <1>2, <1>3
<1>5. root[s] = s /\ path[s] = << >> /\ s \notin F
  BY <1>1, <1>3 DEF Puts
<1>6. \A w \in F : g[w].parent = NULL
  BY <1>3 DEF Puts, Good, Nodes, Node
<1>7. root2 \in [Value -> Value]
  BY <1>1, <1>3
<1>8. path2 \in [Value -> Seq(Key)]
  <2>. SUFFICES ASSUME NEW w \in Value PROVE path2[w] \in Seq(Key)
    BY <1>3
  <2>1. P \o path[w] \in Seq(Key) /\ << >> \in Seq(Key)
    BY <1>1, <1>2, ConcatIs, EmptySeq
  <2>. QED
    BY <1>1, <1>3, <2>1
<1>9. ASSUME NEW w \in Value
      PROVE  IF g[w].parent = NULL THEN root2[w] = w /\ path2[w] = << >>
             ELSE /\ root2[w] = root2[g[w].parent]
                  /\ path2[w] = Append(path2[g[w].parent], KeyOf(g, w))
  <2>1. CASE w \in F
    BY <1>3, <1>6, <2>1
  <2>2. CASE w = s
    <3>1. P \o << >> = P
      BY <1>2, ConcatEmptySeq
    <3>2. root2[s] = root[c] /\ path2[s] = P
      BY <1>3, <1>5, <3>1
    <3>3. root2[c] = root[c] /\ path2[c] = path[c]
      <4>1. root[c] # s
        OBVIOUS
      <4>. QED
        BY <1>3, <1>4, <4>1
    <3>4. g[s].parent = c /\ KeyOf(g, s) = k /\ c # NULL
      BY <1>0 DEF Puts
    <3>. QED
      BY <1>3, <2>2, <3>2, <3>3, <3>4
  <2>3. CASE w \notin F /\ w # s /\ h[w].parent = NULL
    <3>1. g[w].parent = NULL
      BY <2>3 DEF Puts
    <3>2. root[w] = w /\ path[w] = << >>
      BY <1>1, <2>3
    <3>. QED
      BY <1>3, <2>3, <3>1, <3>2
  <2>4. CASE w \notin F /\ w # s /\ h[w].parent # NULL
    <3>. DEFINE p == h[w].parent
                l == KeyOf(h, w)
    <3>1. /\ p \in Value /\ l \in Key /\ root[w] = root[p]
          /\ path[p] \in Seq(Key) /\ path[w] = Append(path[p], l)
      BY <1>1, <2>4
    <3>2. g[w].parent = p /\ KeyOf(g, w) = l /\ p # NULL
      BY <2>4 DEF Puts
    <3>. HIDE DEF p, l
    <3>3. p \notin F
      <4>1. IsPrefix(P, path[p]) => IsPrefix(P, path[w])
        BY <1>2, <3>1, AppendPrefix
      <4>. QED
        BY <1>3, <2>4, <3>1, <4>1
    <3>4. P \o Append(path[p], l) = Append(P \o path[p], l)
      BY <1>2, <3>1, AppendPrefix
    <3>5. root2[w] = root2[p]
      BY <1>3, <2>4, <3>1, <3>3
    <3>6. path2[w] = Append(path2[p], l)
      BY <1>3, <2>4, <3>1, <3>3, <3>4
    <3>. QED
      BY <3>2, <3>5, <3>6
  <2>. QED
    BY <2>1, <2>2, <2>3, <2>4
<1>. QED
  BY <1>4, <1>5, <1>7, <1>8, <1>9 DEF Traced, P, root2, path2

(* The document of s becomes a part of the one that c is in.                *)
LEMMA PutDocuments ==
  ASSUME NEW h, Good(h), NEW root, NEW path, Traced(h, root, path),
         NEW g, Good(g), NEW c \in Value, NEW s \in Value, root[c] # s,
         NEW k \in Key, NEW F,
         F = Under(root, path, root[c], Append(path[c], k)),
         Puts(h, g, c, k, s, F)
  PROVE  LET d == AllDocuments(h)
             e == AllDocuments(g)
             r == root[c] IN
         /\ r \in DOMAIN d /\ s \in DOMAIN d
         /\ DOMAIN e = DOMAIN d \ {s}
         /\ D!Only(r, d, e)
         /\ e[r] = Placed(d[r], Append(path[c], k), d[s])
<1>. DEFINE P == Append(path[c], k)
            r == root[c]
            root2 == PutRoot(root, c, s, F)
            path2 == PutPath(root, path, s, P, F)
<1>0. NULL \notin Value
  BY JsonTreeAssumption
<1>1. Traced(g, root2, path2) /\ c \notin F /\ s \notin F
  BY PutTraces
<1>2. \A w \in Value : /\ root2[w] = IF w \in F THEN w
                                     ELSE IF root[w] = s THEN r ELSE root[w]
                       /\ path2[w] = IF w \in F THEN << >>
                                     ELSE IF root[w] = s THEN P \o path[w]
                                     ELSE path[w]
  BY DEF PutRoot, PutPath
<1>3. \A v \in Value :
           /\ root[v] \in Value /\ path[v] \in Seq(Key)
           /\ h[root[v]].parent = NULL /\ path[root[v]] = << >>
           /\ root[root[v]] = root[v]
           /\ root[v] \in Live(h) <=> v \in Live(h)
           /\ h[v].parent = NULL <=> path[v] = << >>
           /\ h[v].parent = NULL <=> root[v] = v
  BY TraceIs
<1>4. P \in Seq(Key) /\ P # << >> /\ ~IsPrefix(P, << >>)
  <2>1. P \in Seq(Key) /\ P # << >>
    BY <1>3, AppendIs
  <2>. QED
    BY <2>1, EmptySeq, LenProperties DEF IsPrefix
<1>5. F = {w \in Value : root[w] = r /\ IsPrefix(P, path[w])}
  BY DEF Under
<1>. HIDE DEF P, r, root2, path2
<1>6. r \in Value /\ r # s /\ r \notin F
  BY <1>3, <1>4, <1>5 DEF r
<1>7. /\ \A w \in F : g[w].type = "free" /\ h[w].parent # NULL
      /\ \A w \in Value \ F : g[w].type = h[w].type
      /\ \A w \in Value \ F : w # s => g[w].parent = h[w].parent
      /\ g[s].parent = c
  BY <1>3, <1>4, <1>5 DEF Puts
<1>8. /\ r \in Roots(h) /\ s \in Roots(h)
      /\ Roots(g) = Roots(h) \ {s}
  <2>1. r \in Roots(h) /\ s \in Roots(h)
    BY <1>3, DocumentsAre DEF r, Live, Puts
  <2>2. \A w \in Value : w \in Roots(g) <=> w \in Roots(h) /\ w # s
    BY <1>0, <1>7, DocumentsAre
  <2>. QED
    BY <2>1, <2>2, DocumentsAre
<1>9. ASSUME NEW q \in Roots(h), q \in Roots(g), q # r
      PROVE  Document(g, q) = Document(h, q)
  <2>1. q \in Value /\ h[q].parent = NULL /\ g[q].parent = NULL /\ q # s /\ q \notin F
    BY <1>7, <1>8, <1>9, DocumentsAre
  <2>2. \A w \in Value : root2[w] = q <=> root[w] = q
    BY <1>2, <1>5, <1>9, <2>1
  <2>3. \A w \in Value : root[w] = q => path2[w] = path[w] /\ g[w].type = h[w].type
    BY <1>2, <1>5, <1>7, <1>9, <2>1
  <2>. QED
    BY <1>1, <2>1, <2>2, <2>3, SameDocument
<1>10. Document(g, r) = Placed(Document(h, r), P, Document(h, s))
  <2>. DEFINE a == Document(h, r)
              b == Document(h, s)
              e == Document(g, r)
              kept == D!Without(a, P)
  <2>1. /\ IsMap(a)
        /\ \A q : q \in DOMAIN a <=> \E w \in Value : root[w] = r /\ path[w] = q
        /\ \A w \in Value : root[w] = r => a[path[w]] = h[w].type
    <3>1. h[r].parent = NULL
      BY <1>3 DEF r
    <3>. QED
      BY <1>6, <3>1, DocumentIs
  <2>2. /\ IsMap(b)
        /\ \A q : q \in DOMAIN b <=> \E w \in Value : root[w] = s /\ path[w] = q
        /\ \A w \in Value : root[w] = s => b[path[w]] = h[w].type
    <3>1. h[s].parent = NULL
      BY DEF Puts
    <3>. QED
      BY <3>1, DocumentIs
  <2>3. /\ IsMap(e)
        /\ \A q : q \in DOMAIN e <=> \E w \in Value : root2[w] = r /\ path2[w] = q
        /\ \A w \in Value : root2[w] = r => e[path2[w]] = g[w].type
    <3>1. g[r].parent = NULL
      BY <1>8, <1>6, DocumentsAre
    <3>. QED
      BY <1>1, <1>6, <3>1, DocumentIs
  <2>. HIDE DEF a, b, e
  <2>4. /\ \A q : q \in DOMAIN kept <=> q \in DOMAIN a /\ ~IsPrefix(P, q)
        /\ \A q \in DOMAIN kept : kept[q] = a[q]
    BY WithoutIs
  <2>. HIDE DEF kept
  <2>5. \A w \in Value : root2[w] = r <=> w \notin F /\ (root[w] = s \/ root[w] = r)
    BY <1>2, <1>6
  <2>6. \A w \in Value : root[w] = s => w \notin F /\ path2[w] = P \o path[w]
    BY <1>2, <1>5, <1>6
  <2>7. \A w \in Value : root[w] = r /\ w \notin F => path2[w] = path[w]
    BY <1>2, <1>6
  <2>8. \A w \in Value : IsPrefix(P, P \o path[w]) /\ D!Beyond(P, P \o path[w]) = path[w]
    BY <1>3, <1>4, ConcatIs
  <2>. DEFINE dom == DOMAIN kept \cup {P \o q : q \in DOMAIN b}
              f == [q \in dom |-> IF q \in DOMAIN kept THEN kept[q]
                                  ELSE b[D!Beyond(P, q)]]
  <2>13. \A q : q \in dom <=> q \in DOMAIN kept \/ \E x \in DOMAIN b : q = P \o x
    OBVIOUS
  <2>. HIDE DEF dom
  <2>9. \A w \in Value : root2[w] = r => path2[w] \in dom
    <3>. SUFFICES ASSUME NEW w \in Value, root2[w] = r PROVE path2[w] \in dom
      OBVIOUS
    <3>1. CASE root[w] = s
      <4>1. path[w] \in DOMAIN b /\ path2[w] = P \o path[w]
        BY <2>2, <2>6, <3>1
      <4>. QED
        BY <2>13, <4>1
    <3>2. CASE root[w] = r
      <4>1. w \notin F
        BY <2>5
      <4>2. path2[w] = path[w] /\ ~IsPrefix(P, path[w]) /\ path[w] \in DOMAIN a
        BY <1>5, <2>1, <2>7, <3>2, <4>1
      <4>. QED
        BY <2>4, <2>13, <4>2
    <3>. QED
      BY <2>5, <3>1, <3>2
  <2>10. ASSUME NEW q \in dom
         PROVE  /\ q \in DOMAIN e
                /\ e[q] = IF q \in DOMAIN kept THEN kept[q] ELSE b[D!Beyond(P, q)]
    <3>1. CASE q \in DOMAIN kept
      <4>1. PICK w \in Value : root[w] = r /\ path[w] = q
        BY <2>1, <2>4, <3>1
      <4>2. ~IsPrefix(P, path[w]) /\ kept[q] = a[q]
        BY <2>4, <3>1, <4>1
      <4>3. w \notin F
        BY <1>5, <4>2
      <4>4. root2[w] = r /\ path2[w] = q /\ g[w].type = h[w].type
        BY <1>7, <2>5, <2>7, <4>1, <4>3
      <4>5. q \in DOMAIN e /\ e[q] = h[w].type
        BY <2>3, <4>4
      <4>6. a[q] = h[w].type
        BY <2>1, <4>1
      <4>. QED
        BY <3>1, <4>2, <4>5, <4>6
    <3>2. CASE q \notin DOMAIN kept
      <4>1. PICK x \in DOMAIN b : q = P \o x
        BY <2>13, <3>2
      <4>2. PICK w \in Value : root[w] = s /\ path[w] = x
        BY <2>2, <4>1
      <4>3. root2[w] = r /\ path2[w] = q /\ g[w].type = h[w].type
        BY <1>7, <2>5, <2>6, <4>1, <4>2
      <4>4. q \in DOMAIN e /\ e[q] = h[w].type
        BY <2>3, <4>3
      <4>5. b[D!Beyond(P, q)] = h[w].type
        BY <2>2, <2>8, <4>1, <4>2
      <4>. QED
        BY <3>2, <4>4, <4>5
    <3>. QED
      BY <3>1, <3>2
  <2>11. \A q : q \in DOMAIN e <=> q \in dom
    <3>1. \A q : q \in DOMAIN e => q \in dom
      BY <2>3, <2>9
    <3>. QED
      BY <2>10, <3>1
  <2>12. IsMap(f) /\ DOMAIN f = dom
    BY DEF IsMap
  <2>14. \A q \in DOMAIN e : e[q] = f[q]
    BY <2>10, <2>11
  <2>. HIDE DEF f
  <2>15. e = f
    BY <2>3, <2>11, <2>12, <2>14, SameMap
  <2>. QED
    BY <2>15 DEF Placed, f, dom, kept, a, b, e
<1>11. D!Only(r, AllDocuments(h), AllDocuments(g))
  BY <1>9, DocumentsAre DEF D!Only
<1>. QED
  BY <1>6, <1>8, <1>10, <1>11, DocumentsAre DEF r, P

(* A new value is a document of its own.                                    *)
LEMMA NewDocument ==
  ASSUME NEW h, Good(h), NEW root, NEW path, Traced(h, root, path),
         NEW type \in Type, FreeAddresses(h) # {}
  PROVE  LET new == malloc(h)
             g == json_value_init(h, type)
             d == AllDocuments(h)
             e == AllDocuments(g) IN
         /\ Traced(g, root, path) /\ root[new] = new /\ path[new] = << >>
         /\ new \in Value /\ new \notin DOMAIN d
         /\ DOMAIN e = DOMAIN d \cup {new}
         /\ D!Only(new, d, e)
         /\ e[new] = D!Leaf(type)
<1>. DEFINE new == malloc(h)
            g == json_value_init(h, type)
<1>0. NULL \notin Value /\ type # "free" /\ type \in Type \cup {"free"}
  BY JsonTreeAssumption DEF Type, Scalar
<1>1. /\ new \in Value /\ h[new].type = "free"
      /\ Good(g)
      /\ g[new] = NewValue(type)
      /\ \A v \in Value : v # new => g[v] = h[v]
      /\ \A v \in Value : h[v].parent # new /\ g[v].parent # new
  BY <1>0, NewGood
<1>. HIDE DEF new, g
<1>2. h[new].parent = NULL /\ g[new].parent = NULL /\ g[new].type = type
  BY <1>1 DEF Good, Nodes, Node, NewValue
<1>3. \A v \in Value : /\ g[v].parent = h[v].parent
                       /\ h[v].parent # NULL => KeyOf(g, v) = KeyOf(h, v)
  <2>. SUFFICES ASSUME NEW v \in Value
                PROVE  /\ g[v].parent = h[v].parent
                       /\ h[v].parent # NULL => KeyOf(g, v) = KeyOf(h, v)
    OBVIOUS
  <2>1. g[v].parent = h[v].parent
    BY <1>1, <1>2
  <2>2. ASSUME h[v].parent # NULL PROVE KeyOf(g, v) = KeyOf(h, v)
    <3>1. h[v].parent \in Value /\ h[v].parent # new
      BY <1>1, <2>2, HeldIs
    <3>2. g[h[v].parent] = h[h[v].parent]
      BY <1>1, <3>1
    <3>. QED
      BY <1>1, <2>2, <3>2, KeyStays
  <2>. QED
    BY <2>1, <2>2
<1>4. Traced(g, root, path)
  BY <1>3 DEF Traced
<1>5. root[new] = new /\ path[new] = << >>
  BY <1>1, <1>2 DEF Traced
<1>6. \A w \in Value : root[w] = new => w = new
  <2>1. \A w \in Value : root[w] \in Live(h) <=> w \in Live(h)
    BY TraceIs
  <2>2. \A w \in Value : w \notin Live(h) => h[w].parent = NULL
    BY DEF Live, Good, Nodes, Node
  <2>. QED
    BY <1>1, <2>1, <2>2 DEF Live, Traced
<1>7. /\ new \notin Roots(h)
      /\ Roots(g) = Roots(h) \cup {new}
  <2>1. \A w \in Value : w \in Roots(g) <=> w \in Roots(h) \/ w = new
    BY <1>0, <1>1, <1>2, <1>3, DocumentsAre
  <2>. QED
    BY <1>1, <2>1, DocumentsAre
<1>8. ASSUME NEW q \in Roots(h) PROVE Document(g, q) = Document(h, q)
  <2>1. q \in Value /\ h[q].parent = NULL /\ g[q].parent = NULL /\ q # new
    BY <1>3, <1>7, <1>8, DocumentsAre
  <2>2. \A w \in Value : root[w] = q => g[w].type = h[w].type
    BY <1>1, <1>5, <2>1
  <2>. QED
    BY <1>1, <1>4, <2>1, <2>2, SameDocument
<1>9. Document(g, new) = D!Leaf(type)
  <2>. DEFINE e == Document(g, new)
              l == D!Leaf(type)
  <2>1. /\ IsMap(e)
        /\ \A q : q \in DOMAIN e <=> \E w \in Value : root[w] = new /\ path[w] = q
        /\ \A w \in Value : root[w] = new => e[path[w]] = g[w].type
    BY <1>1, <1>2, <1>4, DocumentIs
  <2>2. /\ IsMap(l) /\ \A q : q \in DOMAIN l <=> q = << >>
        /\ l[<< >>] = type
    BY DEF D!Leaf, D!Root, IsMap
  <2>. HIDE DEF e, l
  <2>3. \A q : q \in DOMAIN e <=> q = << >>
    BY <1>1, <1>5, <1>6, <2>1
  <2>4. e[<< >>] = type
    BY <1>1, <1>2, <1>5, <2>1
  <2>5. e = l
    BY <2>1, <2>2, <2>3, <2>4, SameMap
  <2>. QED
    BY <2>5 DEF e, l
<1>10. D!Only(new, AllDocuments(h), AllDocuments(g))
  BY <1>7, <1>8, DocumentsAre DEF D!Only
<1>. QED
  BY <1>1, <1>4, <1>5, <1>7, <1>9, <1>10, DocumentsAre DEF new, g

(* The values of F are released, and nothing else changes but capacities    *)
(* and the order of members.                                                *)
Loses(h, g, F) ==
  /\ F \subseteq Value
  /\ \A w \in F : g[w].type = "free"
  /\ \A w \in Value \ F : /\ g[w].type = h[w].type /\ g[w].parent = h[w].parent
                          /\ h[w].parent # NULL => KeyOf(g, w) = KeyOf(h, w)
  /\ \A w \in Value : h[w].parent \in F => w \in F

(* What is left of the documents then.                                      *)
LEMMA LostDocuments ==
  ASSUME NEW h, Good(h), NEW root, NEW path, Traced(h, root, path),
         NEW g, Good(g), NEW F, Loses(h, g, F)
  PROVE  /\ Roots(g) = Roots(h) \ F
         /\ \A r \in Roots(g) :
              /\ IsMap(Document(g, r)) /\ IsMap(Document(h, r))
              /\ \A q : q \in DOMAIN Document(g, r) <=>
                   \E w \in Value \ F : root[w] = r /\ path[w] = q
              /\ \A q \in DOMAIN Document(g, r) :
                   Document(g, r)[q] = Document(h, r)[q]
              /\ (\A w \in F : root[w] # r) => Document(g, r) = Document(h, r)
<1>. DEFINE root2 == [w \in Value |-> IF w \in F THEN w ELSE root[w]]
            path2 == [w \in Value |-> IF w \in F THEN << >> ELSE path[w]]
<1>0. NULL \notin Value
  BY JsonTreeAssumption
<1>1. \A w \in Value : /\ root2[w] = IF w \in F THEN w ELSE root[w]
                       /\ path2[w] = IF w \in F THEN << >> ELSE path[w]
  OBVIOUS
<1>2. \A w \in F : w \in Value /\ g[w].parent = NULL
  BY DEF Loses, Good, Nodes, Node
<1>3. root2 \in [Value -> Value] /\ path2 \in [Value -> Seq(Key)]
  BY EmptySeq DEF Traced
<1>. HIDE DEF root2, path2
<1>4. Traced(g, root2, path2)
  <2>. SUFFICES ASSUME NEW w \in Value
                PROVE  IF g[w].parent = NULL THEN root2[w] = w /\ path2[w] = << >>
                       ELSE /\ root2[w] = root2[g[w].parent]
                            /\ path2[w] = Append(path2[g[w].parent], KeyOf(g, w))
    BY <1>3 DEF Traced
  <2>1. CASE w \in F
    BY <1>1, <1>2, <2>1
  <2>2. CASE w \notin F /\ h[w].parent = NULL
    BY <1>1, <2>2 DEF Traced, Loses
  <2>3. CASE w \notin F /\ h[w].parent # NULL
    <3>1. /\ h[w].parent \in Value /\ h[w].parent \notin F
          /\ g[w].parent = h[w].parent /\ KeyOf(g, w) = KeyOf(h, w)
      BY <2>3, HeldIs DEF Loses
    <3>2. /\ root[w] = root[h[w].parent]
          /\ path[w] = Append(path[h[w].parent], KeyOf(h, w))
      BY <2>3 DEF Traced
    <3>. QED
      BY <1>1, <2>3, <3>1, <3>2
  <2>. QED
    BY <2>1, <2>2, <2>3
<1>5. Roots(g) = Roots(h) \ F
  <2>1. \A w \in Value : w \in Roots(g) <=> w \in Roots(h) /\ w \notin F
    BY DocumentsAre DEF Loses
  <2>. QED
    BY <2>1, DocumentsAre
<1>6. ASSUME NEW r \in Roots(g)
      PROVE  /\ IsMap(Document(g, r)) /\ IsMap(Document(h, r))
             /\ \A q : q \in DOMAIN Document(g, r) <=>
                  \E w \in Value \ F : root[w] = r /\ path[w] = q
             /\ \A q \in DOMAIN Document(g, r) :
                  Document(g, r)[q] = Document(h, r)[q]
             /\ (\A w \in F : root[w] # r) => Document(g, r) = Document(h, r)
  <2>. DEFINE d == Document(h, r)
              e == Document(g, r)
  <2>1. r \in Value /\ h[r].parent = NULL /\ g[r].parent = NULL /\ r \notin F
    BY <1>5, <1>6, DocumentsAre
  <2>2. /\ IsMap(d)
        /\ \A q : q \in DOMAIN d <=> \E w \in Value : root[w] = r /\ path[w] = q
        /\ \A w \in Value : root[w] = r => d[path[w]] = h[w].type
    BY <2>1, DocumentIs
  <2>3. /\ IsMap(e)
        /\ \A q : q \in DOMAIN e <=> \E w \in Value : root2[w] = r /\ path2[w] = q
        /\ \A w \in Value : root2[w] = r => e[path2[w]] = g[w].type
    BY <1>4, <2>1, DocumentIs
  <2>. HIDE DEF d, e
  <2>4. \A w \in Value : root2[w] = r <=> w \notin F /\ root[w] = r
    BY <1>1, <2>1
  <2>5. \A q : q \in DOMAIN e <=> \E w \in Value \ F : root[w] = r /\ path[w] = q
    BY <1>1, <2>3, <2>4
  <2>6. ASSUME NEW q \in DOMAIN e PROVE e[q] = d[q] /\ q \in DOMAIN d
    <3>1. PICK w \in Value \ F : root[w] = r /\ path[w] = q
      BY <2>5, <2>6
    <3>2. root2[w] = r /\ path2[w] = q /\ g[w].type = h[w].type
      BY <1>1, <3>1 DEF Loses
    <3>. QED
      BY <2>2, <2>3, <3>1, <3>2
  <2>7. ASSUME \A w \in F : root[w] # r PROVE e = d
    <3>1. \A q : q \in DOMAIN d => q \in DOMAIN e
      BY <2>2, <2>5, <2>7
    <3>2. \A q : q \in DOMAIN e <=> q \in DOMAIN d
      BY <2>6, <3>1
    <3>. QED
      BY <2>2, <2>3, <2>6, <3>2, SameMap
  <2>. QED
    BY <2>2, <2>3, <2>5, <2>6, <2>7 DEF d, e
<1>. QED
  BY <1>5, <1>6

(* A root that is released ends its document.                               *)
LEMMA FreedDocument ==
  ASSUME NEW h, Good(h), NEW v \in Value, h[v].type # "free", h[v].parent = NULL
  PROVE  D!Free(AllDocuments(h), AllDocuments(json_value_free(h, v)), v)
<1>. DEFINE g == json_value_free(h, v)
            F == Tree(h, v)
<1>0. NULL \notin Value
  BY JsonTreeAssumption
<1>1. PICK root, path : Traced(h, root, path)
  BY TraceExists
<1>2. /\ Good(g)
      /\ \A w \in Value : g[w] = IF w \in F THEN NewValue("free") ELSE h[w]
  BY ReleaseGood
<1>3. /\ F \subseteq Value /\ v \in F
      /\ \A w \in Value : h[w].parent \in F => w \in F
      /\ F = {w \in Value : root[w] = v}
  BY <1>1, TreeIs, TraceTree
<1>. HIDE DEF g, F
<1>4. Loses(h, g, F)
  <2>1. ASSUME NEW w \in Value \ F, h[w].parent # NULL
        PROVE  KeyOf(g, w) = KeyOf(h, w)
    <3>1. h[w].parent \in Value /\ h[w].parent \notin F
      BY <1>3, <2>1, HeldIs
    <3>2. g[h[w].parent] = h[h[w].parent]
      BY <1>2, <3>1
    <3>. QED
      BY <1>2, <2>1, <3>2, KeyStays
  <2>. QED
    BY <1>2, <1>3, <2>1 DEF Loses, NewValue
<1>5. /\ Roots(g) = Roots(h) \ F
      /\ \A r \in Roots(g) : (\A w \in F : root[w] # r) =>
           Document(g, r) = Document(h, r)
  BY <1>1, <1>2, <1>4, LostDocuments
<1>6. v \in Roots(h) /\ Roots(g) = Roots(h) \ {v}
  <2>1. \A w \in Value : w \in F /\ h[w].parent = NULL => w = v
    BY <1>1, <1>3, TraceIs
  <2>. QED
    BY <1>3, <1>5, <2>1, DocumentsAre
<1>7. \A r \in Roots(g) : Document(g, r) = Document(h, r)
  BY <1>3, <1>5, <1>6
<1>. QED
  BY <1>6, <1>7, DocumentsAre DEF D!Free, D!Only, g

(* A part of a document is released: a member of an object, or what a       *)
(* container holds.                                                         *)
LEMMA LostPart ==
  ASSUME NEW h, Good(h), NEW root, NEW path, Traced(h, root, path),
         NEW g, Good(g), NEW r \in Value, h[r].type # "free", h[r].parent = NULL,
         NEW F, Loses(h, g, F), \A w \in F : root[w] = r /\ w # r,
         NEW c, IsMap(c),
         \A q : q \in DOMAIN c <=> \E w \in Value \ F : root[w] = r /\ path[w] = q,
         \A q \in DOMAIN c : c[q] = Document(h, r)[q]
  PROVE  LET d == AllDocuments(h)
             e == AllDocuments(g) IN
         /\ r \in DOMAIN d /\ DOMAIN e = DOMAIN d
         /\ D!Only(r, d, e)
         /\ e[r] = c
<1>0. NULL \notin Value
  BY JsonTreeAssumption
<1>1. /\ Roots(g) = Roots(h) \ F
      /\ \A s \in Roots(g) :
           /\ IsMap(Document(g, s))
           /\ \A q : q \in DOMAIN Document(g, s) <=>
                \E w \in Value \ F : root[w] = s /\ path[w] = q
           /\ \A q \in DOMAIN Document(g, s) :
                Document(g, s)[q] = Document(h, s)[q]
           /\ (\A w \in F : root[w] # s) => Document(g, s) = Document(h, s)
  BY LostDocuments
<1>2. r \in Roots(h)
  BY DocumentsAre
<1>3. Roots(g) = Roots(h)
  <2>1. \A w \in F : h[w].parent # NULL
    BY TraceIs DEF Loses
  <2>. QED
    BY <1>1, <2>1, DocumentsAre
<1>4. Document(g, r) = c
  BY <1>1, <1>2, <1>3, SameMap
<1>5. \A s \in Roots(g) \ {r} : Document(g, s) = Document(h, s)
  BY <1>1
<1>. QED
  BY <1>2, <1>3, <1>4, <1>5, DocumentsAre DEF D!Only

(* Releasing what c held as old loses it and what it reaches, if the        *)
(* others that c holds keep their keys.                                     *)
LEMMA DetachedLoses ==
  ASSUME NEW h, Good(h), NEW g, Good(g), NEW c \in Value, NEW old \in Kids(h, c),
         Detached(h, g, c, old),
         \A w \in Kids(h, c) \ {old} : KeyOf(g, w) = KeyOf(h, w)
  PROVE  Loses(h, g, Tree(h, old))
<1>. DEFINE F == Tree(h, old)
<1>0. NULL \notin Value
  BY JsonTreeAssumption
<1>1. old \in Value /\ h[old].parent = c
  BY Fields DEF Good, Linked
<1>2. /\ old \in F /\ F \subseteq Value
      /\ \A w \in Value : h[w].parent \in F => w \in F
      /\ c \notin F
  BY <1>1, TreeIs
<1>. HIDE DEF F
<1>3. /\ \A w \in F : g[w].type = "free"
      /\ \A w \in Value \ F : w # c => g[w] = h[w]
      /\ g[c].type = h[c].type /\ g[c].parent = h[c].parent
  BY DEF Detached, F
<1>4. ASSUME NEW w \in Value \ F, h[w].parent # NULL
      PROVE  KeyOf(g, w) = KeyOf(h, w)
  <2>1. h[w].parent \in Value /\ h[w].parent \notin F
    BY <1>2, <1>4, HeldIs
  <2>2. CASE h[w].parent = c
    BY <1>2, <2>2 DEF Good, Linked
  <2>3. CASE h[w].parent # c
    <3>1. g[h[w].parent] = h[h[w].parent]
      BY <1>3, <2>1, <2>3
    <3>. QED
      BY <1>4, <3>1, KeyStays
  <2>. QED
    BY <2>2, <2>3
<1>5. Loses(h, g, F)
  BY <1>2, <1>3, <1>4 DEF Loses
<1>. QED
  BY <1>5 DEF F

(* The documents without what container c held as old.                      *)
LEMMA LostMember ==
  ASSUME NEW h, Good(h), NEW root, NEW path, Traced(h, root, path),
         NEW g, Good(g), NEW old \in Value, h[old].parent # NULL,
         Loses(h, g, Tree(h, old))
  PROVE  LET d == AllDocuments(h)
             e == AllDocuments(g)
             r == root[old] IN
         /\ r \in DOMAIN d /\ DOMAIN e = DOMAIN d
         /\ D!Only(r, d, e)
         /\ path[old] \in DOMAIN d[r]
         /\ e[r] = D!Without(d[r], path[old])
<1>. DEFINE r == root[old]
            F == Tree(h, old)
            p == path[old]
            c == D!Without(Document(h, r), p)
<1>0. NULL \notin Value
  BY JsonTreeAssumption
<1>1. /\ r \in Value /\ h[r].parent = NULL /\ path[r] = << >> /\ root[r] = r
      /\ r \in Live(h) <=> old \in Live(h)
      /\ old \in Live(h) /\ r # old
      /\ \A w \in Value : h[w].parent = NULL <=> root[w] = w
  <2>1. h[old].type # "free"
    BY DEF Good, Nodes, Node
  <2>. QED
    BY <2>1, TraceIs DEF Live
<1>2. F = {w \in Value : root[w] = r /\ IsPrefix(p, path[w])}
  BY TraceTree
<1>3. /\ IsMap(c)
      /\ \A q : q \in DOMAIN c <=> q \in DOMAIN Document(h, r) /\ ~IsPrefix(p, q)
      /\ \A q \in DOMAIN c : c[q] = Document(h, r)[q]
  BY WithoutIs
<1>4. \A q : q \in DOMAIN Document(h, r) <=>
        \E w \in Value : root[w] = r /\ path[w] = q
  BY <1>1, DocumentIs
<1>5. \A w \in F : w \in Value /\ root[w] = r /\ w # r
  <2>1. \A w \in F : w = old \/ h[w].parent \in F
    BY TreeIs
  <2>2. F \subseteq Value
    BY TreeIs
  <2>. QED
    BY <1>0, <1>1, <1>2, <2>1, <2>2
<1>. HIDE DEF r, F, p, c
<1>6. \A q : q \in DOMAIN c <=> \E w \in Value \ F : root[w] = r /\ path[w] = q
  <2>1. ASSUME NEW q \in DOMAIN c PROVE \E w \in Value \ F : root[w] = r /\ path[w] = q
    BY <1>2, <1>3, <1>4
  <2>2. ASSUME NEW w \in Value \ F, root[w] = r PROVE path[w] \in DOMAIN c
    <3>1. ~IsPrefix(p, path[w])
      BY <1>2, <2>2
    <3>. QED
      BY <1>3, <1>4, <2>2, <3>1
  <2>. QED
    BY <2>1, <2>2
<1>7. LET d == AllDocuments(h)
          e == AllDocuments(g) IN
      /\ r \in DOMAIN d /\ DOMAIN e = DOMAIN d
      /\ D!Only(r, d, e)
      /\ e[r] = c
  <2>1. h[r].type # "free" /\ Loses(h, g, F)
    BY <1>1 DEF Live, F
  <2>. QED
    BY <1>1, <1>3, <1>5, <1>6, <2>1, LostPart
<1>8. r \in Roots(h) /\ AllDocuments(h)[r] = Document(h, r)
  BY <1>7, DocumentsAre
<1>9. p \in DOMAIN Document(h, r)
  BY <1>4 DEF p, r
<1>. QED
  BY <1>7, <1>8, <1>9 DEF r, c, p

(* json_object_remove takes a member from a document (parson.c:1810).       *)
LEMMA RemovesMember ==
  ASSUME NEW h, Good(h), NEW o \in Value, h[o].type = "object",
         NEW name \in Name, NEW g, g = json_object_remove(h, o, name).heap
  PROVE  g = h \/ \E r \in DOMAIN AllDocuments(h) :
                    D!Change(AllDocuments(h), AllDocuments(g), r)
<1>. DEFINE i == Index(h, o, name)
            old == h[o].values[i]
<1>0. NULL \notin Value
  BY JsonTreeAssumption
<1>. SUFFICES ASSUME i # 0
              PROVE  \E r \in DOMAIN AllDocuments(h) :
                       D!Change(AllDocuments(h), AllDocuments(g), r)
  BY ObjectRemoveGood
<1>1. /\ Good(g) /\ Detached(h, g, o, old)
      /\ g[o].names = MovedUp(h[o].names, i)
      /\ g[o].values = MovedUp(h[o].values, i)
  BY ObjectRemoveGood
<1>2. /\ i \in DOMAIN h[o].values /\ i \in DOMAIN h[o].names
      /\ h[o].names[i] = name
  BY GetIs, IndexIs DEF Good
<1>3. /\ old \in Value /\ h[old].parent = o /\ KeyOf(h, old) = name
      /\ old \in Kids(h, o)
  BY <1>2, KeyIs DEF Kids, ToSet
<1>4. /\ h[o].values \in Seq(Value) /\ h[o].names \in Seq(Name)
      /\ Len(h[o].names) = Len(h[o].values) /\ Len(h[o].values) \in Nat
      /\ IsInjective(h[o].names) /\ IsInjective(h[o].values)
  BY Fields, LenProperties DEF Good, Nodes, Node
<1>. HIDE DEF i, old
<1>5. ASSUME NEW w \in Kids(h, o) \ {old}
      PROVE  KeyOf(g, w) = KeyOf(h, w)
  <2>. DEFINE s == h[o].values
              t == MovedUp(s, i)
              n == h[o].names
              m == MovedUp(n, i)
  <2>1. /\ s \in Seq(Value) /\ IsInjective(s) /\ i \in DOMAIN s
        /\ n \in Seq(Name) /\ IsInjective(n) /\ i \in DOMAIN n
        /\ Len(n) = Len(s)
    BY <1>2, <1>4
  <2>2. g[o].values = t /\ g[o].names = m /\ g[o].type = "object"
    BY <1>1 DEF Detached
  <2>3. w \in ToSet(s) /\ s[i] = old
    BY DEF Kids, old
  <2>. HIDE DEF s, n
  <2>. HIDE DEF t, m
  <2>4. /\ t \in Seq(Value) /\ Len(t) = Len(s) - 1
        /\ ToSet(t) = ToSet(s) \ {s[i]}
        /\ \A j \in DOMAIN t : t[j] = s[IF j = i THEN Len(s) ELSE j]
    <3>1. /\ s \in Seq(Value) /\ IsInjective(s) /\ i \in DOMAIN s
      BY <2>1
    <3>2. LET u == MovedUp(s, i) IN
          /\ u \in Seq(Value) /\ Len(u) = Len(s) - 1
          /\ IsInjective(u)
          /\ ToSet(u) = ToSet(s) \ {s[i]}
          /\ \A j \in DOMAIN u : u[j] = s[IF j = i THEN Len(s) ELSE j]
      BY <3>1, MovedUpIs
    <3>. QED
      BY <3>2 DEF t
  <2>5. /\ m \in Seq(Name) /\ Len(m) = Len(n) - 1
        /\ \A j \in DOMAIN m : m[j] = n[IF j = i THEN Len(n) ELSE j]
    BY <2>1, MovedUpIs, SMTT(30) DEF m
  <2>6. PICK j \in DOMAIN t : t[j] = w
    BY <2>3, <2>4 DEF ToSet
  <2>. DEFINE k == IF j = i THEN Len(s) ELSE j
  <2>7. /\ DOMAIN t = 1 .. Len(s) - 1 /\ DOMAIN m = DOMAIN t
        /\ DOMAIN s = 1 .. Len(s) /\ Len(s) \in Nat
    BY <2>1, <2>4, <2>5, LenProperties
  <2>8. k \in DOMAIN s
    BY <2>6, <2>7
  <2>9. s[k] = w /\ n[k] = m[j]
    BY <2>1, <2>4, <2>5, <2>6, <2>7
  <2>. HIDE DEF k
  <2>10. /\ k \in DOMAIN h[o].values /\ j \in DOMAIN g[o].values
         /\ h[o].values[k] = w /\ g[o].values[j] = w
         /\ h[o].names[k] = g[o].names[j] /\ h[o].type = g[o].type
    BY <2>2, <2>6, <2>8, <2>9 DEF s, n
  <2>11. w \in Value
    BY Fields DEF Good
  <2>. QED
    BY <1>1, <2>10, <2>11, KeyKept
<1>6. Loses(h, g, Tree(h, old))
  BY <1>1, <1>3, <1>5, DetachedLoses
<1>7. PICK root, path : Traced(h, root, path)
  BY TraceExists
<1>8. LET d == AllDocuments(h)
          e == AllDocuments(g)
          r == root[old] IN
      /\ r \in DOMAIN d /\ DOMAIN e = DOMAIN d
      /\ D!Only(r, d, e)
      /\ path[old] \in DOMAIN d[r]
      /\ e[r] = D!Without(d[r], path[old])
  BY <1>0, <1>1, <1>3, <1>6, <1>7, LostMember
<1>9. /\ path[old] = Append(path[o], name)
      /\ path[o] \in Seq(Key) /\ name \in Key
  BY <1>0, <1>3, <1>7 DEF Traced, Key
<1>10. path[old] # << >> /\ Last(path[old]) = name
  BY <1>9, AppendIs
<1>11. D!Without(AllDocuments(h)[root[old]], path[old])
         \in D!RemovedAt(AllDocuments(h)[root[old]], path[old])
  BY <1>8, <1>10 DEF D!RemovedAt, D!Root, D!Last, Last
<1>. QED
  BY <1>8, <1>11 DEF D!Change

(* json_object_clear and json_array_clear take all parts of a part          *)
(* (parson.c:1614, 1836).                                                   *)
LEMMA ClearsPart ==
  ASSUME NEW h, Good(h), NEW c \in Value, h[c].type \in {"object", "array"}
  PROVE  \E r \in DOMAIN AllDocuments(h) :
           D!Change(AllDocuments(h), AllDocuments(Cleared(h, c)), r)
<1>. DEFINE g == Cleared(h, c)
            F == Tree(h, c) \ {c}
<1>0. NULL \notin Value
  BY JsonTreeAssumption
<1>1. Good(g)
  BY ClearedGood
<1>2. /\ c \in Tree(h, c) /\ Tree(h, c) \subseteq Value
      /\ \A w \in Value : h[w].parent \in Tree(h, c) => w \in Tree(h, c)
      /\ \A w \in Tree(h, c) : w = c \/ h[w].parent \in Tree(h, c)
      /\ h[c].parent \notin Tree(h, c)
  BY TreeIs
<1>3. /\ g[c].type = h[c].type /\ g[c].parent = h[c].parent
      /\ \A w \in F : g[w].type = "free"
      /\ \A w \in Value \ F : w # c => g[w] = h[w]
  <2>1. h[c] \in JSON_Value
    BY Fields DEF Good
  <2>. QED
    BY <1>2, <2>1 DEF Cleared, JSON_Value, NewValue
<1>. HIDE DEF g
<1>4. PICK root, path : Traced(h, root, path)
  BY TraceExists
<1>. DEFINE r == root[c]
            p == path[c]
            a == D!ClearedAt(Document(h, r), p)
<1>5. Loses(h, g, F)
  <2>1. ASSUME NEW w \in Value \ F, h[w].parent # NULL
        PROVE  KeyOf(g, w) = KeyOf(h, w)
    <3>1. h[w].parent \in Value /\ h[w].parent \notin F /\ h[w].parent # c
      BY <1>2, <2>1, HeldIs
    <3>2. g[h[w].parent] = h[h[w].parent]
      BY <1>3, <3>1
    <3>. QED
      BY <1>1, <2>1, <3>2, KeyStays
  <2>2. \A w \in Value : h[w].parent \in F => w \in F
    BY <1>2
  <2>. QED
    BY <1>2, <1>3, <2>1, <2>2 DEF Loses
<1>6. /\ r \in Value /\ h[r].parent = NULL /\ root[r] = r
      /\ h[r].type # "free"
      /\ p \in Seq(Key)
  BY <1>4, TraceIs DEF Live
<1>7. Tree(h, c) = {w \in Value : root[w] = r /\ IsPrefix(p, path[w])}
  BY <1>4, TraceTree
<1>8. \A w \in F : w \in Value /\ root[w] = r /\ w # r
  BY <1>0, <1>2, <1>6, <1>7
<1>9. \A q : q \in DOMAIN Document(h, r) <=>
        \E w \in Value : root[w] = r /\ path[w] = q
  BY <1>4, <1>6, DocumentIs
<1>10. /\ IsMap(a)
       /\ \A q : q \in DOMAIN a <=> /\ q \in DOMAIN Document(h, r)
                                    /\ ~(IsPrefix(p, q) /\ q # p)
       /\ \A q \in DOMAIN a : a[q] = Document(h, r)[q]
  <2>. DEFINE d == Document(h, r)
              out == {x \in D!Inside(d, p) : x # p}
  <2>1. \A q : q \in out <=> q \in DOMAIN d /\ IsPrefix(p, q) /\ q # p
    BY DEF D!Inside, D!IsPrefix, IsPrefix
  <2>2. a = [q \in DOMAIN d \ out |-> d[q]]
    BY DEF D!ClearedAt
  <2>. HIDE DEF out, a
  <2>. QED
    BY <2>1, <2>2 DEF IsMap
<1>11. \A w \in Value : path[w] = p /\ root[w] = r => w = c
  BY <1>4, TraceIsInjective
<1>. HIDE DEF r, p, a
<1>12. \A q : q \in DOMAIN a <=> \E w \in Value \ F : root[w] = r /\ path[w] = q
  <2>1. ASSUME NEW q \in DOMAIN a
        PROVE  \E w \in Value \ F : root[w] = r /\ path[w] = q
    <3>1. PICK w \in Value : root[w] = r /\ path[w] = q
      BY <1>9, <1>10, <2>1
    <3>2. ~(IsPrefix(p, path[w]) /\ path[w] # p)
      BY <1>10, <2>1, <3>1
    <3>3. ASSUME w \in F PROVE FALSE
      <4>1. IsPrefix(p, path[w]) /\ w # c
        BY <1>7, <3>3
      <4>2. path[w] # p
        BY <1>11, <3>1, <4>1
      <4>. QED
        BY <3>2, <4>1, <4>2
    <3>. QED
      BY <3>1, <3>3
  <2>2. ASSUME NEW w \in Value \ F, root[w] = r PROVE path[w] \in DOMAIN a
    <3>1. ~(IsPrefix(p, path[w]) /\ path[w] # p)
      BY <1>7, <1>11, <2>2 DEF p
    <3>. QED
      BY <1>9, <1>10, <2>2, <3>1
  <2>. QED
    BY <2>1, <2>2
<1>13. LET d == AllDocuments(h)
           e == AllDocuments(g) IN
       /\ r \in DOMAIN d /\ DOMAIN e = DOMAIN d
       /\ D!Only(r, d, e)
       /\ e[r] = a
  BY <1>1, <1>4, <1>5, <1>6, <1>8, <1>10, <1>12, LostPart
<1>14. p \in DOMAIN Document(h, r) /\ AllDocuments(h)[r] = Document(h, r)
  BY <1>9, <1>13, DocumentsAre DEF p, r
<1>. QED
  BY <1>13, <1>14 DEF D!Change, a, g
-----------------------------------------------------------------------------
(* Items that move up.                                                      *)

\* The path q when the i-th item of the array at P is removed (D!Closed).
Back(P, i, q) ==
  IF IsStrictPrefix(P, q) /\ q[Len(P) + 1] > i
    THEN [q EXCEPT ![Len(P) + 1] = @ - 1] ELSE q

\* And the path that q was.
Forth(P, i, q) ==
  IF IsStrictPrefix(P, q) /\ q[Len(P) + 1] >= i
    THEN [q EXCEPT ![Len(P) + 1] = @ + 1] ELSE q

(* D!Closed in terms of them.                                               *)
LEMMA ClosedDocument ==
  ASSUME NEW d, NEW P, NEW i
  PROVE  LET e == D!Closed(d, P, i) IN
         /\ IsMap(e)
         /\ \A q : q \in DOMAIN e <=>
              \E x \in DOMAIN d : ~IsPrefix(Append(P, i), x) /\ q = Back(P, i, x)
         /\ \A q \in DOMAIN e : e[q] = d[Forth(P, i, q)]
<1>. DEFINE rest == D!Without(d, Append(P, i))
            D1 == {IF D!IsStrictPrefix(P, x) /\ x[Len(P) + 1] > i
                     THEN [x EXCEPT ![Len(P) + 1] = @ - 1] ELSE x : x \in DOMAIN rest}
            e == [q \in D1 |-> d[IF D!IsStrictPrefix(P, q) /\ q[Len(P) + 1] >= i
                     THEN [q EXCEPT ![Len(P) + 1] = @ + 1] ELSE q]]
<1>1. e = D!Closed(d, P, i)
  BY DEF D!Closed
<1>2. \A x : x \in DOMAIN rest <=> x \in DOMAIN d /\ ~IsPrefix(Append(P, i), x)
  BY WithoutIs
<1>3. \A x, y : D!IsStrictPrefix(x, y) <=> IsStrictPrefix(x, y)
  BY DEF D!IsStrictPrefix, IsStrictPrefix, D!IsPrefix, IsPrefix
<1>. HIDE DEF rest
<1>4. \A q : q \in D1 <=>
         \E x \in DOMAIN d : ~IsPrefix(Append(P, i), x) /\ q = Back(P, i, x)
  BY <1>2, <1>3 DEF Back
<1>. HIDE DEF D1
<1>5. IsMap(e) /\ DOMAIN e = D1 /\ \A q \in D1 : e[q] = d[Forth(P, i, q)]
  BY <1>3 DEF IsMap, Forth
<1>. HIDE DEF e
<1>. QED
  BY <1>1, <1>4, <1>5

(* Strictly below P is what has more keys.                                  *)
LEMMA StrictlyIs ==
  ASSUME NEW K, NEW P \in Seq(K), NEW t \in Seq(K)
  PROVE  /\ IsStrictPrefix(P, t) <=> IsPrefix(P, t) /\ Len(P) < Len(t)
         /\ IsStrictPrefix(P, t) => Len(P) + 1 \in 1 .. Len(t)
<1>0. Len(P) \in Nat /\ Len(t) \in Nat
  BY LenProperties
<1>1. IsPrefix(P, t) <=> Len(P) <= Len(t) /\ \A i \in 1 .. Len(P) : P[i] = t[i]
  BY PrefixIs
<1>2. IsPrefix(P, t) /\ Len(P) = Len(t) => P = t
  BY <1>1, SeqEqual
<1>. QED
  BY <1>0, <1>1, <1>2 DEF IsStrictPrefix

(* The array itself does not move.                                          *)
LEMMA BackArray == ASSUME NEW P, NEW i PROVE Back(P, i, P) = P
BY DEF Back, IsStrictPrefix

(* Its items do.                                                            *)
LEMMA BackItem ==
  ASSUME NEW P \in Seq(Key), NEW i \in Nat, NEW j \in Nat
  PROVE  Back(P, i, Append(P, j)) = Append(P, IF j > i THEN j - 1 ELSE j)
<1>. DEFINE a == Append(P, j)
            n == Len(P) + 1
            y == j - 1
            b == [a EXCEPT ![n] = y]
            c == Append(P, y)
<1>0. j \in Key /\ Len(P) \in Nat
  BY LenProperties DEF Key
<1>1. /\ a \in Seq(Key) /\ Len(a) = n /\ a[n] = j
      /\ \A m \in 1 .. Len(P) : a[m] = P[m]
  BY <1>0, AppendProperties
<1>2. IsPrefix(P, a) /\ P # a
  BY <1>0, <1>1, AppendIs
<1>. HIDE DEF a
<1>3. CASE j > i
  <2>1. y \in Key /\ n \in 1 .. Len(a)
    BY <1>0, <1>1, <1>3 DEF Key
  <2>. HIDE DEF y
  <2>2. /\ b \in Seq(Key) /\ Len(b) = n
        /\ \A m \in 1 .. n : b[m] = IF m = n THEN y ELSE a[m]
    BY <1>0, <1>1, <2>1, ExceptSeq
  <2>3. /\ c \in Seq(Key) /\ Len(c) = n /\ c[n] = y
        /\ \A m \in 1 .. Len(P) : c[m] = P[m]
    BY <2>1, AppendProperties
  <2>. HIDE DEF b, c
  <2>4. b = c
    <3>1. \A m \in 1 .. n : m = n \/ m \in 1 .. Len(P)
      BY <1>0
    <3>2. \A m \in 1 .. Len(b) : b[m] = c[m]
      BY <1>0, <1>1, <2>2, <2>3, <3>1
    <3>. QED
      BY <2>2, <2>3, <3>2, SeqEqual
  <2>5. Back(P, i, a) = b
    BY <1>1, <1>2, <1>3 DEF Back, IsStrictPrefix, b, y
  <2>. QED
    BY <1>3, <2>4, <2>5 DEF a, c, y
<1>4. CASE ~(j > i)
  BY <1>1, <1>4 DEF Back, a
<1>. QED
  BY <1>3, <1>4

(* And so does what they hold.                                              *)
LEMMA BackAppend ==
  ASSUME NEW P \in Seq(Key), NEW t \in Seq(Key), t # P, NEW k \in Key, NEW i \in Nat,
         IsStrictPrefix(P, t) => t[Len(P) + 1] \in Nat
  PROVE  /\ Back(P, i, Append(t, k)) = Append(Back(P, i, t), k)
         /\ Back(P, i, t) \in Seq(Key)
<1>. DEFINE a == Append(t, k)
            n == Len(P) + 1
<1>0. Len(P) \in Nat /\ Len(t) \in Nat
  BY LenProperties
<1>1. /\ a \in Seq(Key) /\ Len(a) = Len(t) + 1 /\ a[Len(t) + 1] = k
      /\ \A m \in 1 .. Len(t) : a[m] = t[m]
  BY AppendProperties
<1>2. IsStrictPrefix(P, a) <=> IsStrictPrefix(P, t)
  <2>1. IsPrefix(P, a) <=> IsPrefix(P, t) \/ P = a
    BY AppendPrefix
  <2>2. ~IsPrefix(a, t)
    BY AppendIs
  <2>. HIDE DEF a
  <2>. QED
    BY <2>1, <2>2 DEF IsStrictPrefix
<1>. HIDE DEF a
<1>3. CASE IsStrictPrefix(P, t) /\ t[n] > i
  <2>. DEFINE x == t[n] - 1
              b == [t EXCEPT ![n] = x]
              c == [a EXCEPT ![n] = x]
              e == Append(b, k)
  <2>1. n \in 1 .. Len(t) /\ n \in 1 .. Len(a) /\ a[n] = t[n]
    BY <1>0, <1>1, <1>3, StrictlyIs
  <2>2. x \in Key
    BY <1>3 DEF Key
  <2>. HIDE DEF x
  <2>3. /\ b \in Seq(Key) /\ Len(b) = Len(t)
        /\ \A m \in 1 .. Len(t) : b[m] = IF m = n THEN x ELSE t[m]
    BY <2>1, <2>2, ExceptSeq
  <2>4. /\ c \in Seq(Key) /\ Len(c) = Len(a)
        /\ \A m \in 1 .. Len(a) : c[m] = IF m = n THEN x ELSE a[m]
    BY <1>1, <2>1, <2>2, ExceptSeq
  <2>. HIDE DEF b, c
  <2>5. /\ e \in Seq(Key) /\ Len(e) = Len(b) + 1 /\ e[Len(b) + 1] = k
        /\ \A m \in 1 .. Len(b) : e[m] = b[m]
    BY <2>3, AppendProperties
  <2>. HIDE DEF e
  <2>6. c = e
    <3>1. \A m \in 1 .. Len(a) : m = Len(t) + 1 \/ m \in 1 .. Len(t)
      BY <1>0, <1>1
    <3>2. n # Len(t) + 1 /\ Len(t) + 1 \in 1 .. Len(a)
      BY <1>0, <1>1, <2>1
    <3>3. \A m \in 1 .. Len(t) : m \in 1 .. Len(a)
      BY <1>0, <1>1
    <3>4. ASSUME NEW m \in 1 .. Len(c) PROVE c[m] = e[m]
      <4>1. CASE m = Len(t) + 1
        BY <1>1, <2>3, <2>4, <2>5, <3>2, <4>1
      <4>2. CASE m \in 1 .. Len(t)
        BY <1>1, <2>3, <2>4, <2>5, <3>3, <4>2
      <4>. QED
        BY <2>4, <3>1, <4>1, <4>2
    <3>. QED
      BY <1>1, <2>3, <2>4, <2>5, <3>4, SeqEqual
  <2>7. Back(P, i, a) = c /\ Back(P, i, t) = b
    BY <1>2, <1>3, <2>1 DEF Back, b, c, x
  <2>. QED
    BY <2>3, <2>6, <2>7 DEF a, e
<1>4. CASE ~(IsStrictPrefix(P, t) /\ t[n] > i)
  <2>1. IsStrictPrefix(P, t) => a[n] = t[n]
    BY <1>1, StrictlyIs
  <2>. QED
    BY <1>2, <1>4, <2>1 DEF Back, a
<1>. QED
  BY <1>3, <1>4

(* What is not released is found again.                                     *)
LEMMA BackForth ==
  ASSUME NEW P \in Seq(Key), NEW x \in Seq(Key), NEW i \in Nat \ {0},
         IsStrictPrefix(P, x) => x[Len(P) + 1] \in Nat,
         ~IsPrefix(Append(P, i), x)
  PROVE  Forth(P, i, Back(P, i, x)) = x
<1>. DEFINE n == Len(P) + 1
<1>0. Len(P) \in Nat /\ Len(x) \in Nat /\ i \in Key
  BY LenProperties DEF Key
<1>1. CASE IsStrictPrefix(P, x) /\ x[n] > i
  <2>. DEFINE y == x[n] - 1
              b == [x EXCEPT ![n] = y]
              c == [b EXCEPT ![n] = y + 1]
  <2>1. n \in 1 .. Len(x) /\ y \in Key /\ y >= i /\ y + 1 = x[n] /\ x[n] \in Key
    BY <1>1, StrictlyIs DEF Key
  <2>. HIDE DEF y
  <2>2. /\ b \in Seq(Key) /\ Len(b) = Len(x)
        /\ \A m \in 1 .. Len(x) : b[m] = IF m = n THEN y ELSE x[m]
    BY <2>1, ExceptSeq
  <2>. HIDE DEF b
  <2>3. /\ c \in Seq(Key) /\ Len(c) = Len(x)
        /\ \A m \in 1 .. Len(x) : c[m] = IF m = n THEN x[n] ELSE b[m]
    BY <2>1, <2>2, ExceptSeq
  <2>. HIDE DEF c
  <2>4. \A m \in 1 .. Len(c) : c[m] = x[m]
    BY <2>2, <2>3
  <2>5. c = x
    BY <2>3, <2>4, SeqEqual
  <2>6. IsStrictPrefix(P, b)
    <3>1. /\ IsPrefix(P, x) <=> Len(P) <= Len(x) /\ \A m \in 1 .. Len(P) : P[m] = x[m]
          /\ IsPrefix(P, b) <=> Len(P) <= Len(b) /\ \A m \in 1 .. Len(P) : P[m] = b[m]
      BY <2>2, PrefixIs
    <3>2. IsPrefix(P, x) /\ Len(P) < Len(x)
      BY <1>1, StrictlyIs
    <3>3. \A m \in 1 .. Len(P) : m \in 1 .. Len(x) /\ m # n
      BY <1>0, <3>2
    <3>4. \A m \in 1 .. Len(P) : P[m] = b[m]
      BY <2>2, <3>1, <3>2, <3>3
    <3>5. IsPrefix(P, b) /\ Len(P) < Len(b)
      BY <1>0, <2>2, <3>1, <3>2, <3>4
    <3>. QED
      BY <2>2, <3>5, StrictlyIs
  <2>7. b[n] = y
    BY <2>1, <2>2
  <2>8. Back(P, i, x) = b
    BY <1>1 DEF Back, b, y
  <2>9. Forth(P, i, b) = c
    BY <2>1, <2>6, <2>7 DEF Forth, c
  <2>. QED
    BY <2>5, <2>8, <2>9
<1>2. CASE IsStrictPrefix(P, x) /\ ~(x[n] > i)
  <2>. DEFINE q == Append(P, i)
  <2>1. /\ q \in Seq(Key) /\ Len(q) = n /\ q[n] = i
        /\ \A m \in 1 .. Len(P) : q[m] = P[m]
    BY <1>0, AppendProperties
  <2>. HIDE DEF q
  <2>0. \A u, w \in Seq(Key) : IsPrefix(u, w) <=>
          Len(u) <= Len(w) /\ \A m \in 1 .. Len(u) : u[m] = w[m]
    BY PrefixIs
  <2>2. IsPrefix(q, x) <=> Len(q) <= Len(x) /\ \A m \in 1 .. Len(q) : q[m] = x[m]
    BY <2>0, <2>1
  <2>3. IsPrefix(P, x) <=> Len(P) <= Len(x) /\ \A m \in 1 .. Len(P) : P[m] = x[m]
    BY PrefixIs
  <2>4. n \in 1 .. Len(x) /\ IsPrefix(P, x)
    BY <1>2, StrictlyIs
  <2>5. \A m \in 1 .. n : m = n \/ m \in 1 .. Len(P)
    BY <1>0
  <2>6. x[n] # i
    BY <1>0, <2>1, <2>2, <2>3, <2>4, <2>5 DEF q
  <2>7. ~(x[n] >= i)
    BY <1>2, <2>6
  <2>. QED
    BY <1>2, <2>7 DEF Back, Forth
<1>3. CASE ~IsStrictPrefix(P, x)
  BY <1>3 DEF Back, Forth
<1>. QED
  BY <1>1, <1>2, <1>3

\* Where everything is when the i-th item of the array a has been removed,
\* with what it holds, F.
CloseRoot(root, F) == [w \in Value |-> IF w \in F THEN w ELSE root[w]]

ClosePath(root, path, a, i, F) ==
  [w \in Value |-> IF w \in F THEN << >>
                   ELSE IF root[w] = root[a] THEN Back(path[a], i, path[w])
                   ELSE path[w]]

(* Below an array, numbers come next.                                       *)
LEMMA NumbersFollow ==
  ASSUME NEW h, Good(h), NEW root, NEW path, Traced(h, root, path),
         NEW a \in Value, h[a].type = "array",
         NEW w \in Value, root[w] = root[a], IsStrictPrefix(path[a], path[w])
  PROVE  path[w][Len(path[a]) + 1] \in Nat
<1>1. path[a] \in Seq(Key) /\ path[w] \in Seq(Key)
  BY DEF Traced
<1>2. path[a] \in D!Above(path[w])
  <2>1. IsPrefix(path[a], path[w]) /\ path[a] # path[w]
    BY DEF IsStrictPrefix
  <2>2. 0 \in Key
    BY DEF Key
  <2>. QED
    BY <1>1, <2>1, <2>2, AboveIs
<1>3. PICK u \in Value :
        /\ root[u] = root[w] /\ path[u] = path[a]
        /\ h[u].type = IF path[w][Len(path[a]) + 1] \in Name THEN "object" ELSE "array"
  BY <1>2, OnTheWay
<1>4. u = a
  BY <1>3, TraceIsInjective
<1>5. path[w][Len(path[a]) + 1] \notin Name
  BY <1>3, <1>4
<1>6. Len(path[a]) + 1 \in 1 .. Len(path[w])
  BY <1>1, StrictlyIs
<1>7. path[w][Len(path[a]) + 1] \in Key
  BY <1>1, <1>6, ElementOfSeq, SMTT(30)
<1>. QED
  BY <1>5, <1>7 DEF Key

(* Where everything is when an item has been removed.                       *)
LEMMA CloseTraces ==
  ASSUME NEW h, Good(h), NEW root, NEW path, Traced(h, root, path),
         NEW g, Good(g), NEW a \in Value, h[a].type = "array",
         NEW i \in DOMAIN h[a].values, NEW F, F = Tree(h, h[a].values[i]),
         Detached(h, g, a, h[a].values[i]),
         g[a].values = RemoveAt(h[a].values, i)
  PROVE  Traced(g, CloseRoot(root, F), ClosePath(root, path, a, i, F))
<1>. DEFINE old == h[a].values[i]
            root2 == CloseRoot(root, F)
            path2 == ClosePath(root, path, a, i, F)
<1>0. NULL \notin Value
  BY JsonTreeAssumption
<1>1. /\ old \in Value /\ h[old].parent = a
      /\ a \notin F /\ F \subseteq Value
      /\ \A w \in Value : h[w].parent \in F => w \in F
      /\ i \in Nat /\ i # 0 /\ old \in F
  BY KeyIs, TreeIs
<1>2. /\ \A w \in F : g[w].type = "free"
      /\ \A w \in Value \ F : w # a => g[w] = h[w]
      /\ g[a].type = h[a].type /\ g[a].parent = h[a].parent
  BY DEF Detached
<1>3. /\ root \in [Value -> Value] /\ path \in [Value -> Seq(Key)]
      /\ \A w \in Value :
           IF h[w].parent = NULL THEN root[w] = w /\ path[w] = << >>
           ELSE /\ root[w] = root[h[w].parent]
                /\ path[w] = Append(path[h[w].parent], KeyOf(h, w))
  BY DEF Traced
<1>4. \A w \in Value : root[w] = root[a] /\ IsStrictPrefix(path[a], path[w])
                         => path[w][Len(path[a]) + 1] \in Nat
  BY NumbersFollow
<1>5. \A w \in Value : root[w] = root[a] /\ path[w] = path[a] => w = a
  BY TraceIsInjective
<1>. HIDE DEF old
<1>6. \A w \in Value : w # a /\ root[w] = root[a] => Back(path[a], i, path[w]) \in Seq(Key)
  <2>1. 0 \in Key
    BY DEF Key
  <2>. SUFFICES ASSUME NEW w \in Value, w # a, root[w] = root[a]
                PROVE  Back(path[a], i, path[w]) \in Seq(Key)
    OBVIOUS
  <2>2. path[w] # path[a] /\ path[w] \in Seq(Key) /\ path[a] \in Seq(Key)
    BY <1>3, <1>5
  <2>. QED
    BY <1>1, <1>4, <2>1, <2>2, BackAppend
<1>7. Back(path[a], i, path[a]) = path[a]
  BY BackArray
<1>8. root2 \in [Value -> Value] /\ path2 \in [Value -> Seq(Key)]
  BY <1>3, <1>6, <1>7, EmptySeq DEF CloseRoot, ClosePath
<1>9. /\ \A w \in F : root2[w] = w /\ path2[w] = << >>
      /\ \A w \in Value \ F : root2[w] = root[w]
      /\ \A w \in Value \ F : path2[w] =
           IF root[w] = root[a] THEN Back(path[a], i, path[w]) ELSE path[w]
  BY <1>1 DEF CloseRoot, ClosePath
<1>. HIDE DEF root2, path2
<1>10. ASSUME NEW w \in F PROVE g[w].parent = NULL
  BY <1>1, <1>2 DEF Good, Nodes, Node
<1>11. ASSUME NEW w \in Value \ F, h[w].parent = NULL
       PROVE  g[w].parent = NULL /\ root2[w] = w /\ path2[w] = << >>
  <2>1. g[w].parent = NULL
    BY <1>2, <1>11
  <2>2. root[w] = w /\ path[w] = << >>
    BY <1>3, <1>11
  <2>3. root[w] = root[a] => Back(path[a], i, << >>) = << >>
    <3>1. path[a] \in Seq(Key) /\ << >> \in Seq(Key) /\ Len(<< >>) = 0
      BY <1>3, EmptySeq
    <3>2. Len(path[a]) \in Nat
      BY <3>1, LenProperties
    <3>3. ~(Len(path[a]) < Len(<< >>))
      BY <3>1, <3>2
    <3>4. IsStrictPrefix(path[a], << >>) => Len(path[a]) < Len(<< >>)
      BY <3>1, StrictlyIs
    <3>. QED
      BY <3>3, <3>4 DEF Back
  <2>. QED
    BY <1>9, <2>1, <2>2, <2>3
<1>12. ASSUME NEW w \in Value \ F, h[w].parent # NULL
       PROVE  /\ g[w].parent # NULL
              /\ root2[w] = root2[g[w].parent]
              /\ path2[w] = Append(path2[g[w].parent], KeyOf(g, w))
  <2>. DEFINE p == h[w].parent
              k == KeyOf(h, w)
  <2>1. g[w].parent = p /\ p \in Value /\ p \notin F /\ k \in Key
    BY <1>1, <1>2, <1>12, HeldIs
  <2>2. root[w] = root[p] /\ path[w] = Append(path[p], k) /\ path[p] \in Seq(Key)
    BY <1>3, <1>12, <2>1
  <2>3. CASE p # a
    <3>1. g[p] = h[p]
      BY <1>2, <2>1, <2>3
    <3>2. KeyOf(g, w) = k
      BY <1>12, <3>1, KeyStays
    <3>. HIDE DEF p, k
    <3>3. CASE root[p] = root[a]
      <4>1. path[p] # path[a] /\ path[a] \in Seq(Key)
        BY <1>3, <1>5, <2>1, <2>3, <3>3
      <4>2. IsStrictPrefix(path[a], path[p]) => path[p][Len(path[a]) + 1] \in Nat
        BY <1>4, <2>1, <3>3
      <4>3. Back(path[a], i, Append(path[p], k)) = Append(Back(path[a], i, path[p]), k)
        BY <1>1, <2>1, <2>2, <4>1, <4>2, BackAppend
      <4>. QED
        BY <1>0, <1>9, <2>1, <2>2, <3>2, <3>3, <4>3, ZenonT(30)
    <3>4. CASE root[p] # root[a]
      BY <1>0, <1>9, <2>1, <2>2, <3>2, <3>4
    <3>. QED
      BY <3>3, <3>4
  <2>4. CASE p = a
    <3>. DEFINE s == h[a].values
                t == RemoveAt(s, i)
    <3>1. /\ s \in Seq(Value) /\ IsInjective(s) /\ i \in DOMAIN s
          /\ DOMAIN s = 1 .. Len(s) /\ Len(s) \in Nat
      BY Fields, LenProperties DEF Good, Nodes, Node
    <3>2. w \in ToSet(s) /\ w # s[i]
      BY <1>1, <2>4 DEF Good, Linked, Kids, old
    <3>3. g[a].values = t
      BY SMTT(30)
    <3>. HIDE DEF s
    <3>4. LET u == RemoveAt(s, i) IN
          /\ u \in Seq(Value) /\ Len(u) = Len(s) - 1
          /\ IsInjective(u)
          /\ ToSet(u) = ToSet(s) \ {s[i]}
          /\ \A j \in DOMAIN u : u[j] = s[IF j < i THEN j ELSE j + 1]
      BY <3>1, RemovedIs, ZenonT(30)
    <3>5. /\ t \in Seq(Value) /\ Len(t) = Len(s) - 1
          /\ ToSet(t) = ToSet(s) \ {s[i]}
          /\ \A j \in DOMAIN t : t[j] = s[IF j < i THEN j ELSE j + 1]
      BY <3>4
    <3>. HIDE DEF t
    <3>6. PICK j \in DOMAIN t : t[j] = w
      <4>1. w \in ToSet(t)
        BY <3>2, <3>5
      <4>. QED
        BY <4>1 DEF ToSet
    <3>7. DOMAIN t = 1 .. Len(s) - 1
      BY <3>5, LenProperties
    <3>. DEFINE m == IF j < i THEN j ELSE j + 1
    <3>8. m \in DOMAIN s /\ s[m] = w /\ m \in Nat /\ j \in Nat
      BY <3>1, <3>5, <3>6, <3>7
    <3>9. k = m
      BY <3>8, KeyIs DEF s
    <3>10. KeyOf(g, w) = j
      BY <1>2, <3>3, <3>6, KeyIs
    <3>11. j = IF m > i THEN m - 1 ELSE m
      <4>1. m # i
        BY <3>2, <3>8
      <4>. QED
        BY <1>1, <3>8, <4>1
    <3>. HIDE DEF m
    <3>12. path[a] \in Seq(Key)
      BY <1>3
    <3>13. Back(path[a], i, Append(path[a], m)) = Append(path[a], j)
      BY <1>1, <3>8, <3>11, <3>12, BackItem, ZenonT(60)
    <3>14. path[w] = Append(path[a], m) /\ root[w] = root[a]
      BY <2>2, <2>4, <3>9
    <3>15. path2[w] = Append(path[a], j) /\ path2[a] = path[a]
      BY <1>1, <1>7, <1>9, <3>13, <3>14
    <3>16. root2[w] = root2[a]
      BY <1>1, <1>9, <3>14
    <3>. QED
      BY <1>0, <2>1, <2>4, <3>10, <3>15, <3>16
  <2>. QED
    BY <2>3, <2>4
<1>13. \A w \in Value :
         IF g[w].parent = NULL THEN root2[w] = w /\ path2[w] = << >>
         ELSE /\ root2[w] = root2[g[w].parent]
              /\ path2[w] = Append(path2[g[w].parent], KeyOf(g, w))
  BY <1>9, <1>10, <1>11, <1>12
<1>. QED
  BY <1>8, <1>13, ZenonT(30) DEF Traced, root2, path2

(* json_array_remove takes an item from a document: the later ones move up  *)
(* (parson.c:1544).                                                         *)
LEMMA RemovesItem ==
  ASSUME NEW h, Good(h), NEW a \in Value, h[a].type = "array", NEW i,
         NEW g, g = json_array_remove(h, a, i).heap
  PROVE  g = h \/ \E r \in DOMAIN AllDocuments(h) :
                    D!Change(AllDocuments(h), AllDocuments(g), r)
<1>. SUFFICES ASSUME i \in DOMAIN h[a].values
              PROVE  \E r \in DOMAIN AllDocuments(h) :
                       D!Change(AllDocuments(h), AllDocuments(g), r)
  BY ArrayRemoveGood
<1>. DEFINE old == h[a].values[i]
            F == Tree(h, old)
<1>0. NULL \notin Value
  BY JsonTreeAssumption
<1>1. /\ Good(g) /\ Detached(h, g, a, old)
      /\ g[a].values = RemoveAt(h[a].values, i)
  BY ArrayRemoveGood
<1>2. /\ old \in Value /\ h[old].parent = a
      /\ i \in Nat /\ i # 0 /\ KeyOf(h, old) = i
      /\ F \subseteq Value /\ a \notin F
      /\ \A w \in F : w = old \/ h[w].parent \in F
  BY KeyIs, TreeIs
<1>3. PICK root, path : Traced(h, root, path)
  BY TraceExists
<1>. DEFINE root2 == CloseRoot(root, F)
            path2 == ClosePath(root, path, a, i, F)
            r == root[a]
            P == path[a]
            d == Document(h, r)
            e == Document(g, r)
            c == D!Closed(d, P, i)
<1>4. Traced(g, root2, path2)
  BY <1>1, <1>3, CloseTraces
<1>5. /\ \A w \in F : g[w].type = "free"
      /\ \A w \in Value \ F : w # a => g[w] = h[w]
      /\ g[a].type = h[a].type /\ g[a].parent = h[a].parent
  BY <1>1 DEF Detached
<1>6. /\ r \in Value /\ h[r].parent = NULL /\ h[r].type # "free"
      /\ P \in Seq(Key) /\ i \in Key
  BY <1>2, <1>3, TraceIs DEF Live, Key
<1>7. path[old] = Append(P, i) /\ root[old] = r
  BY <1>0, <1>2, <1>3 DEF Traced
<1>8. /\ F \subseteq Value
      /\ \A w \in Value : w \in F <=>
           root[w] = r /\ IsPrefix(Append(P, i), path[w])
  <2>1. F = {w \in Value : root[w] = root[old] /\ IsPrefix(path[old], path[w])}
    BY <1>2, <1>3, TraceTree
  <2>. HIDE DEF F, old
  <2>. QED
    BY <1>7, <2>1
<1>9. \A w \in F : h[w].parent # NULL
  BY <1>0, <1>2
<1>10. r \notin F
  BY <1>6, <1>9
<1>11. /\ \A w \in F : root2[w] = w /\ path2[w] = << >>
       /\ \A w \in Value \ F : root2[w] = root[w]
       /\ \A w \in Value \ F : path2[w] =
            IF root[w] = r THEN Back(P, i, path[w]) ELSE path[w]
  BY <1>2 DEF CloseRoot, ClosePath
<1>12. \A w \in Value \ F : g[w].type = h[w].type /\ g[w].parent = h[w].parent
  BY <1>5
<1>13. Roots(g) = Roots(h)
  <2>1. /\ Roots(h) = {v \in Value : h[v].type # "free" /\ h[v].parent = NULL}
        /\ Roots(g) = {v \in Value : g[v].type # "free" /\ g[v].parent = NULL}
    BY DocumentsAre
  <2>. HIDE DEF F
  <2>2. \A v : v \in Roots(g) <=> v \in Roots(h)
    BY <1>5, <1>9, <1>12, <2>1
  <2>. QED
    BY <2>2
<1>14. /\ IsMap(d)
       /\ \A q : q \in DOMAIN d <=> \E w \in Value : root[w] = r /\ path[w] = q
       /\ \A w \in Value : root[w] = r => d[path[w]] = h[w].type
  BY <1>3, <1>6, DocumentIs
<1>15. /\ IsMap(e)
       /\ \A q : q \in DOMAIN e <=> \E w \in Value : root2[w] = r /\ path2[w] = q
       /\ \A w \in Value : root2[w] = r => e[path2[w]] = g[w].type
  BY <1>1, <1>4, <1>6, <1>10, <1>12, DocumentIs
<1>16. /\ IsMap(c)
       /\ \A q : q \in DOMAIN c <=>
            \E x \in DOMAIN d : ~IsPrefix(Append(P, i), x) /\ q = Back(P, i, x)
       /\ \A q \in DOMAIN c : c[q] = d[Forth(P, i, q)]
  BY ClosedDocument
<1>17. \A w \in Value : root[w] = r /\ IsStrictPrefix(P, path[w])
                          => path[w][Len(P) + 1] \in Nat
  BY <1>3, NumbersFollow
<1>18. \A w \in Value : path[w] \in Seq(Key)
  BY <1>3, TraceIs
<1>. HIDE DEF old, F, root2, path2, r, P, d, e, c
<1>19. \A q : q \in DOMAIN e <=>
         \E w \in Value \ F : root[w] = r /\ Back(P, i, path[w]) = q
  <2>1. ASSUME NEW w \in Value, root2[w] = r
        PROVE  w \notin F
    BY <1>10, <1>11, <2>1
  <2>. QED
    BY <1>11, <1>15, <2>1
<1>20. \A q : q \in DOMAIN c <=>
         \E w \in Value \ F : root[w] = r /\ Back(P, i, path[w]) = q
  <2>1. ASSUME NEW q \in DOMAIN c
        PROVE  \E w \in Value \ F : root[w] = r /\ Back(P, i, path[w]) = q
    <3>1. PICK x \in DOMAIN d : ~IsPrefix(Append(P, i), x) /\ q = Back(P, i, x)
      BY <1>16, <2>1
    <3>2. PICK w \in Value : root[w] = r /\ path[w] = x
      BY <1>14, <3>1
    <3>. QED
      BY <1>8, <3>1, <3>2
  <2>2. ASSUME NEW w \in Value \ F, root[w] = r
        PROVE  Back(P, i, path[w]) \in DOMAIN c
    <3>1. path[w] \in DOMAIN d /\ ~IsPrefix(Append(P, i), path[w])
      BY <1>8, <1>14, <2>2
    <3>. QED
      BY <1>16, <3>1
  <2>. QED
    BY <2>1, <2>2
<1>21. \A q \in DOMAIN e : e[q] = c[q]
  <2>. SUFFICES ASSUME NEW q \in DOMAIN e PROVE e[q] = c[q]
    OBVIOUS
  <2>1. PICK w \in Value \ F : root[w] = r /\ Back(P, i, path[w]) = q
    BY <1>19
  <2>2. root2[w] = r /\ path2[w] = q
    BY <1>11, <2>1
  <2>3. e[q] = g[w].type /\ g[w].type = h[w].type
    BY <1>12, <1>15, <2>1, <2>2
  <2>4. ~IsPrefix(Append(P, i), path[w])
    BY <1>8, <2>1
  <2>5. Forth(P, i, q) = path[w]
    <3>1. IsStrictPrefix(P, path[w]) => path[w][Len(P) + 1] \in Nat
      BY <1>17, <2>1
    <3>2. path[w] \in Seq(Key) /\ i \in Nat \ {0}
      BY <1>2, <1>18, <2>1
    <3>3. Forth(P, i, Back(P, i, path[w])) = path[w]
      BY <1>6, <2>4, <3>1, <3>2, BackForth
    <3>. QED
      BY <2>1, <3>3
  <2>6. c[q] = d[path[w]]
    BY <1>16, <1>19, <1>20, <2>5
  <2>. QED
    BY <1>14, <2>1, <2>3, <2>6
<1>22. e = c
  BY <1>15, <1>16, <1>19, <1>20, <1>21, SameMap
<1>23. \A s \in Roots(h) \ {r} : Document(g, s) = Document(h, s)
  <2>. SUFFICES ASSUME NEW s \in Roots(h), s # r
                PROVE  Document(g, s) = Document(h, s)
    OBVIOUS
  <2>1. s \in Value /\ h[s].parent = NULL /\ g[s].parent = NULL /\ s \notin F
    BY <1>9, <1>13, DocumentsAre
  <2>2. \A w \in Value : root2[w] = s <=> root[w] = s
    <3>1. \A w \in F : root[w] = r
      BY <1>8
    <3>. QED
      BY <1>11, <2>1, <3>1
  <2>3. \A w \in Value : root[w] = s => path2[w] = path[w] /\ g[w].type = h[w].type
    <3>1. \A w \in Value : root[w] = s => w \notin F
      BY <1>8
    <3>. QED
      BY <1>11, <1>12, <3>1
  <2>. QED
    BY <1>1, <1>3, <1>4, <2>1, <2>2, <2>3, SameDocument
<1>24. r \in Roots(h)
  BY <1>6, DocumentsAre
<1>25. LET A == AllDocuments(h)
           B == AllDocuments(g) IN
       /\ r \in DOMAIN A /\ DOMAIN B = DOMAIN A
       /\ D!Only(r, A, B)
       /\ A[r] = d /\ B[r] = c
  BY <1>13, <1>22, <1>23, <1>24, DocumentsAre DEF D!Only, d, e
<1>26. c \in D!RemovedAt(d, path[old])
  <2>1. path[old] \in DOMAIN d
    BY <1>2, <1>7, <1>14
  <2>2. Append(P, i) # << >> /\ Front(Append(P, i)) = P /\ Last(Append(P, i)) = i
    BY <1>6, AppendIs
  <2>3. i \notin Name
    BY <1>2, JsonTreeAssumption
  <2>4. path[old] # << >> /\ D!Front(path[old]) = P /\ D!Last(path[old]) = i
    BY <1>7, <2>2 DEF D!Front, Front, D!Last, Last
  <2>. QED
    BY <2>1, <2>3, <2>4 DEF D!RemovedAt, D!Root, c
<1>27. path[old] \in DOMAIN d
  BY <1>2, <1>7, <1>14
<1>. QED
  BY <1>25, <1>26, <1>27 DEF D!Change
-----------------------------------------------------------------------------
(* Copies.                                                                  *)

(* What is beyond a path, with one more step.                               *)
LEMMA BeyondAppend ==
  ASSUME NEW K, NEW P \in Seq(K), NEW t \in Seq(K), IsPrefix(P, t), NEW k \in K
  PROVE  /\ D!Beyond(P, Append(t, k)) = Append(D!Beyond(P, t), k)
         /\ D!Beyond(P, P) = << >>
<1>. DEFINE b == D!Beyond(P, t)
            c == Append(b, k)
<1>1. b \in Seq(K) /\ t = P \o b
  BY PrefixIs
<1>. HIDE DEF b
<1>2. c \in Seq(K) /\ P \o c = Append(P \o b, k)
  BY <1>1, AppendIs, AppendPrefix
<1>. HIDE DEF c
<1>3. D!Beyond(P, P \o c) = c
  BY <1>2, ConcatIs
<1>4. D!Beyond(P, Append(t, k)) = c
  BY <1>1, <1>2, <1>3
<1>5. D!Beyond(P, P \o << >>) = << >> /\ P \o << >> = P
  BY ConcatIs, ConcatEmptySeq, EmptySeq
<1>. QED
  BY <1>4, <1>5 DEF b, c

(* A part of a document.                                                    *)
LEMMA PartIs ==
  ASSUME NEW d, NEW p
  PROVE  LET e == D!Part(d, p) IN
         /\ IsMap(e)
         /\ \A q : q \in DOMAIN e <=>
              \E x \in DOMAIN d : IsPrefix(p, x) /\ q = D!Beyond(p, x)
         /\ \A q \in DOMAIN e : e[q] = d[p \o q]
<1>. DEFINE S == {D!Beyond(p, r) : r \in D!Inside(d, p)}
            e == [q \in S |-> d[p \o q]]
<1>1. \A x : x \in D!Inside(d, p) <=> x \in DOMAIN d /\ IsPrefix(p, x)
  BY DEF D!Inside, D!IsPrefix, IsPrefix
<1>2. \A q : q \in S <=> \E x \in DOMAIN d : IsPrefix(p, x) /\ q = D!Beyond(p, x)
  BY <1>1
<1>3. e = D!Part(d, p)
  BY DEF D!Part
<1>. HIDE DEF S
<1>4. IsMap(e) /\ DOMAIN e = S /\ \A q \in S : e[q] = d[p \o q]
  BY DEF IsMap
<1>. HIDE DEF e
<1>. QED
  BY <1>2, <1>3, <1>4

\* Where everything is when v has been copied.
CopyRoot(root, v, to, R) ==
  [u \in Value |-> IF u \in R THEN to[v] ELSE root[u]]

CopyPath(path, v, back, R) ==
  [u \in Value |-> IF u \in R THEN D!Beyond(path[v], path[back[u]]) ELSE path[u]]

(* json_value_deep_copy makes a document of a part of another               *)
(* (parson.c:1341-1418).                                                    *)
LEMMA CopiesPart ==
  ASSUME NEW h, Good(h), NEW v \in Value, h[v].type # "free",
         NEW g, Good(g), NEW to, Copied(h, g, v, to)
  PROVE  \E n \in Value \ DOMAIN AllDocuments(h) :
           D!New(AllDocuments(h), AllDocuments(g), n)
<1>. DEFINE T == Tree(h, v)
            R == {to[w] : w \in T}
            back == [u \in R |-> CHOOSE w \in T : to[w] = u]
<1>0. NULL \notin Value
  BY JsonTreeAssumption
<1>1. /\ v \in T /\ T \subseteq Value
      /\ \A w \in T : Kids(h, w) \subseteq T
      /\ \A w \in T : w = v \/ h[w].parent \in T
      /\ T \subseteq Live(h)
  BY TreeIs
<1>2. /\ \A w \in T : to[w] \in Value /\ h[to[w]].type = "free"
      /\ \A w, x \in T : to[w] = to[x] => w = x
      /\ DOMAIN to = T
  BY DEF Copied, FreeAddresses, Live, IsInjective
<1>3. /\ \A w \in T : g[to[w]] = CopyOf(h, v, to, w)
      /\ \A u \in Value \ R : g[u] = h[u]
  BY DEF Copied
<1>4. /\ R \subseteq Value
      /\ \A u \in R : u = to[back[u]] /\ back[u] \in T
      /\ \A w \in T : to[w] \in R /\ back[to[w]] = w
  BY <1>2
<1>5. \A w \in T : /\ w = v => g[to[w]].parent = NULL
                   /\ w # v => /\ h[w].parent \in T
                               /\ g[to[w]].parent = to[h[w].parent]
                   /\ g[to[w]].type = h[w].type
  <2>1. FreeAddresses(h) \in SUBSET Value
    BY DEF FreeAddresses
  <2>2. to \in [T -> FreeAddresses(h)] /\ IsInjective(to)
    BY DEF Copied
  <2>3. \A w \in T : /\ w = v => CopyOf(h, v, to, w).parent = NULL
                     /\ w # v => /\ h[w].parent \in T
                                 /\ CopyOf(h, v, to, w).parent = to[h[w].parent]
                     /\ CopyOf(h, v, to, w).type = h[w].type
    BY <2>1, <2>2, CopyIs, SMTT(30)
  <2>. QED
    BY <1>3, <2>3
<1>6. \A w \in T : w # v => KeyOf(g, to[w]) = KeyOf(h, w)
  <2>. SUFFICES ASSUME NEW w \in T, w # v
                PROVE  KeyOf(g, to[w]) = KeyOf(h, w)
    OBVIOUS
  <2>. DEFINE p == h[w].parent
  <2>1. p \in T /\ p \in Value /\ w \in Value /\ p # NULL
    BY <1>0, <1>1, <1>5
  <2>2. PICK i \in DOMAIN h[p].values : h[p].values[i] = w
    BY <2>1, HeldIs
  <2>3. /\ KeyOf(h, w) = IF h[p].type = "object" THEN h[p].names[i] ELSE i
    BY <2>1, <2>2, KeyIs
  <2>. DEFINE s == h[p]
              n == g[to[p]]
  <2>4. /\ n.names = s.names /\ n.type = s.type
        /\ n.values = [j \in DOMAIN s.values |-> to[s.values[j]]]
    <3>1. s \in JSON_Value
      BY <2>1, Fields, SMTT(30) DEF Good
    <3>2. n = [s EXCEPT
                 !.parent = IF p = v THEN NULL ELSE to[@],
                 !.values = [j \in DOMAIN @ |-> to[@[j]]],
                 !.capacity = CapacityFor(Len(h[p].values))]
      BY <1>3, <2>1, ZenonT(30) DEF CopyOf
    <3>. HIDE DEF s, n
    <3>. QED
      BY <3>1, <3>2 DEF JSON_Value
  <2>5. i \in DOMAIN n.values /\ n.values[i] = to[w]
    BY <2>2, <2>4
  <2>6. to[p] \in Value
    BY <1>2, <2>1
  <2>7. KeyOf(g, to[w]) = IF n.type = "object" THEN n.names[i] ELSE i
    BY <2>5, <2>6, KeyIs
  <2>. QED
    BY <2>3, <2>4, <2>7
<1>7. PICK root, path : Traced(h, root, path)
  BY TraceExists
<1>. DEFINE root2 == CopyRoot(root, v, to, R)
            path2 == CopyPath(path, v, back, R)
            new == to[v]
            r == root[v]
            P == path[v]
<1>8. T = {w \in Value : root[w] = r /\ IsPrefix(P, path[w])}
  BY <1>7, TraceTree
<1>9. /\ root \in [Value -> Value] /\ path \in [Value -> Seq(Key)]
      /\ \A w \in Value :
           IF h[w].parent = NULL THEN root[w] = w /\ path[w] = << >>
           ELSE /\ root[w] = root[h[w].parent]
                /\ path[w] = Append(path[h[w].parent], KeyOf(h, w))
  BY <1>7 DEF Traced
<1>10. \A w \in T : /\ D!Beyond(P, path[w]) \in Seq(Key)
                    /\ path[w] = P \o D!Beyond(P, path[w])
                    /\ IsPrefix(P, path[w]) /\ root[w] = r
  BY <1>1, <1>8, <1>9, PrefixIs
<1>. HIDE DEF T, R, back
<1>11. /\ root2 \in [Value -> Value] /\ path2 \in [Value -> Seq(Key)]
       /\ \A u \in R : root2[u] = new /\ path2[u] = D!Beyond(P, path[back[u]])
       /\ \A u \in Value \ R : root2[u] = root[u] /\ path2[u] = path[u]
  BY <1>1, <1>2, <1>4, <1>9, <1>10 DEF CopyRoot, CopyPath
<1>. HIDE DEF root2, path2
<1>12. \A w \in T : root2[to[w]] = new /\ path2[to[w]] = D!Beyond(P, path[w])
  <2>. SUFFICES ASSUME NEW w \in T
                PROVE  root2[to[w]] = new /\ path2[to[w]] = D!Beyond(P, path[w])
    OBVIOUS
  <2>1. to[w] \in R /\ back[to[w]] = w
    BY <1>4
  <2>. HIDE DEF new, P
  <2>2. root2[to[w]] = new /\ path2[to[w]] = D!Beyond(P, path[back[to[w]]])
    BY <1>11, <2>1
  <2>. QED
    BY <2>1, <2>2
<1>13. \A u \in R : h[u].parent = NULL /\ h[u].type = "free"
  BY <1>2, <1>4 DEF Good, Nodes, Node
<1>14. ASSUME NEW u \in Value \ R
       PROVE  IF g[u].parent = NULL THEN root2[u] = u /\ path2[u] = << >>
              ELSE /\ root2[u] = root2[g[u].parent]
                   /\ path2[u] = Append(path2[g[u].parent], KeyOf(g, u))
  <2>1. g[u] = h[u]
    BY <1>3
  <2>2. CASE h[u].parent = NULL
    BY <1>9, <1>11, <2>1, <2>2
  <2>3. CASE h[u].parent # NULL
    <3>. DEFINE p == h[u].parent
    <3>1. p \in Value /\ h[p].type \in {"object", "array"}
      BY <2>3, HeldIs
    <3>2. p \notin R
      BY <1>13, <3>1
    <3>3. g[p] = h[p]
      BY <1>3, <3>1, <3>2
    <3>4. KeyOf(g, u) = KeyOf(h, u)
      BY <2>3, <3>3, KeyStays
    <3>5. root[u] = root[p] /\ path[u] = Append(path[p], KeyOf(h, u))
      BY <1>9, <2>3
    <3>6. /\ root2[u] = root[u] /\ path2[u] = path[u]
          /\ root2[p] = root[p] /\ path2[p] = path[p]
      BY <1>11, <3>1, <3>2
    <3>7. g[u].parent = p /\ p # NULL
      BY <2>1, <2>3
    <3>. HIDE DEF p
    <3>. QED
      BY <3>4, <3>5, <3>6, <3>7
  <2>. QED
    BY <2>2, <2>3
<1>15. ASSUME NEW w \in T
       PROVE  IF g[to[w]].parent = NULL
                THEN root2[to[w]] = to[w] /\ path2[to[w]] = << >>
              ELSE /\ root2[to[w]] = root2[g[to[w]].parent]
                   /\ path2[to[w]] = Append(path2[g[to[w]].parent], KeyOf(g, to[w]))
  <2>1. CASE w = v
    <3>1. P \in Seq(Key) /\ 0 \in Key
      BY <1>9 DEF Key
    <3>2. IsPrefix(P, P)
      BY <3>1, PrefixOrder
    <3>3. D!Beyond(P, P) = << >>
      BY <3>1, <3>2, BeyondAppend
    <3>. QED
      BY <1>5, <1>12, <2>1, <3>3
  <2>2. CASE w # v
    <3>. DEFINE p == h[w].parent
                k == KeyOf(h, w)
    <3>1. p \in T /\ g[to[w]].parent = to[p] /\ to[p] # NULL
      BY <1>0, <1>2, <1>5, <2>2
    <3>2. p \in Value /\ w \in Value /\ p # NULL
      BY <1>0, <1>1, <3>1
    <3>3. k \in Key /\ path[w] = Append(path[p], k)
      BY <1>9, <3>2, HeldIs
    <3>4. /\ P \in Seq(Key) /\ path[p] \in Seq(Key) /\ IsPrefix(P, path[p])
      BY <1>9, <1>10, <3>1, <3>2
    <3>. HIDE DEF k
    <3>5. D!Beyond(P, Append(path[p], k)) = Append(D!Beyond(P, path[p]), k)
      BY <3>3, <3>4, BeyondAppend
    <3>6. KeyOf(g, to[w]) = k
      BY <1>6, <2>2 DEF k
    <3>. QED
      BY <1>12, <3>1, <3>3, <3>5, <3>6
  <2>. QED
    BY <2>1, <2>2
<1>16. Traced(g, root2, path2)
  <2>1. ASSUME NEW u \in Value
        PROVE  IF g[u].parent = NULL THEN root2[u] = u /\ path2[u] = << >>
              ELSE /\ root2[u] = root2[g[u].parent]
                   /\ path2[u] = Append(path2[g[u].parent], KeyOf(g, u))
    <3>1. CASE u \in R
      <4>1. PICK w \in T : u = to[w]
        BY <1>4, <3>1
      <4>. QED
        BY <1>15, <4>1
    <3>2. CASE u \notin R
      BY <1>14, <3>2
    <3>. QED
      BY <3>1, <3>2
  <2>. QED
    BY <1>11, <2>1 DEF Traced
<1>17. /\ r \in Value /\ h[r].parent = NULL /\ h[r].type # "free"
       /\ P \in Seq(Key)
  BY <1>1, <1>7, TraceIs DEF Live
<1>18. new \in R /\ new \in Value /\ g[new].parent = NULL /\ g[new].type # "free"
  BY <1>1, <1>4, <1>5
<1>19. new \notin Roots(h) /\ Roots(g) = Roots(h) \cup {new}
  <2>1. /\ Roots(h) = {u \in Value : h[u].type # "free" /\ h[u].parent = NULL}
        /\ Roots(g) = {u \in Value : g[u].type # "free" /\ g[u].parent = NULL}
    BY DocumentsAre
  <2>2. ASSUME NEW u \in R, u # new PROVE g[u].parent # NULL
    BY <1>0, <1>2, <1>4, <1>5, <2>2
  <2>. HIDE DEF new
  <2>3. \A u : u \in Roots(g) <=> u \in Roots(h) \/ u = new
    BY <1>3, <1>4, <1>13, <1>18, <2>1, <2>2
  <2>. QED
    BY <1>13, <1>18, <2>1, <2>3
<1>20. \A u \in Value \ R : root[u] # new
  <2>1. \A u \in Value : root[u] \in Live(h) <=> u \in Live(h)
    BY <1>7, TraceIs
  <2>2. \A u \in Value : u \notin Live(h) => root[u] = u
    BY <1>9 DEF Live, Good, Nodes, Node
  <2>3. new \notin Live(h)
    BY <1>13, <1>18 DEF Live
  <2>. QED
    BY <1>18, <2>1, <2>2, <2>3
<1>21. Document(g, new) = D!Part(Document(h, r), P)
  <2>. DEFINE d == Document(h, r)
              e == Document(g, new)
              c == D!Part(d, P)
  <2>1. /\ IsMap(e)
        /\ \A q : q \in DOMAIN e <=> \E w \in Value : root2[w] = new /\ path2[w] = q
        /\ \A w \in Value : root2[w] = new => e[path2[w]] = g[w].type
    BY <1>16, <1>18, DocumentIs
  <2>2. /\ IsMap(c)
        /\ \A q : q \in DOMAIN c <=>
              \E x \in DOMAIN d : IsPrefix(P, x) /\ q = D!Beyond(P, x)
        /\ \A q \in DOMAIN c : c[q] = d[P \o q]
    BY PartIs
  <2>3. /\ \A q : q \in DOMAIN d <=> \E w \in Value : root[w] = r /\ path[w] = q
        /\ \A w \in Value : root[w] = r => d[path[w]] = h[w].type
    BY <1>7, <1>17, DocumentIs
  <2>. HIDE DEF d, e, c, new, r, P
  <2>4. \A q : q \in DOMAIN e <=> \E w \in T : q = D!Beyond(P, path[w])
    <3>1. \A u \in Value : root2[u] = new <=> u \in R
      BY <1>4, <1>11, <1>20
    <3>. QED
      BY <1>4, <1>12, <2>1, <3>1
  <2>5. \A q : q \in DOMAIN c <=> \E w \in T : q = D!Beyond(P, path[w])
    <3>1. \A x : x \in DOMAIN d /\ IsPrefix(P, x) <=> \E w \in T : x = path[w]
      BY <1>8, <2>3
    <3>. QED
      BY <2>2, <3>1
  <2>6. \A q \in DOMAIN e : e[q] = c[q]
    <3>. SUFFICES ASSUME NEW w \in T
                  PROVE  e[D!Beyond(P, path[w])] = c[D!Beyond(P, path[w])]
      BY <2>4
    <3>. DEFINE q == D!Beyond(P, path[w])
    <3>1. q = path2[to[w]] /\ to[w] \in Value /\ root2[to[w]] = new
      BY <1>2, <1>12
    <3>2. q \in DOMAIN c /\ path[w] = P \o q /\ root[w] = r /\ w \in Value
      BY <1>1, <1>10, <2>5
    <3>. HIDE DEF q
    <3>3. e[q] = h[w].type
      BY <1>5, <2>1, <3>1
    <3>4. c[q] = h[w].type
      BY <2>2, <2>3, <3>2
    <3>. QED
      BY <3>3, <3>4 DEF q
  <2>7. e = c
    BY <2>1, <2>2, <2>4, <2>5, <2>6, SameMap
  <2>. QED
    BY <2>7 DEF d, e, c
<1>22. \A s \in Roots(h) : Document(g, s) = Document(h, s)
  <2>. SUFFICES ASSUME NEW s \in Roots(h) PROVE Document(g, s) = Document(h, s)
    OBVIOUS
  <2>1. s \in Value /\ h[s].parent = NULL /\ h[s].type # "free" /\ s # new
    BY <1>19, DocumentsAre
  <2>2. s \notin R
    BY <1>13, <2>1
  <2>3. g[s].parent = NULL
    BY <1>3, <2>1, <2>2
  <2>4. \A u \in R : root[u] = u
    BY <1>4, <1>9, <1>13
  <2>5. \A w \in Value : root2[w] = s <=> root[w] = s
    BY <1>11, <2>1, <2>2, <2>4
  <2>6. \A w \in Value : root[w] = s => path2[w] = path[w] /\ g[w].type = h[w].type
    <3>1. \A w \in Value : root[w] = s => w \notin R
      BY <2>2, <2>4
    <3>. QED
      BY <1>3, <1>11, <3>1
  <2>. QED
    BY <1>7, <1>16, <2>1, <2>3, <2>5, <2>6, SameDocument
<1>23. P \in DOMAIN Document(h, r)
  BY <1>7, <1>17, DocumentIs
<1>24. r \in Roots(h)
  BY <1>17, DocumentsAre
<1>. HIDE DEF new, r, P
<1>25. LET A == AllDocuments(h)
           B == AllDocuments(g) IN
       /\ new \in Value \ DOMAIN A
       /\ DOMAIN B = DOMAIN A \cup {new}
       /\ D!Only(new, A, B)
       /\ r \in DOMAIN A /\ A[r] = Document(h, r) /\ B[new] = Document(g, new)
  BY <1>18, <1>19, <1>22, <1>24, DocumentsAre DEF D!Only
<1>26. D!New(AllDocuments(h), AllDocuments(g), new)
  BY <1>21, <1>23, <1>25 DEF D!New
<1>. QED
  BY <1>25, <1>26
-----------------------------------------------------------------------------
(* What is put into a container.                                            *)

\* v goes into the container c, where F is released.
Attaches(h, g, c, v, F) ==
  /\ \A w \in F : g[w].type = "free"
  /\ \A w \in Value \ F : w \notin {c, v} => g[w] = h[w]
  /\ g[c].type = h[c].type /\ g[c].parent = h[c].parent
  /\ g[v].type = h[v].type /\ g[v].parent = c
  /\ g[v].names = h[v].names /\ g[v].values = h[v].values

(* Writing a container and a value in it is attaching.                      *)
LEMMA AttachIs ==
  ASSUME NEW h, NEW f, Nodes(f), NEW c \in Value, NEW v \in Value, c # v,
         NEW F, c \notin F, v \notin F,
         \A w \in F : f[w].type = "free", \A w \in Value \ F : f[w] = h[w],
         F \subseteq Value,
         NEW nc, nc.parent = h[c].parent, nc.type = h[c].type,
         NEW g, g = Attached(f, c, nc, v)
  PROVE  Attaches(h, g, c, v, F) /\ g[c] = nc
<1>1. f \in [Value -> JSON_Value] /\ f[v] = h[v] /\ f[v] \in JSON_Value
  BY DEF Nodes
<1>2. With(f, c, nc)[c] = nc /\ DOMAIN With(f, c, nc) = Value
      /\ \A w \in Value : w # c => With(f, c, nc)[w] = f[w]
  BY <1>1 DEF With
<1>3. /\ g[c] = nc /\ g[v] = [f[v] EXCEPT !.parent = c]
      /\ \A w \in Value : w \notin {c, v} => g[w] = f[w]
  BY <1>2 DEF Attached, With
<1>4. /\ g[v].type = f[v].type /\ g[v].parent = c
      /\ g[v].names = f[v].names /\ g[v].values = f[v].values
  BY <1>1, <1>3 DEF JSON_Value
<1>. QED
  BY <1>1, <1>3, <1>4 DEF Attaches

(* What Replaced leaves (parson.c:1556, 1688).                              *)
LEMMA ReplacedIs ==
  ASSUME NEW h, Good(h), NEW c \in Value, NEW i \in DOMAIN h[c].values,
         NEW v \in Value, Takes(h, c, v)
  PROVE  LET g == Replaced(h, c, i, v) IN
         /\ Attaches(h, g, c, v, Tree(h, h[c].values[i]))
         /\ g[c].names = h[c].names
         /\ g[c].values = [h[c].values EXCEPT ![i] = v]
<1>. DEFINE n == h[c]
            old == n.values[i]
            values == [n.values EXCEPT ![i] = v]
            nc == [n EXCEPT !.values = values]
            f == json_value_free(h, old)
            F == Tree(h, old)
            g == Attached(f, c, nc, v)
<1>0. NULL \notin Value
  BY JsonTreeAssumption
<1>1. old \in Value /\ old \in Kids(h, c)
  BY ItemIs
<1>2. /\ Nodes(f) /\ f[c] = n /\ c \notin F /\ F \subseteq Value
      /\ \A w \in F : h[w].parent \in F \cup {c}
      /\ \A w \in Value \ F : f[w] = h[w]
  BY <1>1, FreedIs
<1>3. v # c /\ v \notin F
  BY <1>0, <1>2, TreeIs DEF Takes
<1>4. Replaced(h, c, i, v) = g
  BY <1>2, <1>3 DEF Replaced, Attached, With, Nodes, JSON_Value
<1>5. \A w \in F : f[w].type = "free"
  BY <1>2 DEF json_value_free, NewValue
<1>6. n \in JSON_Value
  BY Fields DEF Good
<1>. HIDE DEF f, F, values, n, old
<1>7. /\ nc.type = n.type /\ nc.parent = n.parent
      /\ nc.names = n.names /\ nc.values = values
  BY <1>6 DEF JSON_Value
<1>. HIDE DEF nc
<1>8. Attaches(h, g, c, v, F) /\ g[c] = nc
  <2>1. nc.type = h[c].type /\ nc.parent = h[c].parent
    BY <1>7 DEF n
  <2>. HIDE DEF g
  <2>2. g = Attached(f, c, nc, v)
    BY DEF g
  <2>. QED
    BY <1>2, <1>3, <1>5, <2>1, <2>2, AttachIs
<1>. HIDE DEF g
<1>. QED
  BY <1>4, <1>7, <1>8 DEF n, values, F, old

(* What json_object_add leaves where there is no such name                  *)
(* (parson.c:347-366).                                                      *)
LEMMA AddIs ==
  ASSUME NEW h, Good(h), NEW o \in Value, h[o].type = "object",
         NEW name \in Name, NEW v \in Value, Takes(h, o, v),
         json_object_get_value(h, o, name) = NULL
  PROVE  LET r == json_object_add(h, o, name, v)
             g == r.heap IN
         /\ r.ret = "JSONSuccess" /\ Good(g)
         /\ Attaches(h, g, o, v, {})
         /\ g[o].names = Append(h[o].names, name)
         /\ g[o].values = Append(h[o].values, v)
<1>. DEFINE r == json_object_add(h, o, name, v)
            n == h[o]
            names == Append(n.names, name)
            values == Append(n.values, v)
            capacity == Grown(Len(n.values), n.capacity)
            nc == [n EXCEPT !.names = names, !.values = values,
                            !.capacity = capacity]
            g == Attached(h, o, nc, v)
<1>1. Nodes(h) /\ o # v
  BY TreeIs DEF Good, Takes
<1>2. r = Success(g)
  <2>1. h \in [Value -> JSON_Value]
    BY <1>1 DEF Nodes
  <2>2. [h EXCEPT ![o].names = Append(@, name),
                  ![o].values = Append(@, v),
                  ![o].capacity = Grown(Len(h[o].values), h[o].capacity),
                  ![v].parent = o] = g
    BY <1>1, <2>1 DEF JSON_Value, Attached, With
  <2>. QED
    BY <2>2 DEF json_object_add
<1>3. r.heap = g /\ r.ret = "JSONSuccess"
  <2>. HIDE DEF r, g
  <2>. QED
    BY <1>2 DEF Success
<1>4. Good(r.heap)
  <2>. HIDE DEF r, g
  <2>1. r = json_object_add(h, o, name, v)
    BY DEF r
  <2>. QED
    BY <1>3, <2>1, AddGood DEF Failure
<1>5. n \in JSON_Value
  BY Fields DEF Good
<1>. HIDE DEF names, values, capacity, n
<1>6. /\ nc.type = n.type /\ nc.parent = n.parent
      /\ nc.names = names /\ nc.values = values
  BY <1>5 DEF JSON_Value
<1>. HIDE DEF nc, r
<1>7. Attaches(h, g, o, v, {}) /\ g[o] = nc
  <2>1. nc.type = h[o].type /\ nc.parent = h[o].parent
    BY <1>6 DEF n
  <2>. HIDE DEF g
  <2>2. g = Attached(h, o, nc, v)
    BY DEF g
  <2>. QED
    BY <1>1, <2>1, <2>2, AttachIs
<1>. HIDE DEF g
<1>. QED
  BY <1>3, <1>4, <1>6, <1>7 DEF r, names, values, n

(* What json_array_append_value leaves (parson.c:440, 1626).                *)
LEMMA ArrayAppendIs ==
  ASSUME NEW h, Good(h), NEW a \in Value, h[a].type = "array",
         NEW v \in Value, Takes(h, a, v)
  PROVE  LET r == json_array_append_value(h, a, v)
             g == r.heap IN
         /\ r.ret = "JSONSuccess" /\ Good(g)
         /\ Attaches(h, g, a, v, {})
         /\ g[a].values = Append(h[a].values, v)
<1>. DEFINE r == json_array_append_value(h, a, v)
            n == h[a]
            values == Append(n.values, v)
            capacity == Grown(Len(n.values), n.capacity)
            nc == [n EXCEPT !.values = values, !.capacity = capacity]
            g == Attached(h, a, nc, v)
<1>1. Nodes(h) /\ a # v /\ MayHold(h, a, v)
  BY TreeIs DEF Good, Takes, MayHold
<1>2. r = Success(g)
  <2>1. h \in [Value -> JSON_Value]
    BY <1>1 DEF Nodes
  <2>2. [h EXCEPT ![a].values = Append(@, v),
                  ![a].capacity = Grown(Len(h[a].values), h[a].capacity),
                  ![v].parent = a] = g
    BY <1>1, <2>1 DEF JSON_Value, Attached, With
  <2>. QED
    BY <2>2 DEF json_array_append_value, Takes
<1>3. r.heap = g /\ r.ret = "JSONSuccess"
  <2>. HIDE DEF r, g
  <2>. QED
    BY <1>2 DEF Success
<1>4. Good(r.heap)
  BY <1>1, ArrayAppendGood
<1>5. n \in JSON_Value
  BY Fields DEF Good
<1>. HIDE DEF values, capacity, n
<1>6. nc.type = n.type /\ nc.parent = n.parent /\ nc.values = values
  BY <1>5 DEF JSON_Value
<1>. HIDE DEF nc, r
<1>7. Attaches(h, g, a, v, {}) /\ g[a] = nc
  <2>1. nc.type = h[a].type /\ nc.parent = h[a].parent
    BY <1>6 DEF n
  <2>. HIDE DEF g
  <2>2. g = Attached(h, a, nc, v)
    BY DEF g
  <2>. QED
    BY <1>1, <2>1, <2>2, AttachIs
<1>. HIDE DEF g
<1>. QED
  BY <1>3, <1>4, <1>6, <1>7 DEF r, values, n

(* A value that is attached is put where its key says, if the others in     *)
(* the container keep theirs.                                               *)
LEMMA AttachPuts ==
  ASSUME NEW h, Good(h), NEW g, Good(g), NEW c \in Value, h[c].type # "free",
         NEW v \in Value, Takes(h, c, v), NEW k, KeyOf(g, v) = k,
         NEW F, F \subseteq Value, v \notin F, c \notin F, Attaches(h, g, c, v, F),
         \A w \in Value : h[w].parent \in F => w \in F,
         \A w \in Kids(h, c) \ F : KeyOf(g, w) = KeyOf(h, w)
  PROVE  Puts(h, g, c, k, v, F)
<1>0. c # v
  BY TreeIs DEF Takes
<1>1. ASSUME NEW w \in Value \ F, w # v, h[w].parent # NULL
      PROVE  KeyOf(g, w) = KeyOf(h, w)
  <2>. DEFINE p == h[w].parent
  <2>1. p \in Value /\ p \notin F
    BY <1>1, HeldIs
  <2>2. CASE p = c
    <3>1. w \in Kids(h, c)
      BY <2>2 DEF Good, Linked
    <3>. QED
      BY <1>1, <3>1
  <2>3. CASE p # c
    <3>1. /\ g[p].type = h[p].type /\ g[p].names = h[p].names
          /\ g[p].values = h[p].values
      BY <2>1, <2>3 DEF Attaches
    <3>. QED
      BY <1>1, <3>1, KeyStays
  <2>. QED
    BY <2>2, <2>3
<1>2. /\ h[c].type # "free" /\ h[v].type # "free" /\ h[v].parent = NULL
      /\ \A w \in F : g[w].type = "free"
      /\ \A w \in Value \ F : g[w].type = h[w].type
      /\ \A w \in Value \ F : w # v => g[w].parent = h[w].parent
      /\ g[v].parent = c
  BY <1>0 DEF Attaches, Takes
<1>. QED
  BY <1>1, <1>2 DEF Puts

(* What is under a key of a container: nothing if it holds nothing there,   *)
(* or what it holds there reaches.                                          *)
LEMMA UnderIs ==
  ASSUME NEW h, Good(h), NEW root, NEW path, Traced(h, root, path),
         NEW c \in Value, NEW k \in Key
  PROVE  LET F == Under(root, path, root[c], Append(path[c], k)) IN
         /\ (\A w \in Kids(h, c) : KeyOf(h, w) # k) => F = {}
         /\ \A w \in Kids(h, c) : KeyOf(h, w) = k => F = Tree(h, w)
<1>. DEFINE r == root[c]
            P == path[c]
            Q == Append(P, k)
            F == Under(root, path, r, Q)
<1>0. NULL \notin Value
  BY JsonTreeAssumption
<1>1. \A w : w \in F <=> w \in Value /\ root[w] = r /\ IsPrefix(Q, path[w])
  BY DEF Under
<1>2. /\ P \in Seq(Key) /\ Q \in Seq(Key) /\ Q # << >>
      /\ \A w \in Value : path[w] \in Seq(Key)
  BY AppendIs DEF Traced
<1>3. \A w \in Kids(h, c) : /\ w \in Value /\ h[w].parent = c
                            /\ root[w] = r /\ path[w] = Append(P, KeyOf(h, w))
  BY <1>0, Fields DEF Good, Linked, Traced
<1>4. ASSUME NEW w \in Kids(h, c), KeyOf(h, w) = k
      PROVE  F = Tree(h, w)
  <2>1. Tree(h, w) = {x \in Value : root[x] = root[w] /\ IsPrefix(path[w], path[x])}
    BY <1>3, TraceTree
  <2>2. root[w] = r /\ path[w] = Q
    BY <1>3, <1>4
  <2>. QED
    BY <1>1, <2>1, <2>2
<1>5. ASSUME NEW w \in F PROVE \E x \in Kids(h, c) : KeyOf(h, x) = k
  <2>1. w \in Value /\ root[w] = r /\ IsPrefix(Q, path[w])
    BY <1>1
  <2>2. PICK u \in Value : root[u] = r /\ path[u] = Q
    <3>1. CASE path[w] = Q
      BY <2>1, <3>1
    <3>2. CASE path[w] # Q
      <4>0. 0 \in Key
        BY DEF Key
      <4>1. Q \in D!Above(path[w])
        BY <1>2, <2>1, <3>2, <4>0, AboveIs
      <4>. HIDE DEF Q
      <4>2. \E u \in Value : root[u] = root[w] /\ path[u] = Q
        BY <2>1, <4>1, OnTheWay, SMTT(30)
      <4>. QED
        BY <2>1, <4>2
    <3>. QED
      BY <3>1, <3>2
  <2>3. h[u].parent # NULL
    BY <1>2, <2>2, TraceIs
  <2>4. h[u].parent \in Value /\ KeyOf(h, u) \in Key
    BY <2>3, HeldIs
  <2>5. /\ root[h[u].parent] = r
        /\ Append(path[h[u].parent], KeyOf(h, u)) = Append(P, k)
        /\ path[h[u].parent] \in Seq(Key)
    BY <2>2, <2>3, <2>4 DEF Traced
  <2>. DEFINE t == path[h[u].parent]
              l == KeyOf(h, u)
  <2>6. t = P /\ l = k
    <3>1. t \in Seq(Key) /\ l \in Key /\ P \in Seq(Key) /\ Append(t, l) = Append(P, k)
      BY <1>2, <2>4, <2>5
    <3>. HIDE DEF t, l, P
    <3>. QED
      BY <3>1, AppendInjective
  <2>. HIDE DEF P
  <2>7. h[u].parent = c
    BY <2>4, <2>5, <2>6, TraceIsInjective DEF P
  <2>8. u \in Kids(h, c)
    BY <2>7 DEF Good, Linked
  <2>. QED
    BY <2>6, <2>8
<1>6. (\A w \in Kids(h, c) : KeyOf(h, w) # k) => F = {}
  BY <1>5
<1>. QED
  BY <1>4, <1>6

(* A document is not a part of itself.                                      *)
LEMMA TakesApart ==
  ASSUME NEW h, Good(h), NEW root, NEW path, Traced(h, root, path),
         NEW c \in Value, NEW v \in Value, Takes(h, c, v)
  PROVE  root[c] # v /\ c # v
<1>1. Tree(h, v) = {w \in Value : root[w] = v}
  BY TraceTree DEF Takes
<1>2. v \in Tree(h, v)
  BY TreeIs
<1>. QED
  BY <1>1, <1>2 DEF Takes

(* Replaced puts a value where another was.                                 *)
LEMMA ReplacePuts ==
  ASSUME NEW h, Good(h), NEW root, NEW path, Traced(h, root, path),
         NEW c \in Value, NEW i \in DOMAIN h[c].values,
         NEW v \in Value, Takes(h, c, v), NEW k, KeyOf(h, h[c].values[i]) = k,
         NEW g, g = Replaced(h, c, i, v)
  PROVE  /\ Good(g) /\ k \in Key
         /\ Puts(h, g, c, k, v, Under(root, path, root[c], Append(path[c], k)))
<1>. DEFINE old == h[c].values[i]
            F == Tree(h, old)
<1>0. NULL \notin Value
  BY JsonTreeAssumption
<1>1. Good(g)
  BY ReplacedGood
<1>2. /\ Attaches(h, g, c, v, F)
      /\ g[c].names = h[c].names
      /\ g[c].values = [h[c].values EXCEPT ![i] = v]
  BY ReplacedIs
<1>3. /\ old \in Kids(h, c) /\ old \in Value /\ h[old].parent = c /\ k \in Key
      /\ h[c].type \in {"object", "array"}
      /\ k = IF h[c].type = "object" THEN h[c].names[i] ELSE i
  BY KeyIs DEF Kids, ToSet
<1>4. /\ c \notin F /\ F \subseteq Value
      /\ \A w \in Value : h[w].parent \in F => w \in F
      /\ \A w \in F : h[w].parent \in F \cup {c}
      /\ old \in F
  BY <1>3, TreeIs
<1>5. c # v /\ v \notin F
  BY <1>0, <1>4, TakesApart DEF Takes
<1>6. /\ i \in DOMAIN g[c].values /\ g[c].values[i] = v
      /\ \A j \in DOMAIN h[c].values : /\ j \in DOMAIN g[c].values
                                       /\ j # i => g[c].values[j] = h[c].values[j]
  BY <1>2
<1>. HIDE DEF F
<1>7. KeyOf(g, v) = k
  <2>1. g[c].type = h[c].type
    BY <1>2 DEF Attaches
  <2>. QED
    BY <1>1, <1>2, <1>3, <1>6, <2>1, KeyIs
<1>8. ASSUME NEW w \in Kids(h, c) \ F PROVE KeyOf(g, w) = KeyOf(h, w)
  <2>1. PICK j \in DOMAIN h[c].values : h[c].values[j] = w
    BY DEF Kids, ToSet
  <2>2. j # i /\ w \in Value
    BY <1>4, <2>1, Fields DEF Good
  <2>3. g[c].type = h[c].type
    BY <1>2 DEF Attaches
  <2>. QED
    BY <1>1, <1>2, <1>6, <2>1, <2>2, <2>3, KeyKept
<1>9. Puts(h, g, c, k, v, F)
  <2>1. h[c].type # "free"
    BY <1>3
  <2>. QED
    BY <1>1, <1>2, <1>4, <1>5, <1>7, <1>8, <2>1, AttachPuts
<1>10. Under(root, path, root[c], Append(path[c], k)) = F
  BY <1>3, UnderIs DEF F
<1>. QED
  BY <1>1, <1>3, <1>9, <1>10

(* json_object_set_value puts a value that has no parent into the object    *)
(* (parson.c:1681).                                                         *)
LEMMA ObjectPuts ==
  ASSUME NEW h, Good(h), NEW root, NEW path, Traced(h, root, path),
         NEW o \in Value, h[o].type = "object", NEW name \in Name,
         NEW v \in Value, Takes(h, o, v),
         NEW r, r = json_object_set_value(h, o, name, v)
  PROVE  /\ r.ret = "JSONSuccess" /\ Good(r.heap)
         /\ Puts(h, r.heap, o, name, v,
                 Under(root, path, root[o], Append(path[o], name)))
<1>. DEFINE i == Index(h, o, name)
            g == r.heap
<1>0. Nodes(h) /\ h[v].parent = NULL
  BY DEF Good, Takes
<1>1. CASE i # 0
  <2>1. i \in DOMAIN h[o].values /\ i \in DOMAIN h[o].names /\ h[o].names[i] = name
    BY <1>0, <1>1, GetIs, IndexIs
  <2>2. r = Success(Replaced(h, o, i, v))
    BY <1>0, <1>1 DEF json_object_set_value
  <2>. HIDE DEF i
  <2>3. r.ret = "JSONSuccess" /\ r.heap = Replaced(h, o, i, v)
    BY <2>2 DEF Success
  <2>4. KeyOf(h, h[o].values[i]) = name
    BY <2>1, KeyIs
  <2>. QED
    BY <2>1, <2>3, <2>4, ReplacePuts
<1>2. CASE i = 0
  <2>1. r = json_object_add(h, o, name, v)
    BY <1>0, <1>2 DEF json_object_set_value
  <2>2. json_object_get_value(h, o, name) = NULL /\ name \notin ToSet(h[o].names)
    BY <1>0, <1>2, GetIs
  <2>3. /\ r.ret = "JSONSuccess" /\ Good(g)
        /\ Attaches(h, g, o, v, {})
        /\ g[o].names = Append(h[o].names, name)
        /\ g[o].values = Append(h[o].values, v)
    BY <2>1, <2>2, AddIs, SMTT(30)
  <2>. HIDE DEF g, i
  <2>. DEFINE n == Len(h[o].values)
  <2>4. /\ h[o].names \in Seq(Name) /\ h[o].values \in Seq(Value)
        /\ Len(h[o].names) = n
        /\ n \in Nat /\ DOMAIN h[o].values = 1 .. n /\ DOMAIN h[o].names = 1 .. n
    BY <1>0, Fields, LenProperties DEF Nodes, Node
  <2>5. /\ DOMAIN g[o].values = 1 .. n + 1
        /\ g[o].values[n + 1] = v /\ g[o].names[n + 1] = name
        /\ \A j \in 1 .. n : /\ g[o].values[j] = h[o].values[j]
                             /\ g[o].names[j] = h[o].names[j]
    BY <2>3, <2>4, AppendProperties, LenProperties
  <2>. HIDE DEF n
  <2>6. g[o].type = "object" /\ o # v /\ Good(g)
    BY <2>3, TakesApart DEF Attaches
  <2>7. KeyOf(g, v) = name
    <3>1. n + 1 \in DOMAIN g[o].values /\ g[o].values[n + 1] = v
      BY <2>4, <2>5
    <3>2. KeyOf(g, g[o].values[n + 1]) = g[o].names[n + 1]
      BY <2>6, <3>1, KeyIs
    <3>. QED
      BY <2>5, <3>1, <3>2
  <2>8. ASSUME NEW w \in Kids(h, o)
        PROVE  KeyOf(g, w) = KeyOf(h, w) /\ KeyOf(h, w) # name
    <3>1. PICK j \in DOMAIN h[o].values : h[o].values[j] = w
      BY DEF Kids, ToSet
    <3>2. w \in Value
      BY <1>0, Fields
    <3>3. /\ j \in DOMAIN g[o].values /\ g[o].values[j] = w
          /\ h[o].names[j] = g[o].names[j]
      BY <2>4, <2>5, <3>1
    <3>4. KeyOf(g, w) = KeyOf(h, w)
      BY <2>6, <3>1, <3>2, <3>3, KeyKept
    <3>5. KeyOf(h, w) = h[o].names[j]
      BY <3>1, KeyIs
    <3>6. h[o].names[j] \in ToSet(h[o].names)
      BY <2>4, <3>1 DEF ToSet
    <3>. QED
      BY <2>2, <3>4, <3>5, <3>6
  <2>9. Puts(h, g, o, name, v, {})
    BY <2>3, <2>6, <2>7, <2>8, AttachPuts
  <2>10. Under(root, path, root[o], Append(path[o], name)) = {}
    BY <2>8, UnderIs DEF Key
  <2>. QED
    BY <2>3, <2>9, <2>10 DEF g
<1>. QED
  BY <1>1, <1>2

(* json_array_append_value puts a value that has no parent into the array   *)
(* (parson.c:440, 1626).                                                    *)
LEMMA ArrayPuts ==
  ASSUME NEW h, Good(h), NEW root, NEW path, Traced(h, root, path),
         NEW a \in Value, h[a].type = "array", NEW v \in Value, Takes(h, a, v),
         NEW k, k = Len(h[a].values) + 1,
         NEW r, r = json_array_append_value(h, a, v)
  PROVE  /\ Good(r.heap) /\ k \in Nat /\ k # 0
         /\ Puts(h, r.heap, a, k, v,
                 Under(root, path, root[a], Append(path[a], k)))
<1>. DEFINE n == Len(h[a].values)
            g == r.heap
<1>1. /\ Good(g)
      /\ Attaches(h, g, a, v, {})
      /\ g[a].values = Append(h[a].values, v)
  BY ArrayAppendIs
<1>. HIDE DEF g
<1>2. /\ h[a].values \in Seq(Value)
      /\ n \in Nat /\ DOMAIN h[a].values = 1 .. n
  BY Fields, LenProperties DEF Good
<1>3. /\ DOMAIN g[a].values = 1 .. n + 1
      /\ g[a].values[n + 1] = v
      /\ \A j \in 1 .. n : g[a].values[j] = h[a].values[j]
  BY <1>1, <1>2, AppendProperties, LenProperties
<1>. HIDE DEF n
<1>4. g[a].type = "array" /\ a # v
  BY <1>1, TakesApart DEF Attaches
<1>5. k = n + 1 /\ k \in Nat /\ k # 0
  BY <1>2 DEF n
<1>6. KeyOf(g, v) = k
  <2>1. k \in DOMAIN g[a].values /\ g[a].values[k] = v
    BY <1>2, <1>3, <1>5
  <2>. QED
    BY <1>1, <1>4, <2>1, KeyIs
<1>7. ASSUME NEW w \in Kids(h, a)
      PROVE  KeyOf(g, w) = KeyOf(h, w) /\ KeyOf(h, w) # k
  <2>1. PICK j \in DOMAIN h[a].values : h[a].values[j] = w
    BY DEF Kids, ToSet
  <2>2. w \in Value
    BY Fields DEF Good
  <2>3. j \in DOMAIN g[a].values /\ j # k /\ g[a].values[j] = w
    BY <1>2, <1>3, <1>5, <2>1
  <2>4. KeyOf(g, w) = KeyOf(h, w)
    BY <1>1, <1>4, <2>1, <2>2, <2>3, KeyKept
  <2>5. KeyOf(h, w) = j
    BY <2>1, KeyIs
  <2>. QED
    BY <2>3, <2>4, <2>5
<1>8. Puts(h, g, a, k, v, {})
  BY <1>1, <1>4, <1>6, <1>7, AttachPuts
<1>9. Under(root, path, root[a], Append(path[a], k)) = {}
  BY <1>5, <1>7, UnderIs, ZenonT(30) DEF Key
<1>. QED
  BY <1>1, <1>5, <1>8, <1>9 DEF g

(* A place in a container c, which may be a new one.                        *)
Place(h, c, k) ==
  \/ k \in Name /\ h[c].type = "object"
  \/ k \in 1 .. Len(h[c].values) + 1 /\ h[c].type = "array"

\* All that is above p is there and is what it has to be.
Leads(d, p) ==
  \A q \in D!Above(p) :
    q \in DOMAIN d /\ d[q] = IF p[Len(q) + 1] \in Name THEN "object" ELSE "array"

(* What is on the way to a place in a container is there and is what it     *)
(* has to be.                                                               *)
LEMMA WayIs ==
  ASSUME NEW h, Good(h), NEW root, NEW path, Traced(h, root, path),
         NEW c \in Value, NEW k, Place(h, c, k)
  PROVE  LET d == Document(h, root[c])
             p == Append(path[c], k) IN
         /\ k \in Key /\ path[c] \in Seq(Key) /\ p \in Seq(Key)
         /\ root[c] \in Value /\ h[root[c]].parent = NULL
         /\ path[c] \in DOMAIN d /\ IsMap(d) /\ Leads(d, p)
<1>. DEFINE d == Document(h, root[c])
            P == path[c]
            p == Append(P, k)
<1>1. /\ P \in Seq(Key)
      /\ root[c] \in Value /\ h[root[c]].parent = NULL
  BY TraceIs
<1>2. k \in Key /\ (k \in Name <=> h[c].type = "object")
      /\ h[c].type \in {"object", "array"}
  <2>1. Len(h[c].values) \in Nat
    BY Fields, LenProperties DEF Good
  <2>. QED
    BY <2>1, JsonTreeAssumption DEF Place, Key
<1>3. p \in Seq(Key)
  BY <1>1, <1>2, AppendIs
<1>4. /\ IsMap(d)
      /\ \A q : q \in DOMAIN d <=> \E w \in Value : root[w] = root[c] /\ path[w] = q
      /\ \A w \in Value : root[w] = root[c] => d[path[w]] = h[w].type
  BY <1>1, DocumentIs
<1>. HIDE DEF d
<1>5. ASSUME NEW q \in D!Above(p)
      PROVE  q \in DOMAIN d /\ d[q] = IF p[Len(q) + 1] \in Name THEN "object" ELSE "array"
  <2>1. D!Above(p) = D!Above(P) \cup {P}
    BY <1>1, <1>2, AboveIs
  <2>2. CASE q = P
    <3>1. p[Len(q) + 1] = k
      BY <1>1, <1>2, <2>2, AppendIs
    <3>. QED
      BY <1>2, <1>4, <2>2, <3>1
  <2>3. CASE q \in D!Above(P)
    <3>1. PICK u \in Value :
             /\ root[u] = root[c] /\ path[u] = q
             /\ h[u].type = IF P[Len(q) + 1] \in Name THEN "object" ELSE "array"
      BY <2>3, OnTheWay
    <3>2. q \in Seq(Key) /\ Len(q) \in Nat /\ Len(P) \in Nat /\ Len(q) < Len(P)
      BY <1>1, <1>2, <2>3, AboveIs, LenProperties
    <3>3. Len(q) + 1 \in 1 .. Len(P)
      BY <3>2
    <3>4. p[Len(q) + 1] = P[Len(q) + 1]
      BY <1>1, <1>2, <3>3, AppendProperties
    <3>. QED
      BY <1>4, <3>1, <3>4
  <2>. QED
    BY <2>1, <2>2, <2>3
<1>6. P \in DOMAIN d
  BY <1>4
<1>. QED
  BY <1>1, <1>2, <1>3, <1>4, <1>5, <1>6 DEF d, Leads

(* A place in a container is one in its document.                           *)
LEMMA FitsIs ==
  ASSUME NEW h, Good(h), NEW root, NEW path, Traced(h, root, path),
         NEW c \in Value, NEW k, Place(h, c, k)
  PROVE  D!Fits(Document(h, root[c]), Append(path[c], k))
<1>. DEFINE d == Document(h, root[c])
            P == path[c]
            p == Append(P, k)
<1>1. /\ k \in Key /\ P \in Seq(Key) /\ p \in Seq(Key)
      /\ root[c] \in Value /\ h[root[c]].parent = NULL
      /\ P \in DOMAIN d /\ Leads(d, p)
  BY WayIs
<1>2. p # << >> /\ D!Front(p) = P /\ D!Last(p) = k
  BY <1>1, AppendIs DEF D!Front, Front, D!Last, Last
<1>3. ASSUME k \notin Name, k > 1 PROVE Append(P, k - 1) \in DOMAIN d
  <2>1. k \in 1 .. Len(h[c].values) + 1 /\ h[c].type = "array"
    BY <1>3 DEF Place
  <2>2. /\ Len(h[c].values) \in Nat
        /\ DOMAIN h[c].values = 1 .. Len(h[c].values)
    BY Fields, LenProperties DEF Good
  <2>. DEFINE i == k - 1
              w == h[c].values[i]
  <2>3. i \in DOMAIN h[c].values
    BY <1>3, <2>1, <2>2
  <2>. HIDE DEF i
  <2>4. w \in Value /\ h[w].parent = c /\ KeyOf(h, w) = i
    BY <2>1, <2>3, KeyIs
  <2>5. root[w] = root[c] /\ path[w] = Append(P, i)
    BY <2>4, JsonTreeAssumption DEF Traced
  <2>6. path[w] \in DOMAIN d
    <3>1. \A q : q \in DOMAIN d <=> \E x \in Value : root[x] = root[c] /\ path[x] = q
      BY <1>1, DocumentIs
    <3>. HIDE DEF d
    <3>. QED
      BY <2>4, <2>5, <3>1
  <2>. QED
    BY <2>5, <2>6 DEF i
<1>. HIDE DEF d, P, p
<1>4. D!Fits(d, p)
  BY <1>1, <1>2, <1>3 DEF Leads, D!Fits, D!Root
<1>. QED
  BY <1>4 DEF d, P, p

(* Nothing has to be made where all that leads to a place is there.         *)
LEMMA HierarchyIs ==
  ASSUME NEW d, IsMap(d), NEW p, D!Above(p) \subseteq DOMAIN d
  PROVE  D!Hierarchy(d, p) = d
<1>. DEFINE e == D!Hierarchy(d, p)
<1>1. e = [q \in DOMAIN d \cup D!Above(p) |-> IF q \in DOMAIN d THEN d[q] ELSE "object"]
  BY DEF D!Hierarchy
<1>. HIDE DEF e
<1>2. /\ IsMap(e) /\ \A q : q \in DOMAIN e <=> q \in DOMAIN d
      /\ \A q \in DOMAIN e : e[q] = d[q]
  BY <1>1 DEF IsMap
<1>3. e = d
  BY <1>2, SameMap
<1>. QED
  BY <1>3 DEF e

(* Grafted is Placed where what leads there is made first.                  *)
LEMMA GraftedIs ==
  ASSUME NEW d, NEW p, NEW e
  PROVE  D!Grafted(d, p, e) = Placed(D!Hierarchy(d, p), p, e)
BY DEF D!Grafted, Placed

(* No container holds as many values as there are addresses, if one of them *)
(* is elsewhere.                                                            *)
LEMMA ItemsFit ==
  ASSUME NEW h, Good(h), NEW c \in Value, NEW v \in Value, v \notin Kids(h, c)
  PROVE  Len(h[c].values) + 1 \in 1 .. Cardinality(Value)
<1>. DEFINE s == h[c].values
            n == Len(s)
            T == Value \ {v}
<1>1. /\ s \in Seq(Value) /\ IsInjective(s)
      /\ n \in Nat /\ s \in [1 .. n -> Value]
  BY Fields, LenProperties DEF Good, Nodes, Node
<1>2. \A i \in 1 .. n : s[i] # v
  BY <1>1 DEF Kids, ToSet
<1>. HIDE DEF s, n
<1>3. s \in [1 .. n -> T]
  BY <1>1, <1>2
<1>4. s \in Injection(1 .. n, T)
  BY <1>1, <1>3 DEF Injection, IsInjective
<1>5. /\ IsFiniteSet(T) /\ IsFiniteSet(Value)
      /\ Cardinality(T) = Cardinality(Value) - 1
  BY JsonTreeAssumption, FS_RemoveElement
<1>6. Cardinality(1 .. n) = n
  BY <1>1, FS_Interval
<1>7. Cardinality(1 .. n) <= Cardinality(T)
  <2>. HIDE DEF T
  <2>. QED
    BY <1>4, <1>5, FS_Injection
<1>8. Cardinality(Value) \in Nat
  BY <1>5, FS_CardinalityType
<1>. QED
  BY <1>1, <1>5, <1>6, <1>7, <1>8 DEF n, s

(* A call may name such a place.                                            *)
LEMMA PlaceIsPath ==
  ASSUME NEW h, Good(h), NEW c \in Value, NEW v \in Value, v \notin Kids(h, c),
         NEW k, Place(h, c, k)
  PROVE  <<k>> \in Dotted \cup {<<i>> : i \in 1 .. Cardinality(Value)}
<1>1. CASE k \in Name
  BY <1>1 DEF Dotted
<1>2. CASE k \in 1 .. Len(h[c].values) + 1
  <2>1. Len(h[c].values) + 1 \in 1 .. Cardinality(Value)
    BY ItemsFit
  <2>2. Cardinality(Value) \in Nat
    BY JsonTreeAssumption, FS_CardinalityType
  <2>3. k \in 1 .. Cardinality(Value)
    BY <1>2, <2>1, <2>2
  <2>. QED
    BY <2>3
<1>. QED
  BY <1>1, <1>2 DEF Place

(* A value that is put into a container makes its document a part of        *)
(* another.                                                                 *)
LEMMA PutsPart ==
  ASSUME NEW h, Good(h), NEW root, NEW path, Traced(h, root, path),
         NEW g, Good(g), NEW c \in Value, NEW v \in Value, Takes(h, c, v),
         NEW k, Place(h, c, k),
         Puts(h, g, c, k, v, Under(root, path, root[c], Append(path[c], k)))
  PROVE  /\ root[c] \in DOMAIN AllDocuments(h)
         /\ D!Put(AllDocuments(h), AllDocuments(g), root[c], v)
<1>. DEFINE d == Document(h, root[c])
            P == path[c]
            p == Append(P, k)
            A == AllDocuments(h)
            B == AllDocuments(g)
<1>1. /\ k \in Key /\ P \in Seq(Key)
      /\ P \in DOMAIN d /\ IsMap(d)
      /\ Leads(d, p)
  BY WayIs
<1>2. root[c] # v
  BY TakesApart
<1>3. /\ root[c] \in DOMAIN A /\ v \in DOMAIN A
      /\ DOMAIN B = DOMAIN A \ {v}
      /\ D!Only(root[c], A, B)
      /\ B[root[c]] = Placed(A[root[c]], p, A[v])
  <2>0. PICK F : F = Under(root, path, root[c], Append(path[c], k))
    OBVIOUS
  <2>1. k \in Key /\ Puts(h, g, c, k, v, F)
    BY <1>1, <2>0
  <2>2. LET x == AllDocuments(h)
            y == AllDocuments(g)
            r == root[c] IN
        /\ r \in DOMAIN x /\ v \in DOMAIN x
        /\ DOMAIN y = DOMAIN x \ {v}
        /\ D!Only(r, x, y)
        /\ y[r] = Placed(x[r], Append(path[c], k), x[v])
    BY <1>2, <2>0, <2>1, PutDocuments
  <2>. QED
    BY <2>2
<1>4. A[root[c]] = d
  BY <1>3, DocumentsAre
<1>5. D!Fits(d, p)
  BY FitsIs
<1>6. D!Grafted(d, p, A[v]) = Placed(d, p, A[v])
  <2>1. D!Above(p) \subseteq DOMAIN d
    BY <1>1 DEF Leads
  <2>. QED
    BY <1>1, <2>1, HierarchyIs, GraftedIs
<1>7. p = P \o <<k>>
  BY <1>1, AppendIsConcat
<1>8. <<k>> \in Dotted \cup {<<i>> : i \in 1 .. Cardinality(Value)}
  <2>1. v \notin Kids(h, c)
    BY JsonTreeAssumption DEF Takes, Good, Linked
  <2>. QED
    BY <2>1, PlaceIsPath
<1>. HIDE DEF d, P, p, A, B
<1>9. D!Put(A, B, root[c], v)
  BY <1>1, <1>2, <1>3, <1>4, <1>5, <1>6, <1>7, <1>8 DEF D!Put
<1>. QED
  BY <1>3, <1>9 DEF A, B

(* A new scalar that is put somewhere changes one document.                 *)
LEMMA ScalarChanges ==
  ASSUME NEW A, NEW A0, NEW B, NEW new, NEW x, NEW type \in Scalar,
         x \in DOMAIN A0, new \notin DOMAIN A,
         DOMAIN A0 = DOMAIN A \cup {new}, D!Only(new, A, A0), A0[new] = D!Leaf(type),
         D!Put(A0, B, x, new)
  PROVE  x \in DOMAIN A /\ D!Change(A, B, x)
<1>1. /\ new # x /\ DOMAIN B = DOMAIN A0 \ {new} /\ D!Only(x, A0, B)
      /\ \E p \in DOMAIN A0[x], q \in Dotted \cup {<<i>> : i \in 1 .. Cardinality(Value)} :
           D!Fits(A0[x], p \o q) /\ B[x] = D!Grafted(A0[x], p \o q, A0[new])
  BY DEF D!Put
<1>2. PICK p \in DOMAIN A0[x], q \in Dotted \cup {<<i>> : i \in 1 .. Cardinality(Value)} :
           D!Fits(A0[x], p \o q) /\ B[x] = D!Grafted(A0[x], p \o q, A0[new])
  BY <1>1
<1>3. x \in DOMAIN A /\ A0[x] = A[x] /\ DOMAIN B = DOMAIN A
  BY <1>1 DEF D!Only
<1>4. D!Only(x, A, B)
  BY <1>1, <1>3 DEF D!Only
<1>5. B[x] \in D!ChangedAt(A[x], p \o q)
  BY <1>2, <1>3 DEF D!ChangedAt
<1>. QED
  BY <1>2, <1>3, <1>4, <1>5 DEF D!Change
-----------------------------------------------------------------------------
(* Where nothing is at a key, nothing is there in the document.             *)
LEMMA NothingUnder ==
  ASSUME NEW h, Good(h), NEW root, NEW path, Traced(h, root, path),
         NEW c \in Value, NEW k \in Key,
         Under(root, path, root[c], Append(path[c], k)) = {}
  PROVE  \A q \in DOMAIN Document(h, root[c]) : ~IsPrefix(Append(path[c], k), q)
<1>1. root[c] \in Value /\ h[root[c]].parent = NULL
  BY TraceIs
<1>2. \A q : q \in DOMAIN Document(h, root[c]) <=>
               \E w \in Value : root[w] = root[c] /\ path[w] = q
  BY <1>1, DocumentIs
<1>. QED
  BY <1>2 DEF Under

(* The hierarchy that leads to a name in an object that is not there yet is *)
(* that object.                                                             *)
LEMMA HierarchyMade ==
  ASSUME NEW d, IsMap(d), NEW P \in Seq(Key), P \in DOMAIN d,
         D!Above(P) \subseteq DOMAIN d, NEW n1 \in Key, NEW n2 \in Key,
         \A q \in DOMAIN d : ~IsPrefix(Append(P, n1), q)
  PROVE  /\ D!Hierarchy(d, Append(Append(P, n1), n2))
              = Placed(d, Append(P, n1), D!Leaf("object"))
         /\ Append(P, n1) \notin DOMAIN d
<1>. DEFINE P1 == Append(P, n1)
            P2 == Append(P1, n2)
            H == D!Hierarchy(d, P2)
            L == D!Leaf("object")
            G == Placed(d, P1, L)
            W == D!Without(d, P1)
<1>1. P1 \in Seq(Key) /\ P2 \in Seq(Key) /\ << >> \in Seq(Key)
  BY AppendIs, EmptySeq
<1>2. P1 \notin DOMAIN d
  BY <1>1, PrefixOrder
<1>3. D!Above(P2) = D!Above(P) \cup {P, P1}
  <2>1. D!Above(P1) = D!Above(P) \cup {P}
    BY AboveIs
  <2>2. D!Above(P2) = D!Above(P1) \cup {P1}
    <3>1. P1 \in Seq(Key) /\ P2 = Append(P1, n2)
      BY <1>1
    <3>. HIDE DEF P1, P2
    <3>. QED
      BY <3>1, AboveIs
  <2>. QED
    BY <2>1, <2>2
<1>4. H = [q \in DOMAIN d \cup {P1} |-> IF q \in DOMAIN d THEN d[q] ELSE "object"]
  <2>1. DOMAIN d \cup D!Above(P2) = DOMAIN d \cup {P1}
    BY <1>3
  <2>. QED
    BY <2>1 DEF D!Hierarchy
<1>5. /\ DOMAIN W = DOMAIN d
      /\ \A q \in DOMAIN d : W[q] = d[q]
  BY WithoutIs
<1>6. /\ L = [q \in {<< >>} |-> "object"]
      /\ P1 \o << >> = P1 /\ D!Beyond(P1, P1) = << >>
  <2>1. P1 \o << >> = P1
    BY <1>1, ConcatSimplifications
  <2>2. D!Beyond(P1, P1 \o << >>) = << >>
    BY <1>1, ConcatIs
  <2>. QED
    BY <2>1, <2>2 DEF D!Leaf, D!Root
<1>7. G = [q \in DOMAIN W \cup {P1 \o r : r \in DOMAIN L} |->
             IF q \in DOMAIN W THEN W[q] ELSE L[D!Beyond(P1, q)]]
  BY DEF Placed
<1>8. P1 \notin DOMAIN d => IsMap(H) /\ IsMap(G)
  BY <1>4, <1>7 DEF IsMap
<1>. HIDE DEF H, G, L, W, P1
<1>9. DOMAIN G = DOMAIN d \cup {P1}
  <2>1. DOMAIN L = {<< >>}
    BY <1>6
  <2>. QED
    BY <1>5, <1>6, <1>7, <2>1
<1>10. \A q \in DOMAIN G : G[q] = IF q \in DOMAIN d THEN d[q] ELSE "object"
  BY <1>5, <1>6, <1>7, <1>9
<1>11. H = G
  <2>1. DOMAIN H = DOMAIN G /\ \A q \in DOMAIN H : H[q] = G[q]
    BY <1>4, <1>9, <1>10
  <2>. QED
    BY <1>2, <1>8, <2>1, SameMap DEF P1
<1>. QED
  BY <1>2, <1>11 DEF H, G, L, P1

(* A name in an object that is not there yet is a place in the document.    *)
LEMMA FitsMade ==
  ASSUME NEW d, NEW P1 \in Seq(Key), P1 \notin DOMAIN d, Leads(d, P1),
         NEW n2 \in Name
  PROVE  D!Fits(d, Append(P1, n2))
<1>. DEFINE P2 == Append(P1, n2)
<1>1. n2 \in Key
  BY DEF Key
<1>2. P2 # << >> /\ D!Last(P2) = n2 /\ D!Above(P2) = D!Above(P1) \cup {P1}
  BY <1>1, AppendIs, AboveIs DEF D!Last, Last
<1>3. \A q \in D!Above(P1) : P2[Len(q) + 1] = P1[Len(q) + 1]
  <2>. SUFFICES ASSUME NEW q \in D!Above(P1) PROVE P2[Len(q) + 1] = P1[Len(q) + 1]
    OBVIOUS
  <2>1. q \in Seq(Key) /\ Len(q) \in Nat /\ Len(P1) \in Nat /\ Len(q) < Len(P1)
    BY <1>1, AboveIs, LenProperties
  <2>2. Len(q) + 1 \in 1 .. Len(P1)
    BY <2>1
  <2>. QED
    BY <1>1, <2>2, AppendProperties
<1>. HIDE DEF P2
<1>4. \A q \in D!Above(P2) \cap DOMAIN d :
        d[q] = IF P2[Len(q) + 1] \in Name THEN "object" ELSE "array"
  BY <1>2, <1>3 DEF Leads
<1>5. D!Fits(d, P2)
  BY <1>2, <1>4 DEF D!Fits, D!Root
<1>. QED
  BY <1>5 DEF P2

\* Where a value is put in the heap, in one formula.
PutInto(h, g, root, path, c, k, s) ==
  /\ Good(h) /\ Good(g) /\ Traced(h, root, path)
  /\ c \in Value /\ s \in Value /\ root[c] # s /\ k \in Key
  /\ Puts(h, g, c, k, s, Under(root, path, root[c], Append(path[c], k)))

\* And in the documents.
PutIn(A, B, x, p, s) ==
  /\ x \in DOMAIN A /\ s \in DOMAIN A
  /\ DOMAIN B = DOMAIN A \ {s}
  /\ D!Only(x, A, B)
  /\ B[x] = Placed(A[x], p, A[s])

(* What that means for the documents.                                       *)
LEMMA PutIntoDocuments ==
  ASSUME NEW h, NEW g, NEW root, NEW path, NEW c, NEW k, NEW s,
         PutInto(h, g, root, path, c, k, s)
  PROVE  PutIn(AllDocuments(h), AllDocuments(g), root[c], Append(path[c], k), s)
<1>1. PICK F : F = Under(root, path, root[c], Append(path[c], k))
  OBVIOUS
<1>2. /\ Good(h) /\ Good(g) /\ Traced(h, root, path)
      /\ c \in Value /\ s \in Value /\ root[c] # s /\ k \in Key
      /\ Puts(h, g, c, k, s, F)
  BY <1>1 DEF PutInto
<1>. QED
  BY <1>1, <1>2, PutDocuments DEF PutIn

(* An object that is made on the way is a new part of the document.         *)
LEMMA MakesObject ==
  ASSUME NEW h, Good(h), NEW root, NEW path, Traced(h, root, path),
         NEW o \in Value, h[o].type = "object", NEW name \in Name,
         FreeAddresses(h) # {}, json_object_get_value(h, o, name) = NULL,
         NEW new, new = malloc(h),
         NEW r, r = json_object_add(json_value_init(h, "object"), o, name, new)
  PROVE  LET A == AllDocuments(h)
             B == AllDocuments(r.heap)
             p == Append(path[o], name) IN
         /\ r.ret = "JSONSuccess" /\ Good(r.heap) /\ new \in Value
         /\ r.heap[new].type = "object"
         /\ \E root2, path2 : /\ Traced(r.heap, root2, path2)
                              /\ root2[new] = root[o] /\ path2[new] = p
         /\ root[o] \in DOMAIN A /\ DOMAIN B = DOMAIN A /\ D!Only(root[o], A, B)
         /\ B[root[o]] = Placed(A[root[o]], p, D!Leaf("object"))
         /\ \A q \in DOMAIN A[root[o]] : ~IsPrefix(p, q)
<1>. DEFINE g == json_value_init(h, "object")
            p == Append(path[o], name)
            F == Under(root, path, root[o], p)
            A == AllDocuments(h)
            A0 == AllDocuments(g)
            B == AllDocuments(r.heap)
<1>1. /\ new \in Value /\ Good(g) /\ g[o] = h[o]
      /\ g[new].type = "object" /\ g[new].parent = NULL
      /\ Takes(g, o, new)
  BY MadeIs DEF Type
<1>2. /\ Traced(g, root, path) /\ root[new] = new /\ path[new] = << >>
      /\ new \notin DOMAIN A /\ DOMAIN A0 = DOMAIN A \cup {new}
      /\ D!Only(new, A, A0)
      /\ A0[new] = D!Leaf("object")
  <2>1. "object" \in Type
    BY DEF Type
  <2>. QED
    BY <2>1, NewDocument
<1>. HIDE DEF g
<1>3. json_object_get_value(g, o, name) = NULL
  BY <1>1 DEF json_object_get_value, Index
<1>4. r.ret = "JSONSuccess" /\ Good(r.heap) /\ r.heap[new].type = "object"
  <2>1. r.ret = "JSONSuccess" /\ Good(r.heap) /\ Attaches(g, r.heap, o, new, {})
    BY <1>1, <1>3, AddIs DEF g
  <2>. QED
    BY <1>1, <2>1 DEF Attaches
<1>5. Puts(g, r.heap, o, name, new, F)
  <2>1. r = json_object_set_value(g, o, name, new)
    <3>1. Index(g, o, name) = 0
      <4>1. Nodes(g) /\ NULL \notin Value
        BY <1>1, JsonTreeAssumption DEF Good
      <4>. SUFFICES ASSUME Index(g, o, name) # 0 PROVE FALSE
        OBVIOUS
      <4>2. Index(g, o, name) \in DOMAIN g[o].values
        BY <1>1, <4>1, GetIs
      <4>3. g[o].values[Index(g, o, name)] \in Value
        BY <1>1, <4>2, KeyIs
      <4>. QED
        BY <1>3, <4>1, <4>3 DEF json_object_get_value
    <3>. QED
      BY <1>1, <3>1 DEF json_object_set_value, g
  <2>. QED
    BY <1>1, <1>2, <2>1, ObjectPuts
<1>6. name \in Key /\ root[o] # new /\ path[o] \in Seq(Key) /\ p \in Seq(Key)
  <2>1. name \in Key
    BY DEF Key
  <2>. QED
    BY <1>1, <1>2, <2>1, TakesApart, TraceIs, AppendIs
<1>7. F = {}
  <2>1. \A w \in Kids(h, o) : KeyOf(h, w) # name
    <3>. SUFFICES ASSUME NEW w \in Kids(h, o), KeyOf(h, w) = name PROVE FALSE
      OBVIOUS
    <3>1. PICK i \in DOMAIN h[o].values : h[o].values[i] = w
      BY DEF Kids, ToSet
    <3>2. i \in DOMAIN h[o].names /\ h[o].names[i] = name /\ w \in Value
      BY <3>1, KeyIs
    <3>3. json_object_get_value(h, o, name) = w
      BY <3>1, <3>2, GetFound DEF Good
    <3>. QED
      BY <3>2, <3>3, JsonTreeAssumption
  <2>. QED
    BY <1>6, <2>1, UnderIs
<1>8. \A q \in DOMAIN Document(h, root[o]) : ~IsPrefix(p, q)
  BY <1>6, <1>7, NothingUnder
<1>9. /\ Traced(r.heap, PutRoot(root, o, new, F), PutPath(root, path, new, p, F))
      /\ PutRoot(root, o, new, F)[new] = root[o]
      /\ PutPath(root, path, new, p, F)[new] = p
  <2>0. PICK E : E = Under(root, path, root[o], Append(path[o], name))
    OBVIOUS
  <2>1. Traced(r.heap, PutRoot(root, o, new, E), PutPath(root, path, new, p, E))
    BY <1>1, <1>2, <1>4, <1>5, <1>6, <2>0, PutTraces
  <2>2. p \o << >> = p
    BY <1>6, ConcatSimplifications
  <2>3. /\ PutRoot(root, o, new, {})[new] = root[o]
        /\ PutPath(root, path, new, p, {})[new] = p
    <3>. HIDE DEF p
    <3>. QED
      BY <1>1, <1>2, <2>2 DEF PutRoot, PutPath
  <2>. QED
    BY <1>7, <2>0, <2>1, <2>3
<1>10. /\ root[o] \in DOMAIN A0 /\ DOMAIN B = DOMAIN A0 \ {new}
       /\ D!Only(root[o], A0, B)
       /\ B[root[o]] = Placed(A0[root[o]], p, A0[new])
  <2>1. PutInto(g, r.heap, root, path, o, name, new)
    BY <1>1, <1>2, <1>4, <1>5, <1>6 DEF PutInto
  <2>. HIDE DEF A, A0, B, F, p
  <2>2. PutIn(A0, B, root[o], p, new)
    BY <2>1, PutIntoDocuments DEF A0, B, p
  <2>. QED
    BY <2>2 DEF PutIn
<1>11. A[root[o]] = Document(h, root[o])
  <2>1. root[o] \in DOMAIN A
    BY <1>2, <1>6, <1>10
  <2>. QED
    BY <2>1, DocumentsAre
<1>. HIDE DEF A, A0, B, F, p
<1>12. /\ root[o] \in DOMAIN A /\ DOMAIN B = DOMAIN A
       /\ A0[root[o]] = A[root[o]] /\ D!Only(root[o], A, B)
  <2>1. root[o] \in DOMAIN A /\ DOMAIN B = DOMAIN A
    BY <1>2, <1>6, <1>10
  <2>2. A0[root[o]] = A[root[o]]
    BY <1>2, <1>6, <2>1 DEF D!Only
  <2>3. D!Only(root[o], A, B)
    BY <1>2, <1>10, <2>1 DEF D!Only
  <2>. QED
    BY <2>1, <2>2, <2>3
<1>. QED
  BY <1>1, <1>2, <1>4, <1>8, <1>9, <1>10, <1>11, <1>12 DEF A, B, p
-----------------------------------------------------------------------------
(* Two steps from a path.                                                   *)
LEMMA TwoSteps ==
  ASSUME NEW P \in Seq(Key), NEW n1 \in Key, NEW n2 \in Key
  PROVE  Append(Append(P, n1), n2) = P \o <<n1, n2>>
<1>1. <<n1>> \in Seq(Key) /\ <<n1, n2>> = Append(<<n1>>, n2)
  OBVIOUS
<1>2. P \o Append(<<n1>>, n2) = Append(P \o <<n1>>, n2)
  BY <1>1, AppendPrefix
<1>3. P \o <<n1>> = Append(P, n1)
  BY AppendIsConcat
<1>. QED
  BY <1>1, <1>2, <1>3

(* What is made on the way to a name changes the document.                  *)
LEMMA ChangeMade ==
  ASSUME NEW A, NEW B, NEW x, x \in DOMAIN A, NEW P \in Seq(Key), P \in DOMAIN A[x],
         NEW n1 \in Name, NEW n2 \in Name, NEW p, p = Append(Append(P, n1), n2),
         D!Fits(A[x], p), DOMAIN B = DOMAIN A, D!Only(x, A, B),
         B[x] = D!Hierarchy(A[x], p)
  PROVE  D!Change(A, B, x)
<1>1. p = P \o <<n1, n2>> /\ <<n1, n2>> \in Dotted \cup {<<i>> : i \in 1 .. Cardinality(Value)}
  BY TwoSteps DEF Key, Dotted
<1>2. B[x] \in D!ChangedAt(A[x], p)
  BY DEF D!ChangedAt
<1>. QED
  BY <1>1, <1>2 DEF D!Change

(* And so does what is put there, which is no longer a document then.       *)
LEMMA PutMade ==
  ASSUME NEW A, NEW C, NEW B, NEW x, x \in DOMAIN A, NEW P \in Seq(Key), P \in DOMAIN A[x],
         NEW n1 \in Name, NEW n2 \in Name, NEW p, p = Append(Append(P, n1), n2),
         D!Fits(A[x], p), DOMAIN C = DOMAIN A, D!Only(x, A, C),
         C[x] = D!Hierarchy(A[x], p),
         NEW v, v # x, PutIn(C, B, x, p, v)
  PROVE  D!Put(A, B, x, v)
<1>1. p = P \o <<n1, n2>> /\ <<n1, n2>> \in Dotted \cup {<<i>> : i \in 1 .. Cardinality(Value)}
  BY TwoSteps DEF Key, Dotted
<1>2. DOMAIN B = DOMAIN A \ {v} /\ D!Only(x, A, B) /\ C[v] = A[v]
  BY DEF PutIn, D!Only
<1>3. B[x] = D!Grafted(A[x], p, A[v])
  BY <1>2, GraftedIs DEF PutIn
<1>. QED
  BY <1>1, <1>2, <1>3 DEF D!Put

\* What a call that is to put v somewhere does to the documents.
Outcome(h, r, v) ==
  \/ r.ret = "JSONFailure" /\ r.heap = h
  \/ /\ r.ret = "JSONFailure" /\ h[v].parent # NULL
     /\ \E x \in DOMAIN AllDocuments(h) :
          D!Change(AllDocuments(h), AllDocuments(r.heap), x)
  \/ /\ r.ret = "JSONSuccess" /\ h[v].parent = NULL
     /\ v \in DOMAIN AllDocuments(h)
     /\ \E x \in DOMAIN AllDocuments(h) :
          D!Put(AllDocuments(h), AllDocuments(r.heap), x, v)

(* json_object_set_value (parson.c:1681-1700).                              *)
LEMMA SetOutcome ==
  ASSUME NEW h, Good(h), NEW o \in Value, h[o].type = "object",
         NEW name \in Name, NEW v \in Value, MayHold(h, o, v),
         NEW r, r = json_object_set_value(h, o, name, v)
  PROVE  Outcome(h, r, v) /\ (h[v].parent # NULL <=> r.ret = "JSONFailure")
<1>1. CASE h[v].parent # NULL
  <2>1. r.ret = "JSONFailure" /\ r.heap = h
    BY <1>1 DEF json_object_set_value, Failure
  <2>. QED
    BY <1>1, <2>1 DEF Outcome
<1>2. CASE h[v].parent = NULL
  <2>1. Takes(h, o, v)
    BY <1>2 DEF MayHold, Takes
  <2>2. PICK root, path : Traced(h, root, path)
    BY TraceExists
  <2>3. /\ r.ret = "JSONSuccess" /\ Good(r.heap)
        /\ Puts(h, r.heap, o, name, v, Under(root, path, root[o], Append(path[o], name)))
    BY <2>1, <2>2, ObjectPuts
  <2>4. Place(h, o, name)
    BY DEF Place
  <2>5. /\ root[o] \in DOMAIN AllDocuments(h)
        /\ D!Put(AllDocuments(h), AllDocuments(r.heap), root[o], v)
    <3>1. PICK g : g = r.heap
      OBVIOUS
    <3>2. /\ root[o] \in DOMAIN AllDocuments(h)
          /\ D!Put(AllDocuments(h), AllDocuments(g), root[o], v)
      BY <2>1, <2>2, <2>3, <2>4, <3>1, PutsPart
    <3>. QED
      BY <3>1, <3>2
  <2>6. v \in DOMAIN AllDocuments(h)
    BY <1>2, DocumentsAre DEF MayHold
  <2>. QED
    BY <1>2, <2>3, <2>5, <2>6 DEF Outcome
<1>. QED
  BY <1>1, <1>2

\* c is at p in the document of x.
At(h, c, x, p) ==
  \E root, path : Traced(h, root, path) /\ root[c] = x /\ path[c] = p

(* What json_object_set_value puts there.                                   *)
LEMMA PutsAt ==
  ASSUME NEW h, Good(h), NEW c \in Value, h[c].type = "object", NEW x, NEW p, At(h, c, x, p),
         NEW name \in Name, NEW v \in Value, Takes(h, c, v),
         NEW r, r = json_object_set_value(h, c, name, v)
  PROVE  /\ r.ret = "JSONSuccess" /\ x # v
         /\ PutIn(AllDocuments(h), AllDocuments(r.heap), x, Append(p, name), v)
<1>1. PICK root, path : Traced(h, root, path) /\ root[c] = x /\ path[c] = p
  BY DEF At
<1>2. /\ r.ret = "JSONSuccess" /\ Good(r.heap)
      /\ Puts(h, r.heap, c, name, v, Under(root, path, root[c], Append(path[c], name)))
  BY <1>1, ObjectPuts
<1>3. root[c] # v
  BY <1>1, TakesApart
<1>4. PutInto(h, r.heap, root, path, c, name, v)
  BY <1>1, <1>2, <1>3 DEF PutInto, Key
<1>5. PutIn(AllDocuments(h), AllDocuments(r.heap), root[c], Append(path[c], name), v)
  BY <1>4, PutIntoDocuments
<1>. QED
  BY <1>1, <1>2, <1>3, <1>5

(* Through an object that is made on the way (parson.c:1734-1746).          *)
LEMMA MakeOutcome ==
  ASSUME NEW h, Good(h), NEW o \in Value, h[o].type = "object",
         NEW name \in Name, NEW last \in Name, NEW v \in Value, h[v].type # "free",
         FreeAddresses(h) # {}, json_object_get_value(h, o, name) = NULL,
         NEW new, new = malloc(h),
         NEW add, add = json_object_add(json_value_init(h, "object"), o, name, new),
         MayHold(add.heap, new, v), add.heap[v].parent = h[v].parent,
         NEW r, r = json_object_set_value(add.heap, new, last, v)
  PROVE  Outcome(h, r, v)
<1>. DEFINE A == AllDocuments(h)
            k == add.heap
            C == AllDocuments(k)
            B == AllDocuments(r.heap)
<1>1. PICK root, path : Traced(h, root, path)
  BY TraceExists
<1>. DEFINE x == root[o]
            P == path[o]
            P1 == Append(P, name)
            P2 == Append(P1, last)
<1>2. /\ Good(k) /\ new \in Value /\ k[new].type = "object"
      /\ \E root2, path2 : /\ Traced(k, root2, path2)
                           /\ root2[new] = x /\ path2[new] = P1
      /\ x \in DOMAIN A /\ DOMAIN C = DOMAIN A /\ D!Only(x, A, C)
      /\ C[x] = Placed(A[x], P1, D!Leaf("object"))
      /\ \A q \in DOMAIN A[x] : ~IsPrefix(P1, q)
  BY <1>1, MakesObject
<1>3. name \in Key /\ last \in Key
  BY DEF Key
<1>4. /\ P \in Seq(Key) /\ P1 \in Seq(Key)
      /\ P \in DOMAIN A[x] /\ IsMap(A[x]) /\ Leads(A[x], P1)
  <2>1. Place(h, o, name)
    BY DEF Place
  <2>2. A[x] = Document(h, x)
    BY <1>2, DocumentsAre
  <2>. QED
    BY <1>1, <2>1, <2>2, WayIs
<1>5. D!Above(P) \subseteq DOMAIN A[x]
  BY <1>3, <1>4, AboveIs DEF Leads
<1>. HIDE DEF A, C, B, k, x, P
<1>6. /\ C[x] = D!Hierarchy(A[x], P2)
      /\ P1 \notin DOMAIN A[x]
  BY <1>2, <1>3, <1>4, <1>5, HierarchyMade
<1>7. D!Fits(A[x], P2)
  BY <1>4, <1>6, FitsMade
<1>8. CASE h[v].parent # NULL
  <2>1. r.ret = "JSONFailure" /\ r.heap = k
    BY <1>8 DEF json_object_set_value, Failure, k
  <2>2. D!Change(A, C, x)
    BY <1>2, <1>4, <1>6, <1>7, ChangeMade
  <2>. QED
    BY <1>2, <1>8, <2>1, <2>2 DEF Outcome, A, C
<1>9. CASE h[v].parent = NULL
  <2>1. Takes(k, new, v)
    BY <1>9 DEF MayHold, Takes, k
  <2>2. r = json_object_set_value(k, new, last, v)
    BY DEF k
  <2>3. At(k, new, x, P1)
    BY <1>2 DEF At
  <2>4. r.ret = "JSONSuccess" /\ x # v /\ PutIn(C, B, x, P2, v)
    BY <1>2, <2>1, <2>2, <2>3, PutsAt DEF C, B
  <2>7. D!Put(A, B, x, v)
    BY <1>2, <1>4, <1>6, <1>7, <2>4, PutMade
  <2>8. v \in DOMAIN A
    BY <1>9, DocumentsAre DEF A
  <2>. QED
    BY <1>2, <1>9, <2>4, <2>7, <2>8 DEF Outcome, A, B
<1>. QED
  BY <1>8, <1>9
-----------------------------------------------------------------------------
(* One level of a path: what is there, what is made, or nothing at all.     *)
LEMMA EnterIs ==
  ASSUME NEW h, Good(h), NEW o \in Value, h[o].type = "object", NEW name \in Name,
         FreeAddresses(h) # {},
         NEW walk, walk = Enter([heap |-> h, object |-> o, ret |-> "JSONSuccess"], name)
  PROVE  LET new == malloc(h)
             add == json_object_add(json_value_init(h, "object"), o, name, new) IN
         \/ walk.heap = h
         \/ /\ json_object_get_value(h, o, name) = NULL
            /\ walk.ret = "JSONSuccess"
            /\ walk.heap = add.heap /\ walk.object = new
<1>. DEFINE start == [heap |-> h, object |-> o, ret |-> "JSONSuccess"]
            found == json_object_get_object(h, o, name)
            new == malloc(h)
            g == json_value_init(h, "object")
            add == json_object_add(g, o, name, new)
<1>1. CASE walk.ret = "JSONFailure"
  BY <1>1, EnterGets
<1>2. CASE walk.ret # "JSONFailure" /\ found # NULL
  <2>1. walk = [start EXCEPT !.object = found]
    BY <1>2 DEF Enter
  <2>. HIDE DEF found
  <2>. QED
    BY <2>1
<1>3. CASE walk.ret # "JSONFailure" /\ found = NULL
  <2>1. walk = IF add.ret = "JSONFailure"
                 THEN [start EXCEPT !.ret = add.ret]
                 ELSE [heap |-> add.heap, object |-> new, ret |-> add.ret]
    BY <1>3 DEF Enter
  <2>2. g[o] = h[o]
    BY MadeIs DEF Type
  <2>3. json_object_get_value(g, o, name) = json_object_get_value(h, o, name)
    BY <2>2 DEF json_object_get_value, Index
  <2>4. add.ret # "JSONFailure"
    <3>1. CASE add.ret = "JSONFailure"
      <4>. HIDE DEF add
      <4>1. walk.ret = "JSONFailure"
        BY <2>1, <3>1
      <4>. QED
        BY <1>3, <4>1
    <3>. QED
      BY <3>1
  <2>5. json_object_get_value(h, o, name) = NULL
    BY <2>3, <2>4 DEF json_object_add, Failure
  <2>6. add.ret = "JSONSuccess"
    BY <2>3, <2>5 DEF json_object_add, Success
  <2>. HIDE DEF add, new
  <2>7. walk.ret = "JSONSuccess" /\ walk.heap = add.heap /\ walk.object = new
    BY <2>1, <2>4, <2>6
  <2>. QED
    BY <2>5, <2>7 DEF add, new
<1>. QED
  BY <1>1, <1>2, <1>3

(* json_object_dotset_value (parson.c:1718-1748).                           *)
LEMMA DotsetOutcome ==
  ASSUME NEW h, Good(h), NEW o \in Value, h[o].type = "object",
         NEW path \in Dotted, NEW v \in Value, MayHold(h, o, v),
         Len(path) = 2 => FreeAddresses(h) # {},
         NEW r, r = json_object_dotset_value(h, o, path, v)
  PROVE  Outcome(h, r, v)
<1>. DEFINE start == [heap |-> h, object |-> o, ret |-> "JSONSuccess"]
            walk == FoldLeft(Enter, start, Front(path))
            last == Last(path)
<1>1. r = IF walk.ret = "JSONFailure" THEN Failure(walk.heap)
          ELSE json_object_set_value(walk.heap, walk.object, last, v)
  BY DEF json_object_dotset_value
<1>2. last \in Name
  BY DottedIs
<1>3. CASE Front(path) = << >>
  <2>1. walk = start
    BY <1>3, WalkIs
  <2>. HIDE DEF walk, last
  <2>2. r = json_object_set_value(h, o, last, v)
    BY <1>1, <2>1
  <2>. QED
    BY <1>2, <2>2, SetOutcome
<1>4. CASE Len(path) = 2 /\ \E name \in Name : Front(path) = <<name>>
  <2>1. PICK name \in Name : Front(path) = <<name>>
    BY <1>4
  <2>2. walk = Enter(start, name)
    BY <2>1, WalkIs
  <2>. HIDE DEF walk, last
  <2>. DEFINE k == walk.heap
              inner == walk.object
              new == malloc(h)
              add == json_object_add(json_value_init(h, "object"), o, name, new)
  <2>3. /\ walk.ret # "JSONFailure" =>
             /\ inner \in Value /\ k[inner].type = "object"
             /\ MayHold(k, inner, v)
        /\ k[v].parent = h[v].parent /\ k[v].type = h[v].type
    BY <1>4, <2>2, EnterGood
  <2>4. /\ walk.ret = "JSONFailure" => k = h
        /\ \/ k = h
           \/ /\ json_object_get_value(h, o, name) = NULL
              /\ k = add.heap /\ inner = new
    BY <1>4, <2>2, EnterIs, EnterGets
  <2>5. h[v].type # "free"
    BY DEF MayHold
  <2>. HIDE DEF k, inner, new, add
  <2>6. CASE walk.ret = "JSONFailure"
    <3>1. r.heap = h /\ r.ret = "JSONFailure"
      BY <1>1, <2>4, <2>6 DEF Failure, k
    <3>. QED
      BY <3>1 DEF Outcome
  <2>7. CASE walk.ret # "JSONFailure"
    <3>1. r = json_object_set_value(k, inner, last, v)
      BY <1>1, <2>7 DEF k, inner
    <3>2. CASE k = h
      BY <1>2, <2>3, <2>7, <3>1, <3>2, SetOutcome
    <3>3. CASE json_object_get_value(h, o, name) = NULL /\ k = add.heap /\ inner = new
      <4>1. /\ new = malloc(h)
            /\ add = json_object_add(json_value_init(h, "object"), o, name, new)
        BY DEF new, add
      <4>2. /\ MayHold(add.heap, new, v) /\ add.heap[v].parent = h[v].parent
            /\ r = json_object_set_value(add.heap, new, last, v)
        BY <2>3, <2>7, <3>1, <3>3
      <4>. QED
        BY <1>2, <1>4, <2>5, <3>3, <4>1, <4>2, MakeOutcome
    <3>. QED
      BY <2>4, <3>2, <3>3
  <2>. QED
    BY <2>6, <2>7
<1>. QED
  BY <1>3, <1>4, DottedIs

(* json_array_append_value (parson.c:440, 1626).                            *)
LEMMA AppendOutcome ==
  ASSUME NEW h, Good(h), NEW a \in Value, h[a].type = "array",
         NEW v \in Value, MayHold(h, a, v),
         NEW r, r = json_array_append_value(h, a, v)
  PROVE  Outcome(h, r, v)
<1>1. CASE h[v].parent # NULL
  <2>1. r.ret = "JSONFailure" /\ r.heap = h
    BY <1>1 DEF json_array_append_value, Failure
  <2>. QED
    BY <2>1 DEF Outcome
<1>2. CASE h[v].parent = NULL
  <2>1. Takes(h, a, v)
    BY <1>2 DEF MayHold, Takes
  <2>2. PICK root, path : Traced(h, root, path)
    BY TraceExists
  <2>3. PICK k : k = Len(h[a].values) + 1
    OBVIOUS
  <2>4. PICK g : g = r.heap
    OBVIOUS
  <2>5. /\ Good(g) /\ k \in Nat /\ k # 0
        /\ Puts(h, g, a, k, v, Under(root, path, root[a], Append(path[a], k)))
    BY <2>1, <2>2, <2>3, <2>4, ArrayPuts
  <2>6. Place(h, a, k)
    BY <2>3, <2>5 DEF Place
  <2>7. /\ root[a] \in DOMAIN AllDocuments(h)
        /\ D!Put(AllDocuments(h), AllDocuments(g), root[a], v)
    BY <2>1, <2>2, <2>5, <2>6, PutsPart
  <2>8. v \in DOMAIN AllDocuments(h)
    BY <1>2, DocumentsAre DEF MayHold
  <2>9. r.ret = "JSONSuccess"
    BY <1>2 DEF json_array_append_value, Success
  <2>. QED
    BY <1>2, <2>4, <2>7, <2>8, <2>9 DEF Outcome
<1>. QED
  BY <1>1, <1>2

(* json_array_replace_value (parson.c:1556).                                *)
LEMMA ReplaceOutcome ==
  ASSUME NEW h, Good(h), NEW a \in Value, h[a].type = "array",
         NEW v \in Value, MayHold(h, a, v), NEW i,
         NEW r, r = json_array_replace_value(h, a, i, v)
  PROVE  Outcome(h, r, v)
<1>1. CASE h[v].parent # NULL \/ i \notin DOMAIN h[a].values
  <2>1. r.ret = "JSONFailure" /\ r.heap = h
    BY <1>1 DEF json_array_replace_value, Failure
  <2>. QED
    BY <2>1 DEF Outcome
<1>2. CASE h[v].parent = NULL /\ i \in DOMAIN h[a].values
  <2>1. Takes(h, a, v)
    BY <1>2 DEF MayHold, Takes
  <2>2. PICK root, path : Traced(h, root, path)
    BY TraceExists
  <2>3. r = Success(Replaced(h, a, i, v))
    BY <1>2 DEF json_array_replace_value
  <2>4. PICK g : g = Replaced(h, a, i, v)
    OBVIOUS
  <2>5. r.heap = g /\ r.ret = "JSONSuccess"
    BY <2>3, <2>4 DEF Success
  <2>6. KeyOf(h, h[a].values[i]) = i
    BY <1>2, KeyIs
  <2>7. /\ Good(g)
        /\ Puts(h, g, a, i, v, Under(root, path, root[a], Append(path[a], i)))
    BY <1>2, <2>1, <2>2, <2>4, <2>6, ReplacePuts
  <2>8. Place(h, a, i)
    <3>1. /\ Len(h[a].values) \in Nat
          /\ DOMAIN h[a].values = 1 .. Len(h[a].values)
      BY Fields, LenProperties DEF Good
    <3>2. i \in 1 .. Len(h[a].values) + 1
      BY <1>2, <3>1
    <3>. QED
      BY <3>2 DEF Place
  <2>9. /\ root[a] \in DOMAIN AllDocuments(h)
        /\ D!Put(AllDocuments(h), AllDocuments(g), root[a], v)
    BY <2>1, <2>2, <2>7, <2>8, PutsPart
  <2>10. v \in DOMAIN AllDocuments(h)
    BY <1>2, DocumentsAre DEF MayHold
  <2>. QED
    BY <1>2, <2>5, <2>9, <2>10 DEF Outcome
<1>. QED
  BY <1>1, <1>2
-----------------------------------------------------------------------------
\* What a call does to the documents.
Calls(h, g) ==
  \/ AllDocuments(g) = AllDocuments(h)
  \/ D!Call(AllDocuments(h), AllDocuments(g))

(* A call that is to put a value somewhere.                                 *)
LEMMA OutcomeCalls ==
  ASSUME NEW h, NEW r, NEW v, Outcome(h, r, v)
  PROVE  Calls(h, r.heap)
BY DEF Outcome, Calls, D!Call

(* A call that changes one document.                                        *)
LEMMA ChangeCalls ==
  ASSUME NEW h, NEW g,
         g = h \/ \E x \in DOMAIN AllDocuments(h) :
                    D!Change(AllDocuments(h), AllDocuments(g), x)
  PROVE  Calls(h, g)
BY DEF Calls, D!Call

(* A value that is made for the call is put somewhere, or released again.   *)
LEMMA ScalarCalls ==
  ASSUME NEW h, Good(h), NEW type \in Scalar, FreeAddresses(h) # {},
         NEW new, new = malloc(h), NEW k, k = json_value_init(h, type),
         NEW r, Outcome(k, r, new), NEW g,
         g = IF r.ret = "JSONFailure" THEN json_value_free(r.heap, new) ELSE r.heap
  PROVE  Calls(h, g)
<1>. DEFINE A == AllDocuments(h)
            A0 == AllDocuments(k)
            B == AllDocuments(g)
<1>1. type \in Type /\ "JSONFailure" # "JSONSuccess"
  BY DEF Type
<1>2. PICK root, path : Traced(h, root, path)
  BY TraceExists
<1>3. /\ new \notin DOMAIN A /\ DOMAIN A0 = DOMAIN A \cup {new}
      /\ D!Only(new, A, A0) /\ A0[new] = D!Leaf(type)
  BY <1>1, <1>2, NewDocument
<1>4. /\ new \in Value /\ Good(k) /\ k[new].type = type /\ k[new].parent = NULL
  BY <1>1, MadeIs
<1>5. \/ r.ret = "JSONFailure" /\ r.heap = k
      \/ /\ r.ret = "JSONSuccess"
         /\ \E x \in DOMAIN A0 : D!Put(A0, AllDocuments(r.heap), x, new)
  BY <1>4 DEF Outcome
<1>6. CASE r.ret = "JSONFailure"
  <2>1. g = json_value_free(k, new)
    BY <1>1, <1>5, <1>6
  <2>2. k[new].type # "free"
    BY <1>4 DEF Scalar
  <2>3. D!Free(A0, B, new)
    BY <1>4, <2>1, <2>2, FreedDocument
  <2>4. IsMap(A) /\ IsMap(B)
    BY DEF AllDocuments, IsMap
  <2>. HIDE DEF A, A0, B
  <2>5. DOMAIN B = DOMAIN A
    BY <1>3, <2>3 DEF D!Free
  <2>6. \A x \in DOMAIN A : B[x] = A[x]
    BY <1>3, <2>3, <2>5 DEF D!Free, D!Only
  <2>7. B = A
    BY <2>4, <2>5, <2>6, SameMap
  <2>. QED
    BY <2>7 DEF Calls, A, B
<1>7. CASE r.ret # "JSONFailure"
  <2>1. g = r.heap
    BY <1>7
  <2>2. PICK x \in DOMAIN A0 : D!Put(A0, B, x, new)
    BY <1>5, <1>7, <2>1
  <2>. HIDE DEF A, A0, B
  <2>3. x \in DOMAIN A /\ D!Change(A, B, x)
    BY <1>3, <2>2, ScalarChanges
  <2>. QED
    BY <2>3, ChangeCalls DEF A, B
<1>. QED
  BY <1>6, <1>7

(* json_object_dotset_string and _number (parson.c:1750-1796).              *)
LEMMA DotsetScalarCalls ==
  ASSUME NEW h, Good(h), NEW o \in Value, h[o].type = "object",
         NEW path \in Dotted, NEW type \in Scalar,
         Cardinality(FreeAddresses(h)) >= Len(path)
  PROVE  Calls(h, json_object_dotset_scalar(h, o, path, type).heap)
<1>. DEFINE new == malloc(h)
            k == json_value_init(h, type)
            set == json_object_dotset_value(k, o, path, new)
            r == json_object_dotset_scalar(h, o, path, type)
<1>1. /\ type \in Type /\ FreeAddresses(h) # {}
      /\ Len(path) = 2 => FreeAddresses(k) # {}
  BY DotsetRoom
<1>2. /\ new \in Value /\ Good(k) /\ k[o] = h[o] /\ MayHold(k, o, new)
  BY <1>1, MadeIs
<1>3. r = IF set.ret = "JSONFailure"
            THEN Failure(json_value_free(set.heap, new)) ELSE set
  BY DEF json_object_dotset_scalar
<1>. HIDE DEF r
<1>4. Outcome(k, set, new)
  <2>. HIDE DEF k, new
  <2>. QED
    BY <1>1, <1>2, DotsetOutcome
<1>. HIDE DEF set
<1>5. r.heap = IF set.ret = "JSONFailure"
                 THEN json_value_free(set.heap, new) ELSE set.heap
  BY <1>3 DEF Failure
<1>6. new = malloc(h) /\ k = json_value_init(h, type)
  OBVIOUS
<1>. HIDE DEF new, k
<1>7. Calls(h, r.heap)
  BY <1>1, <1>4, <1>5, <1>6, ScalarCalls
<1>. QED
  BY <1>7 DEF r

(* json_object_dotremove (parson.c:1819).                                   *)
LEMMA DotremoveCalls ==
  ASSUME NEW h, Good(h), NEW o \in Value, h[o].type = "object",
         NEW path \in Dotted
  PROVE  Calls(h, json_object_dotremove(h, o, path).heap)
<1>. DEFINE inner == Innermost(h, o, path)
<1>1. inner = NULL \/ (inner \in Value /\ h[inner].type = "object")
  BY InnermostObject
<1>. HIDE DEF inner
<1>2. Last(path) \in Name
  BY DottedIs
<1>3. json_object_dotremove(h, o, path)
        = IF inner = NULL THEN Failure(h)
          ELSE json_object_remove(h, inner, Last(path))
  BY DEF json_object_dotremove, inner
<1>4. CASE inner = NULL
  BY <1>3, <1>4 DEF Failure, Calls
<1>5. CASE inner # NULL
  BY <1>1, <1>2, <1>3, <1>5, RemovesMember, ChangeCalls
<1>. QED
  BY <1>4, <1>5
-----------------------------------------------------------------------------
(* A value that is made is a document (parson.c:1253-1318).                 *)
LEMMA MakeCalls ==
  ASSUME NEW h, Good(h), NEW type \in Type, FreeAddresses(h) # {}
  PROVE  Calls(h, json_value_init(h, type))
<1>. DEFINE new == malloc(h)
            A == AllDocuments(h)
            B == AllDocuments(json_value_init(h, type))
<1>1. PICK root, path : Traced(h, root, path)
  BY TraceExists
<1>2. /\ new \in Value /\ new \notin DOMAIN A /\ DOMAIN B = DOMAIN A \cup {new}
      /\ D!Only(new, A, B) /\ B[new] = D!Leaf(type)
  BY <1>1, NewDocument
<1>. HIDE DEF A, B, new
<1>3. D!New(A, B, new)
  BY <1>2 DEF D!New
<1>. QED
  BY <1>2, <1>3 DEF Calls, D!Call, A, B

(* A document that is released ends (parson.c:1236-1251).                   *)
LEMMA ReleaseCalls ==
  ASSUME NEW h, Good(h), NEW v \in Value, h[v].type # "free", h[v].parent = NULL
  PROVE  Calls(h, json_value_free(h, v))
<1>1. D!Free(AllDocuments(h), AllDocuments(json_value_free(h, v)), v)
  BY FreedDocument
<1>2. v \in DOMAIN AllDocuments(h)
  BY DocumentsAre
<1>. QED
  BY <1>1, <1>2 DEF Calls, D!Call

(* A copy is a document, the part that was copied (parson.c:1341-1418).     *)
LEMMA CopyCalls ==
  ASSUME NEW h, Good(h), NEW v \in Value, h[v].type # "free",
         Cardinality(FreeAddresses(h)) >= Cardinality(Tree(h, v))
  PROVE  Calls(h, json_value_deep_copy(h, v))
<1>. DEFINE g == json_value_deep_copy(h, v)
<1>1. Good(g) /\ \E to : Copied(h, g, v, to)
  BY DeepCopyGood
<1>. HIDE DEF g
<1>2. \E n \in Value \ DOMAIN AllDocuments(h) :
        D!New(AllDocuments(h), AllDocuments(g), n)
  BY <1>1, CopiesPart
<1>. QED
  BY <1>2 DEF Calls, D!Call, g

(* Every call is a call on the documents, or leaves them as they are.       *)
LEMMA NextCalls == Good(heap) /\ Next => Calls(heap, heap')
<1>. SUFFICES ASSUME Good(heap), Next PROVE Calls(heap, heap')
  OBVIOUS
<1>0. /\ \A v \in Live(heap) : v \in Value /\ heap[v].type # "free"
      /\ \A o \in Objects : o \in Value /\ heap[o].type = "object"
      /\ \A a \in Arrays : a \in Value /\ heap[a].type = "array"
  BY DEF Live, Objects, Arrays
<1>1. Room(1) => FreeAddresses(heap) # {}
  BY RoomIs DEF Room
<1>2. \A c \in Value, v \in Live(heap) :
        Legal(c, v) => MayHold(heap, c, v)
  BY <1>0 DEF Legal, MayHold
<1>3. CASE Make
  BY <1>1, <1>3, MakeCalls DEF Make
<1>4. CASE Release
  BY <1>0, <1>4, ReleaseCalls DEF Release
<1>5. CASE SetValue
  <2>1. PICK o \in Objects, path \in Dotted, v \in Live(heap) :
          /\ Legal(o, v) /\ Room(Len(path) - 1)
          /\ heap' = json_object_dotset_value(heap, o, path, v).heap
    BY <1>5 DEF SetValue, Call
  <2>2. Len(path) = 2 => FreeAddresses(heap) # {}
    BY <1>1, <2>1
  <2>3. Outcome(heap, json_object_dotset_value(heap, o, path, v), v)
    BY <1>0, <1>2, <2>1, <2>2, DotsetOutcome
  <2>. QED
    BY <2>1, <2>3, OutcomeCalls
<1>6. CASE SetScalar
  <2>1. PICK o \in Objects, path \in Dotted, type \in Scalar :
          /\ Room(Len(path))
          /\ heap' = json_object_dotset_scalar(heap, o, path, type).heap
    BY <1>6 DEF SetScalar, Call
  <2>. QED
    BY <1>0, <2>1, DotsetScalarCalls DEF Room
<1>7. CASE RemoveMember
  <2>1. PICK o \in Objects, path \in Dotted :
          heap' = json_object_dotremove(heap, o, path).heap
    BY <1>7 DEF RemoveMember, Call
  <2>. QED
    BY <1>0, <2>1, DotremoveCalls
<1>8. CASE AppendValue
  <2>1. PICK a \in Arrays, v \in Live(heap) :
          /\ Legal(a, v)
          /\ heap' = json_array_append_value(heap, a, v).heap
    BY <1>8 DEF AppendValue, Call
  <2>2. Outcome(heap, json_array_append_value(heap, a, v), v)
    BY <1>0, <1>2, <2>1, AppendOutcome
  <2>. QED
    BY <2>1, <2>2, OutcomeCalls
<1>9. CASE AppendScalar
  <2>. DEFINE new == malloc(heap)
  <2>1. PICK a \in Arrays, type \in Scalar :
          heap' = json_array_append_value(json_value_init(heap, type),
                                          a, new).heap
    BY <1>9 DEF AppendScalar, Call
  <2>. DEFINE k == json_value_init(heap, type)
              r == json_array_append_value(k, a, new)
  <2>2. FreeAddresses(heap) # {} /\ a \in Value /\ heap[a].type = "array"
    BY <1>0, <1>1, <1>9 DEF AppendScalar
  <2>3. /\ new \in Value /\ Good(k) /\ k[new].parent = NULL
        /\ k[a] = heap[a] /\ MayHold(k, a, new)
    <3>1. type \in Type /\ heap[a].type # "free"
      BY <2>2 DEF Type
    <3>. QED
      BY <2>2, <3>1, MadeIs
  <2>4. new = malloc(heap) /\ k = json_value_init(heap, type) /\ heap' = r.heap
    BY <2>1
  <2>. HIDE DEF k, new
  <2>5. Outcome(k, r, new)
    BY <2>2, <2>3, AppendOutcome
  <2>6. r.ret = "JSONSuccess"
    BY <2>3 DEF json_array_append_value, Success
  <2>. HIDE DEF r
  <2>. QED
    BY <2>2, <2>4, <2>5, <2>6, ScalarCalls
<1>10. CASE ReplaceValue
  <2>1. PICK a \in Arrays, v \in Live(heap), i \in Nat :
          /\ Legal(a, v)
          /\ heap' = json_array_replace_value(heap, a, i, v).heap
    BY <1>10 DEF ReplaceValue, Call
  <2>2. Outcome(heap, json_array_replace_value(heap, a, i, v), v)
    BY <1>0, <1>2, <2>1, ReplaceOutcome
  <2>. QED
    BY <2>1, <2>2, OutcomeCalls
<1>11. CASE ReplaceScalar
  <2>. DEFINE new == malloc(heap)
  <2>1. PICK a \in Arrays, type \in Scalar, i \in Nat :
          heap' = LET set == json_array_replace_value(
                               json_value_init(heap, type), a, i, new)
                  IN  IF set.ret = "JSONFailure"
                        THEN json_value_free(set.heap, new) ELSE set.heap
    BY <1>11 DEF ReplaceScalar
  <2>. DEFINE k == json_value_init(heap, type)
              set == json_array_replace_value(k, a, i, new)
  <2>2. FreeAddresses(heap) # {} /\ a \in Value /\ heap[a].type = "array"
    BY <1>0, <1>1, <1>11 DEF ReplaceScalar
  <2>3. /\ new \in Value /\ Good(k) /\ k[a] = heap[a] /\ MayHold(k, a, new)
    <3>1. type \in Type /\ heap[a].type # "free"
      BY <2>2 DEF Type
    <3>. QED
      BY <2>2, <3>1, MadeIs
  <2>4. /\ new = malloc(heap) /\ k = json_value_init(heap, type)
        /\ heap' = IF set.ret = "JSONFailure"
                     THEN json_value_free(set.heap, new) ELSE set.heap
    BY <2>1
  <2>. HIDE DEF new, k
  <2>5. Outcome(k, set, new)
    BY <2>2, <2>3, ReplaceOutcome
  <2>. HIDE DEF set
  <2>. QED
    BY <2>2, <2>4, <2>5, ScalarCalls
<1>12. CASE RemoveItem
  <2>1. PICK a \in Arrays, i \in Nat :
          heap' = json_array_remove(heap, a, i).heap
    BY <1>12 DEF RemoveItem, Call
  <2>. QED
    BY <1>0, <2>1, RemovesItem, ChangeCalls
<1>13. CASE Clear
  <2>1. PICK c \in Objects \cup Arrays : heap' = Cleared(heap, c)
    BY <1>13 DEF Clear
  <2>2. c \in Value /\ heap[c].type \in {"object", "array"}
    BY <1>0
  <2>. QED
    BY <2>1, <2>2, ClearsPart, ChangeCalls
<1>14. CASE DeepCopy
  BY <1>0, <1>14, CopyCalls DEF DeepCopy, Room
<1>. QED
  BY <1>3, <1>4, <1>5, <1>6, <1>7, <1>8, <1>9, <1>10, <1>11, <1>12, <1>13,
     <1>14 DEF Next

(* Before the first call there are no documents.                            *)
LEMMA InitDocuments == Init => D!Init
<1>. SUFFICES ASSUME Init PROVE D!Init
  OBVIOUS
<1>1. Roots(heap) = {}
  BY DEF Init, Roots, Live, NewValue
<1>2. AllDocuments(heap) = [h \in {} |-> D!Leaf("object")]
  BY <1>1 DEF AllDocuments
<1>. QED
  BY <1>2 DEF D!Init

(* The values in memory implement the documents that parson.h is about:     *)
(* whatever is called in whatever order, for any number of values and names *)
(* and any depth, a call changes the part it names, in the documents it is  *)
(* given, and nothing else; a copy is the part that was copied, and what is *)
(* set, removed or cleared is all that changes (parson.c:334-479, 1236-1418,*)
(* 1544-1846).                                                              *)
THEOREM JsonTreeImplementsDocuments == Spec => ImplementsDocuments
<1>1. ASSUME Good(heap), [Next]_heap
      PROVE  [D!Next]_(AllDocuments(heap))
  <2>1. CASE Next
    <3>1. Calls(heap, heap')
      BY <1>1, <2>1, NextCalls
    <3>2. AllDocuments(heap)' = AllDocuments(heap')
      OBVIOUS
    <3>. QED
      BY <3>1, <3>2 DEF Calls, D!Next
  <2>2. CASE UNCHANGED heap
    BY <2>2
  <2>. QED
    BY <1>1, <2>1, <2>2
<1>. QED
  BY <1>1, InitDocuments, AlwaysGood, PTL DEF Spec, ImplementsDocuments, D!Spec
=============================================================================
