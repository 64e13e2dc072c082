--------------------------- MODULE PathTreeProofs ---------------------------
(***************************************************************************)
(* The AVL tree keeps the records of a result set, balanced and in path    *)
(* order, for any paths and any number of records: rotations, insertions   *)
(* and walks link by link, and the map the tree implements.                *)
(***************************************************************************)
EXTENDS PathTree, SequenceTheorems, FiniteSetTheorems, WellFoundedInduction, TLAPS

----------------------------------------------------------------------------
(* Search trees on the heap *)

\* In the order of paths, on side s of one another.
Before(s, x, y) == IF s = "left" THEN x < y ELSE y < x

Below(u, n) == IF n = Null THEN {} ELSE u[n]

\* Links l make a tree of the nodes in use, with u[n] the nodes from n
\* downwards and a node's key between those on its two sides.
SearchTree(l, in, u, k) ==
  /\ \A p, q \in Place : l[p] = l[q] /\ l[p] # Null => p = q
  /\ \A p \in Place : l[p] \in in \cup {Null}
  /\ \A n \in Node \ in, s \in Side : l[<<n, s>>] = Null
  /\ Below(u, l[Root]) = in
  /\ \A n \in in : u[n] \subseteq in
  /\ \A n \in in : u[n] = {n} \cup Below(u, l[<<n, "left">>]) \cup Below(u, l[<<n, "right">>])
  /\ \A n \in in, s \in Side : \A m \in Below(u, l[<<n, s>>]) : Before(s, k[m], k[n])

Keys == [n \in InUse |-> PathOf(n)]

\* What is in the tree: a node for each path, with its last position.
Positions ==
  /\ \A m, n \in InUse : Keys[m] = Keys[n] => m = n
  /\ \A n \in InUse : n <= tree.index[n]
  /\ pc = "down" => /\ items # <<>>
                    /\ \A n \in InUse : tree.index[n] # PositionOfNewest
  /\ \A i \in 1 .. Len(items) :
       \/ pc = "down" /\ i = PositionOfNewest
       \/ \E n \in InUse : Keys[n] = items[i] /\ i <= tree.index[n]

\* The calls in progress go down from the root, each one place further, and
\* what is below a later one is below all earlier ones.
Calls(u) ==
  /\ stack # <<>> => stack[1] = Root
  /\ \A i \in 2 .. Len(stack) :
       stack[i] \in Node \X Side /\ stack[i][1] = tree.link[stack[i - 1]]
  /\ \A i, j \in 1 .. Len(stack) : i <= j =>
       Below(u, tree.link[stack[j]]) \subseteq Below(u, tree.link[stack[i]])
  /\ pc = "down" => stack # <<>>
  /\ pc = "up" /\ stack # <<>> => Here # Null
  /\ pc \in {"idle", "walk"} => stack = <<>>

\* The new path belongs where the calls have gone, and is nowhere else.
Descent(u) ==
  pc = "down" =>
    /\ \A i \in 2 .. Len(stack) : Before(stack[i][2], NewPath, Keys[stack[i][1]])
    /\ \A n \in InUse \ Below(u, Here) : Keys[n] # NewPath

\* The innermost call finds one subtree at most one higher than it was when
\* the node was settled.
AlmostSettled(t, n) ==
  \E s \in Side :
    LET high == Height(t, <<n, s>>)
        other == Height(t, <<n, Other(s)>>)
    IN \E h \in {high, high - 1} :
         /\ t.height[n] = 1 + (IF h > other THEN h ELSE other)
         /\ h >= 0 /\ h - other \in {-1, 0, 1}

Heights ==
  \A n \in InUse :
    IF pc = "up" /\ stack # <<>> /\ n = Here THEN AlmostSettled(tree, n)
    ELSE Settled(tree, n)

\* What a walk still has to visit.
Rest(u) ==
  Below(u, cursor)
    \cup UNION {{open[i]} \cup Below(u, tree.link[<<open[i], "right">>]) : i \in 1 .. Len(open)}

\* A walk has visited what comes before all the rest; what it is in comes
\* before the nodes it came through.
Walking(u) ==
  /\ pc # "walk" => cursor = Null /\ open = <<>> /\ visited = <<>>
  /\ cursor \in InUse \cup {Null}
  /\ \A i \in 1 .. Len(open) : open[i] \in InUse
  /\ \A i \in 1 .. Len(open) : \A m \in Below(u, cursor) : Keys[m] < Keys[open[i]]
  /\ \A j \in 1 .. Len(open) : \A i \in 1 .. j - 1 :
       \A m \in {open[j]} \cup Below(u, tree.link[<<open[j], "right">>]) : Keys[m] < Keys[open[i]]
  /\ pc = "walk" =>
       /\ \A m \in InUse \ Rest(u) : \A n \in Rest(u) : Keys[m] < Keys[n]
       /\ {visited[i] : i \in 1 .. Len(visited)} = {tree.index[m] : m \in InUse \ Rest(u)}
  /\ \A i, j \in 1 .. Len(visited) : i < j => items[visited[i]] < items[visited[j]]

Shape(u) ==
  /\ SearchTree(tree.link, InUse, u, Keys)
  /\ Calls(u)
  /\ Descent(u)
  /\ Walking(u)

LEMMA Sides ==
  \A s \in Side : /\ Other(s) \in Side /\ Other(s) # s /\ Other(Other(s)) = s
                  /\ \A t \in Side : t = s \/ t = Other(s)
BY DEF Side, Other

LEMMA Places ==
  /\ Null \notin Node /\ Root \in Place
  /\ \A n \in Node, s \in Side : <<n, s>> \in Place /\ <<n, s>> # Root
  /\ \A p \in Place : p = Root \/ \E n \in Node, s \in Side : p = <<n, s>>
BY TreeAssumption DEF Null, Node, Root, Place, Side

LEMMA BeforeFacts ==
  ASSUME NEW s \in Side, NEW x \in Int, NEW y \in Int
  PROVE  /\ ~Before(s, x, x)
         /\ Before(s, x, y) <=> Before(Other(s), y, x)
         /\ Before(s, x, y) => x # y
         /\ \A z \in Int : Before(s, x, y) /\ Before(s, y, z) => Before(s, x, z)
BY DEF Side, Before, Other

\* What is below a node on its two sides, by either name, and not itself.
SidesOf(l, in, u) ==
  \A n \in in : \A s \in Side :
    /\ n \notin Below(u, l[<<n, s>>])
    /\ u[n] = {n} \cup Below(u, l[<<n, s>>]) \cup Below(u, l[<<n, Other(s)>>])

LEMMA BelowNode ==
  ASSUME NEW l \in [Place -> Node \cup {Null}], NEW in \in SUBSET Node,
         NEW u \in [Node -> SUBSET Node], NEW k \in [in -> Int], SearchTree(l, in, u, k)
  PROVE  SidesOf(l, in, u)
<1> SUFFICES ASSUME NEW n \in in, NEW s \in Side
             PROVE  /\ n \notin Below(u, l[<<n, s>>])
                    /\ u[n] = {n} \cup Below(u, l[<<n, s>>]) \cup Below(u, l[<<n, Other(s)>>])
  BY DEF SidesOf
<1>1. u[n] = {n} \cup Below(u, l[<<n, "left">>]) \cup Below(u, l[<<n, "right">>])
  BY DEF SearchTree
<1>2. u[n] = {n} \cup Below(u, l[<<n, s>>]) \cup Below(u, l[<<n, Other(s)>>])
  <2>1. CASE s = "left"
    BY <1>1, <2>1 DEF Other
  <2>2. CASE s = "right"
    BY <1>1, <2>2 DEF Other
  <2> QED BY <2>1, <2>2 DEF Side
<1>3. n \in Below(u, l[<<n, s>>]) => Before(s, k[n], k[n])
  BY DEF SearchTree
<1> QED BY <1>2, <1>3, BeforeFacts

\* What a place links to and what is below it are in use.
PlacesOf(l, in, u) ==
  \A p \in Place :
    /\ Below(u, l[p]) \subseteq in
    /\ l[p] # Null => l[p] \in in /\ l[p] \in u[l[p]] /\ u[l[p]] = Below(u, l[p])
    /\ l[p] = Null => Below(u, l[p]) = {}

LEMMA BelowPlace ==
  ASSUME NEW l \in [Place -> Node \cup {Null}], NEW in \in SUBSET Node,
         NEW u \in [Node -> SUBSET Node], NEW k \in [in -> Int], SearchTree(l, in, u, k)
  PROVE  PlacesOf(l, in, u)
<1> SUFFICES ASSUME NEW p \in Place
             PROVE  /\ Below(u, l[p]) \subseteq in
                    /\ l[p] # Null => l[p] \in in /\ l[p] \in u[l[p]] /\ u[l[p]] = Below(u, l[p])
                    /\ l[p] = Null => Below(u, l[p]) = {}
  BY DEF PlacesOf
<1>1. l[p] \in in \cup {Null} /\ \A n \in in : n \in u[n] /\ u[n] \subseteq in
  BY DEF SearchTree
<1> QED BY <1>1, Places DEF Below

Relinked(l, p, s) ==
  LET n == l[p]
      c == l[<<n, s>>]
  IN [l EXCEPT ![<<n, s>>] = l[<<c, Other(s)>>], ![<<c, Other(s)>>] = n, ![p] = c]

Turned(l, u, p, s) ==
  LET n == l[p]
      c == l[<<n, s>>]
  IN [u EXCEPT ![c] = u[n],
               ![n] = {n} \cup Below(u, l[<<c, Other(s)>>]) \cup Below(u, l[<<n, Other(s)>>])]

Rotation(l, in, u, k, p, s, n, c) ==
  /\ SearchTree(l, in, u, k)
  /\ n = l[p] /\ c = l[<<n, s>>]

Rotates(l, in, u, k, p, s, n, c, m, v) ==
  /\ Rotation(l, in, u, k, p, s, n, c)
  /\ m = Relinked(l, p, s) /\ v = Turned(l, u, p, s)

\* The places and nodes a rotation concerns are different ones.
Apart(in, u, p, s, n, c) ==
  /\ n \in in /\ c \in in /\ n # c /\ n \notin u[c] /\ Other(s) \in Side
  /\ <<n, s>> \in Place /\ <<c, Other(s)>> \in Place
  /\ p # <<n, s>> /\ p # <<c, Other(s)>> /\ <<n, s>> # <<c, Other(s)>>
  /\ p # <<c, s>> /\ p # <<n, Other(s)>>
  /\ u[c] \subseteq u[n]

\* A rotation concerns three places and two nodes.
LEMMA RotationPlaces ==
  ASSUME NEW l \in [Place -> Node \cup {Null}], NEW in \in SUBSET Node,
         NEW u \in [Node -> SUBSET Node], NEW k \in [in -> Int],
         NEW p \in Place, NEW s \in Side, NEW n \in Node, NEW c \in Node,
         Rotation(l, in, u, k, p, s, n, c)
  PROVE  Apart(in, u, p, s, n, c)
<1> SearchTree(l, in, u, k) /\ n = l[p] /\ c = l[<<n, s>>]
  BY DEF Rotation
<1>a. \A a \in in : \A t \in Side :
        /\ a \notin Below(u, l[<<a, t>>])
        /\ u[a] = {a} \cup Below(u, l[<<a, t>>]) \cup Below(u, l[<<a, Other(t)>>])
  <2>1. SidesOf(l, in, u)
    BY BelowNode
  <2> QED BY <2>1 DEF SidesOf
<1>b. \A q \in Place : l[q] # Null =>
           l[q] \in in /\ l[q] \in u[l[q]] /\ u[l[q]] = Below(u, l[q])
  <2>1. PlacesOf(l, in, u)
    BY BelowPlace
  <2> QED BY <2>1 DEF PlacesOf
<1> n # Null /\ c # Null
  BY Places
<1>1. n \in in /\ n \in Node /\ Other(s) \in Side
  BY <1>a, <1>b, Sides
<1>2. <<n, s>> \in Place
  BY <1>1, Places
<1>3. c \in in /\ c \in Node /\ c \in u[c] /\ u[c] = Below(u, l[<<n, s>>])
  BY <1>a, <1>b, <1>2
<1>4. n \notin u[c]
  <2>1. n \notin Below(u, l[<<n, s>>])
    BY <1>a, <1>b, <1>1
  <2> QED BY <1>3, <2>1
<1>5. n # c
  BY <1>3, <1>4
<1>6. ASSUME NEW t \in Side PROVE p # <<c, t>> /\ p # <<n, t>>
  <2>1. n \notin Below(u, l[<<n, t>>])
    BY <1>a, <1>b, <1>1
  <2>2. Below(u, l[<<c, t>>]) \subseteq u[c]
    BY <1>a, <1>b, <1>3
  <2>3. n \in Below(u, l[p])
    BY <1>a, <1>b
  <2> QED BY <1>4, <2>1, <2>2, <2>3
<1>7. u[c] \subseteq u[n]
  <2>1. u[n] = {n} \cup Below(u, l[<<n, s>>]) \cup Below(u, l[<<n, Other(s)>>])
    BY <1>a, <1>b, <1>1
  <2> QED BY <1>3, <2>1
<1> QED BY <1>1, <1>2, <1>3, <1>4, <1>5, <1>6, <1>7, Places DEF Apart

LEMMA RotationTypes ==
  ASSUME NEW l \in [Place -> Node \cup {Null}], NEW in \in SUBSET Node,
         NEW u \in [Node -> SUBSET Node], NEW k \in [in -> Int], SearchTree(l, in, u, k),
         NEW p \in Place, NEW s \in Side, l[p] # Null, l[<<l[p], s>>] # Null
  PROVE  /\ Relinked(l, p, s) \in [Place -> Node \cup {Null}]
         /\ Turned(l, u, p, s) \in [Node -> SUBSET Node]
<1>1. \A q \in Place : Below(u, l[q]) \subseteq Node
  <2>1. PlacesOf(l, in, u)
    BY BelowPlace
  <2> QED BY <2>1 DEF PlacesOf
<1>2. l[p] \in Node /\ <<l[p], s>> \in Place
  BY Places
<1>3. l[<<l[p], s>>] \in Node
  BY <1>2
<1>4. <<l[p], Other(s)>> \in Place /\ <<l[<<l[p], s>>], Other(s)>> \in Place
  BY <1>2, <1>3, Places, Sides
<1> QED BY <1>1, <1>2, <1>3, <1>4 DEF Relinked, Turned

\* The links and the nodes below a node after a rotation.
Afterwards(l, u, p, s, n, c, m, v) ==
  /\ m[p] = c /\ m[<<c, Other(s)>>] = n
  /\ m[<<n, s>>] = l[<<c, Other(s)>>]
  /\ m[<<n, Other(s)>>] = l[<<n, Other(s)>>]
  /\ m[<<c, s>>] = l[<<c, s>>]
  /\ \A q \in Place \ {p, <<n, s>>, <<c, Other(s)>>} : m[q] = l[q]
  /\ v[c] = u[n]
  /\ v[n] = {n} \cup Below(u, l[<<c, Other(s)>>]) \cup Below(u, l[<<n, Other(s)>>])
  /\ \A a \in Node \ {n, c} : v[a] = u[a]
  /\ \A a \in (Node \cup {Null}) \ {n, c} : Below(v, a) = Below(u, a)

\* A rotation, link by link.
LEMMA RotationLinks ==
  ASSUME NEW l \in [Place -> Node \cup {Null}], NEW in \in SUBSET Node,
         NEW u \in [Node -> SUBSET Node], NEW k \in [in -> Int],
         NEW p \in Place, NEW s \in Side, NEW n \in Node, NEW c \in Node,
         NEW m \in [Place -> Node \cup {Null}], NEW v \in [Node -> SUBSET Node],
         Rotates(l, in, u, k, p, s, n, c, m, v)
  PROVE  Afterwards(l, u, p, s, n, c, m, v)
<1> Rotation(l, in, u, k, p, s, n, c) /\ m = Relinked(l, p, s) /\ v = Turned(l, u, p, s)
  BY DEF Rotates
<1>1. /\ n \in Node /\ c \in Node /\ n # c /\ Other(s) \in Side /\ Other(s) # s
      /\ <<n, s>> \in Place /\ <<c, Other(s)>> \in Place
      /\ <<n, Other(s)>> \in Place /\ <<c, s>> \in Place
      /\ p # <<n, s>> /\ p # <<c, Other(s)>> /\ <<n, s>> # <<c, Other(s)>>
      /\ p # <<c, s>> /\ p # <<n, Other(s)>>
  <2>1. Apart(in, u, p, s, n, c)
    BY RotationPlaces
  <2> QED BY <2>1, Sides, Places DEF Apart
<1> SearchTree(l, in, u, k) /\ n = l[p] /\ c = l[<<n, s>>]
  BY DEF Rotation
<1> DEFINE g == <<c, Other(s)>>
           h == <<n, s>>
<1>2. m = [l EXCEPT ![h] = l[g], ![g] = n, ![p] = c]
  BY DEF Relinked
<1>3. g \in Place /\ h \in Place /\ p # h /\ p # g /\ h # g
  BY <1>1
<1> HIDE DEF g, h
<1>4. /\ m[p] = c /\ m[g] = n /\ m[h] = l[g]
      /\ \A q \in Place \ {p, g, h} : m[q] = l[q]
  BY <1>1, <1>2, <1>3
<1>5. <<n, Other(s)>> \notin {p, g, h} /\ <<c, s>> \notin {p, g, h}
  BY <1>1 DEF g, h
<1>6. /\ v[c] = u[n]
      /\ v[n] = {n} \cup Below(u, l[<<c, Other(s)>>]) \cup Below(u, l[<<n, Other(s)>>])
      /\ \A a \in Node \ {n, c} : v[a] = u[a]
  BY <1>1 DEF Turned
<1>7. \A a \in (Node \cup {Null}) \ {n, c} : Below(v, a) = Below(u, a)
  BY <1>6 DEF Below
<1> QED BY <1>1, <1>4, <1>5, <1>6, <1>7 DEF g, h, Afterwards

\* A rotation leaves a search tree, and what is below the place as it was.
LEMMA RotationKeepsTree ==
  ASSUME NEW l \in [Place -> Node \cup {Null}], NEW in \in SUBSET Node,
         NEW u \in [Node -> SUBSET Node], NEW k \in [in -> Int],
         NEW p \in Place, NEW s \in Side, NEW n \in Node, NEW c \in Node,
         NEW m \in [Place -> Node \cup {Null}], NEW v \in [Node -> SUBSET Node],
         Rotates(l, in, u, k, p, s, n, c, m, v)
  PROVE  /\ SearchTree(m, in, v, k)
         /\ Below(v, m[p]) = Below(u, l[p])
<1> Rotation(l, in, u, k, p, s, n, c) /\ m = Relinked(l, p, s) /\ v = Turned(l, u, p, s)
  BY DEF Rotates
<1>0. /\ n \in in /\ c \in in /\ n # c /\ n \notin u[c] /\ Other(s) \in Side
      /\ <<n, s>> \in Place /\ <<c, Other(s)>> \in Place
      /\ p # <<n, s>> /\ p # <<c, Other(s)>> /\ <<n, s>> # <<c, Other(s)>>
      /\ p # <<c, s>> /\ p # <<n, Other(s)>>
      /\ u[c] \subseteq u[n]
  <2>1. Apart(in, u, p, s, n, c)
    BY RotationPlaces
  <2> QED BY <2>1 DEF Apart
<1>2. /\ m[p] = c /\ m[<<c, Other(s)>>] = n
      /\ m[<<n, s>>] = l[<<c, Other(s)>>]
      /\ m[<<n, Other(s)>>] = l[<<n, Other(s)>>]
      /\ m[<<c, s>>] = l[<<c, s>>]
      /\ \A q \in Place \ {p, <<n, s>>, <<c, Other(s)>>} : m[q] = l[q]
      /\ v[c] = u[n]
      /\ v[n] = {n} \cup Below(u, l[<<c, Other(s)>>]) \cup Below(u, l[<<n, Other(s)>>])
      /\ \A a \in Node \ {n, c} : v[a] = u[a]
      /\ \A a \in (Node \cup {Null}) \ {n, c} : Below(v, a) = Below(u, a)
  <2>1. Afterwards(l, u, p, s, n, c, m, v)
    BY RotationLinks
  <2> QED BY <2>1 DEF Afterwards
<1> SearchTree(l, in, u, k) /\ n = l[p] /\ c = l[<<n, s>>]
  BY DEF Rotation
<1> DEFINE o == Other(s)
           g == l[<<c, o>>]
           d == l[<<n, o>>]
<1>1. /\ n \in in /\ c \in in /\ n # c /\ n \notin u[c] /\ o \in Side
      /\ <<n, s>> \in Place /\ <<c, o>> \in Place
      /\ p # <<n, s>> /\ p # <<c, o>> /\ <<n, s>> # <<c, o>>
      /\ p # <<c, s>> /\ p # <<n, o>>
      /\ u[c] \subseteq u[n]
  BY <1>0
<1>3. /\ m[<<c, o>>] = n /\ m[<<n, s>>] = g /\ m[<<n, o>>] = d
      /\ v[n] = {n} \cup Below(u, g) \cup Below(u, d)
      /\ \A q \in Place \ {p, <<n, s>>, <<c, o>>} : m[q] = l[q]
  BY <1>2
<1>4. n # Null /\ c # Null
  BY Places
<1>5. /\ \A q, r \in Place : l[q] = l[r] /\ l[q] # Null => q = r
      /\ \A q \in Place : l[q] \in in \cup {Null}
      /\ \A a \in Node \ in, t \in Side : l[<<a, t>>] = Null
      /\ Below(u, l[Root]) = in
      /\ \A a \in in : u[a] \subseteq in
  BY DEF SearchTree
<1> g \in in \cup {Null} /\ d \in in \cup {Null} /\ <<n, o>> \in Place /\ <<c, s>> \in Place
  BY <1>1, <1>5, Places
<1>6. g # n /\ g # c /\ d # n /\ d # c /\ l[<<c, s>>] # n /\ l[<<c, s>>] # c
  <2>1. o # s
    BY Sides
  <2> HIDE DEF o
  <2>2. <<n, o>> # <<n, s>> /\ <<c, s>> # <<n, s>>
    BY <1>1, <2>1
  <2> QED BY <1>1, <1>4, <1>5, <2>2
<1>7. /\ Below(v, n) = v[n] /\ Below(v, c) = u[n] /\ Below(u, n) = u[n] /\ Below(u, c) = u[c]
      /\ Below(v, g) = Below(u, g) /\ Below(v, d) = Below(u, d)
      /\ Below(v, l[<<c, s>>]) = Below(u, l[<<c, s>>])
  <2>1. l[<<c, s>>] \in in \cup {Null}
    BY <1>5
  <2> QED BY <1>2, <1>3, <1>4, <1>6, <2>1 DEF Below
<1>8. /\ u[n] = {n} \cup u[c] \cup Below(u, d)
      /\ u[c] = {c} \cup Below(u, l[<<c, s>>]) \cup Below(u, g)
  <2>1. SidesOf(l, in, u)
    BY BelowNode
  <2> QED BY <1>1, <1>7, <2>1 DEF SidesOf, o, g, d
<1> HIDE DEF o, g, d
<1>9. ASSUME NEW q \in Place, q \notin {<<n, s>>, <<c, o>>}
      PROVE  Below(v, m[q]) = Below(u, l[q])
  <2>1. CASE q = p
    BY <1>2, <1>3, <1>7, <2>1
  <2>2. CASE q # p
    <3>1. m[q] = l[q]
      BY <1>2, <1>3, <1>9, <2>2
    <3>2. l[q] # n /\ l[q] # c
      BY <1>1, <1>4, <1>5, <1>9, <2>2
    <3> QED BY <1>2, <1>3, <1>5, <3>1, <3>2
  <2> QED BY <2>1, <2>2
<1>10. \A q, r \in Place : m[q] = m[r] /\ m[q] # Null => q = r
  <2> SUFFICES ASSUME NEW q \in Place, NEW r \in Place, m[q] = m[r], m[q] # Null
               PROVE  q = r
    OBVIOUS
  <2> DEFINE old(x) == IF x = p THEN <<n, s>> ELSE IF x = <<n, s>> THEN <<c, o>>
                       ELSE IF x = <<c, o>> THEN p ELSE x
  <2>1. \A x \in Place : old(x) \in Place /\ m[x] = l[old(x)]
    BY <1>1, <1>2, <1>3 DEF g
  <2>2. \A x, y \in Place : old(x) = old(y) => x = y
    BY <1>1
  <2> HIDE DEF old
  <2> QED BY <1>5, <2>1, <2>2
<1>11. \A q \in Place : m[q] \in in \cup {Null}
  BY <1>1, <1>2, <1>3, <1>5
<1>12. \A a \in Node \ in, t \in Side : m[<<a, t>>] = Null
  <2> SUFFICES ASSUME NEW a \in Node \ in, NEW t \in Side PROVE m[<<a, t>>] = Null
    OBVIOUS
  <2>1. <<a, t>> \in Place /\ l[<<a, t>>] = Null
    BY <1>5, Places
  <2>2. <<a, t>> # p /\ <<a, t>> # <<n, s>> /\ <<a, t>> # <<c, o>>
    BY <1>1, <1>4, <2>1
  <2> QED BY <1>2, <1>3, <2>1, <2>2
<1>13. Below(v, m[Root]) = in
  BY <1>1, <1>5, <1>9, Places
<1>14. \A a \in in : v[a] \subseteq in
  <2>1. v[c] \subseteq in
    BY <1>1, <1>2, <1>3, <1>5
  <2>2. v[n] \subseteq in
    <3>1. Below(u, g) \subseteq u[c] /\ Below(u, d) \subseteq u[n]
      BY <1>8
    <3> QED BY <1>1, <1>2, <1>3, <1>5, <3>1
  <2> QED BY <1>2, <1>3, <1>5, <2>1, <2>2
<1>15. ASSUME NEW a \in in
       PROVE  v[a] = {a} \cup Below(v, m[<<a, s>>]) \cup Below(v, m[<<a, o>>])
  <2>1. CASE a = n
    BY <1>2, <1>3, <1>7, <2>1
  <2>2. CASE a = c
    <3>1. m[<<a, s>>] = l[<<c, s>>] /\ m[<<a, o>>] = n
      BY <1>2, <1>3, <2>2
    <3>2. /\ Below(v, m[<<a, s>>]) = Below(u, l[<<c, s>>])
          /\ Below(v, m[<<a, o>>]) = {n} \cup Below(u, g) \cup Below(u, d)
      BY <1>3, <1>7, <3>1
    <3>3. v[a] = {n} \cup ({c} \cup Below(u, l[<<c, s>>]) \cup Below(u, g)) \cup Below(u, d)
      BY <1>2, <1>8, <2>2
    <3> QED BY <2>2, <3>2, <3>3
  <2>3. CASE a # n /\ a # c
    <3>1. <<a, s>> \in Place /\ <<a, o>> \in Place
      BY <1>1, Places
    <3>2. /\ <<a, s>> \notin {<<n, s>>, <<c, o>>}
          /\ <<a, o>> \notin {<<n, s>>, <<c, o>>}
      BY <2>3
    <3>3. /\ Below(v, m[<<a, s>>]) = Below(u, l[<<a, s>>])
          /\ Below(v, m[<<a, o>>]) = Below(u, l[<<a, o>>])
      BY <1>9, <3>1, <3>2
    <3>4. u[a] = {a} \cup Below(u, l[<<a, s>>]) \cup Below(u, l[<<a, o>>])
      <4>1. SidesOf(l, in, u)
        BY BelowNode
      <4> QED BY <4>1, Sides DEF SidesOf, o
    <3>5. v[a] = u[a]
      BY <1>2, <1>3, <2>3
    <3> QED BY <3>3, <3>4, <3>5
  <2> QED BY <2>1, <2>2, <2>3
<1>16. \A a \in in : v[a] = {a} \cup Below(v, m[<<a, "left">>]) \cup Below(v, m[<<a, "right">>])
  <2>1. CASE s = "left"
    BY <1>15, <2>1 DEF o, Other
  <2>2. CASE s = "right"
    BY <1>15, <2>2 DEF o, Other
  <2> QED BY <2>1, <2>2 DEF Side
<1>17. \A a \in in, t \in Side : \A b \in Below(u, l[<<a, t>>]) : Before(t, k[b], k[a])
  BY DEF SearchTree
<1>18. ASSUME NEW a \in in, NEW t \in Side, NEW b \in Below(v, m[<<a, t>>])
       PROVE  Before(t, k[b], k[a])
  <2>1. t = s \/ t = o
    BY Sides DEF o
  <2>2. c \in Below(u, l[<<n, s>>]) /\ Below(u, l[<<n, s>>]) = u[c]
    BY <1>7, <1>8
  <2>3. Before(o, k[n], k[c])
    <3>1. Before(s, k[c], k[n])
      BY <1>1, <1>17, <2>2
    <3> QED BY <1>1, <3>1, BeforeFacts DEF o
  <2>4. CASE a = n /\ t = s
    <3>1. b \in Below(u, l[<<n, s>>])
      BY <1>2, <1>3, <1>7, <1>8, <2>2, <2>4
    <3> QED BY <1>1, <1>17, <2>4, <3>1
  <2>5. CASE a = n /\ t = o
    BY <1>1, <1>2, <1>3, <1>7, <1>17, <2>5 DEF d
  <2>6. CASE a = c /\ t = s
    BY <1>1, <1>2, <1>3, <1>7, <1>17, <2>6
  <2>7. CASE a = c /\ t = o
    <3>1. b \in {n} \cup Below(u, g) \cup Below(u, d)
      BY <1>2, <1>3, <1>7, <2>7
    <3>2. CASE b = n
      BY <2>3, <2>7, <3>2
    <3>3. CASE b \in Below(u, g)
      BY <1>1, <1>17, <2>7, <3>3 DEF g
    <3>4. CASE b \in Below(u, d)
      <4>1. Before(o, k[b], k[n])
        BY <1>1, <1>17, <3>4 DEF d
      <4>2. b \in in
        BY <1>1, <1>5, <1>8, <3>4
      <4> QED BY <1>1, <2>3, <2>7, <4>1, <4>2, BeforeFacts
    <3> QED BY <3>1, <3>2, <3>3, <3>4
  <2>8. CASE a # n /\ a # c
    <3>1. <<a, t>> \in Place /\ <<a, t>> \notin {<<n, s>>, <<c, o>>}
      BY <2>8, Places
    <3>2. b \in Below(u, l[<<a, t>>])
      BY <1>9, <3>1
    <3> QED BY <1>17, <3>2
  <2> QED BY <2>1, <2>4, <2>5, <2>6, <2>7, <2>8
<1>19. SearchTree(m, in, v, k)
  BY <1>10, <1>11, <1>12, <1>13, <1>14, <1>16, <1>18 DEF SearchTree
<1> QED BY <1>1, <1>9, <1>19

----------------------------------------------------------------------------
(* Heights *)

Trees ==
  [link : [Place -> Node \cup {Null}], height : [Node -> Nat], index : [Node -> Nat]]

\* The height above two subtrees does not depend on which is the left one.
LEMMA HeightSides ==
  ASSUME NEW t \in Trees, NEW n \in Node, NEW s \in Side
  PROVE  /\ Height(t, <<n, s>>) \in Nat /\ Height(t, <<n, Other(s)>>) \in Nat
         /\ HeightAbove(t, n) \in Nat
         /\ Height(t, <<n, s>>) <= Height(t, <<n, Other(s)>>) =>
              HeightAbove(t, n) = 1 + Height(t, <<n, Other(s)>>)
         /\ Height(t, <<n, s>>) >= Height(t, <<n, Other(s)>>) =>
              HeightAbove(t, n) = 1 + Height(t, <<n, s>>)
         /\ Settled(t, n) <=>
              /\ t.height[n] = HeightAbove(t, n)
              /\ Height(t, <<n, s>>) - Height(t, <<n, Other(s)>>) \in {-1, 0, 1}
<1> DEFINE left == Height(t, <<n, "left">>)
           right == Height(t, <<n, "right">>)
<1>1. left \in Nat /\ right \in Nat
  BY Places DEF Trees, Height, Side
<1>2. HeightAbove(t, n) = 1 + (IF left > right THEN left ELSE right)
  BY DEF HeightAbove
<1>3. Settled(t, n) <=> t.height[n] = HeightAbove(t, n) /\ left - right \in {-1, 0, 1}
  BY DEF Settled
<1> HIDE DEF left, right
<1>4. CASE s = "left"
  <2>1. Height(t, <<n, s>>) = left /\ Height(t, <<n, Other(s)>>) = right
    BY <1>4 DEF left, right, Other
  <2> QED BY <1>1, <1>2, <1>3, <2>1
<1>5. CASE s = "right"
  <2>1. Height(t, <<n, s>>) = right /\ Height(t, <<n, Other(s)>>) = left
    BY <1>5 DEF left, right, Other
  <2> QED BY <1>1, <1>2, <1>3, <2>1
<1> QED BY <1>4, <1>5 DEF Side

Updated(t, r, n) ==
  /\ r \in Trees /\ r.link = t.link /\ r.index = t.index
  /\ r.height[n] = HeightAbove(t, n)
  /\ \A x \in Node \ {n} : r.height[x] = t.height[x]
  /\ \A q \in Place : t.link[q] # n => Height(r, q) = Height(t, q)
  /\ (\A s \in Side : t.link[<<n, s>>] # n) => HeightAbove(r, n) = HeightAbove(t, n)

LEMMA UpdateHeightFacts ==
  ASSUME NEW t \in Trees, NEW n \in Node
  PROVE  Updated(t, UpdateHeight(t, n), n)
<1> DEFINE r == UpdateHeight(t, n)
<1>1. HeightAbove(t, n) \in Nat
  BY HeightSides DEF Side
<1>2. /\ r.link = t.link /\ r.index = t.index
      /\ r.height = [t.height EXCEPT ![n] = HeightAbove(t, n)]
      /\ r = [link |-> r.link, height |-> r.height, index |-> r.index]
  BY DEF UpdateHeight, Trees
<1>3. r \in Trees
  BY <1>1, <1>2 DEF Trees
<1>4. /\ r.height[n] = HeightAbove(t, n)
      /\ \A x \in Node \ {n} : r.height[x] = t.height[x]
  BY <1>2 DEF Trees
<1> HIDE DEF r
<1>5. \A q \in Place : t.link[q] # n => Height(r, q) = Height(t, q)
  BY <1>2, <1>4 DEF Height, Trees
<1>6. (\A s \in Side : t.link[<<n, s>>] # n) => HeightAbove(r, n) = HeightAbove(t, n)
  BY <1>5, Places DEF HeightAbove, Side
<1> QED BY <1>2, <1>3, <1>4, <1>5, <1>6 DEF Updated, r

\* What a rotation of c over n does to links and heights.
Rotated(t, r, p, s, n, c) ==
  /\ r \in Trees /\ r.index = t.index /\ r.link = Relinked(t.link, p, s)
  /\ r.link[p] = c /\ r.link[<<c, Other(s)>>] = n
  /\ r.link[<<n, s>>] = t.link[<<c, Other(s)>>]
  /\ r.height[n] = HeightAbove(r, n) /\ r.height[c] = HeightAbove(r, c)
  /\ Height(r, <<n, s>>) = Height(t, <<c, Other(s)>>)
  /\ Height(r, <<n, Other(s)>>) = Height(t, <<n, Other(s)>>)
  /\ Height(r, <<c, s>>) = Height(t, <<c, s>>)
  /\ Height(r, <<c, Other(s)>>) = r.height[n]
  /\ \A x \in Node \ {n, c} : r.height[x] = t.height[x]
  /\ \A q \in Place \ {p, <<n, s>>, <<c, Other(s)>>} :
       r.link[q] = t.link[q] /\ Height(r, q) = Height(t, q)

LEMMA RotateFacts ==
  ASSUME NEW t \in Trees, NEW in \in SUBSET Node,
         NEW u \in [Node -> SUBSET Node], NEW k \in [in -> Int],
         NEW p \in Place, NEW s \in Side, NEW n \in Node, NEW c \in Node,
         Rotation(t.link, in, u, k, p, s, n, c)
  PROVE  Rotated(t, Rotate(t, p, s), p, s, n, c)
<1> DEFINE l == t.link
           o == Other(s)
           m == [t EXCEPT !.link = Relinked(t.link, p, s)]
           a == UpdateHeight(m, n)
           r == UpdateHeight(a, c)
           v == Turned(l, u, p, s)
<1>1. l \in [Place -> Node \cup {Null}] /\ Rotation(l, in, u, k, p, s, n, c)
  BY DEF Trees
<1>2. SearchTree(l, in, u, k) /\ n = l[p] /\ c = l[<<n, s>>] /\ n # Null /\ c # Null
  BY <1>1, Places DEF Rotation
<1> HIDE DEF l
<1>3. Relinked(l, p, s) \in [Place -> Node \cup {Null}] /\ v \in [Node -> SUBSET Node]
  BY <1>1, <1>2, RotationTypes
<1>4. Afterwards(l, u, p, s, n, c, Relinked(l, p, s), v)
  <2>1. Rotates(l, in, u, k, p, s, n, c, Relinked(l, p, s), v)
    BY <1>1 DEF Rotates
  <2> QED BY <1>1, <1>3, <2>1, RotationLinks
<1>5. Apart(in, u, p, s, n, c)
  BY <1>1, RotationPlaces
<1>6. r = Rotate(t, p, s)
  BY <1>2 DEF Rotate, Relinked, l
<1>7. m \in Trees /\ m.link = Relinked(l, p, s) /\ m.height = t.height /\ m.index = t.index
  BY <1>3 DEF Trees, l
<1>8. Updated(m, a, n)
  BY <1>7, UpdateHeightFacts
<1>9. a \in Trees
  BY <1>8 DEF Updated
<1>10. Updated(a, r, c)
  BY <1>9, UpdateHeightFacts
<1> HIDE DEF m, a, r, v
<1>11. /\ r \in Trees /\ r.index = t.index /\ r.link = Relinked(l, p, s)
       /\ a.link = Relinked(l, p, s) /\ m.link = Relinked(l, p, s)
  BY <1>7, <1>8, <1>10 DEF Updated
<1> DEFINE x == Relinked(l, p, s)
<1> HIDE DEF x
<1>12. /\ o \in Side /\ o # s /\ <<n, s>> \in Place /\ <<c, o>> \in Place
       /\ <<n, o>> \in Place /\ <<c, s>> \in Place /\ n # c
       /\ p # <<n, s>> /\ p # <<c, o>> /\ p # <<c, s>> /\ p # <<n, o>>
  BY <1>5, Sides, Places DEF Apart
<1>13. /\ x[p] = c /\ x[<<c, o>>] = n /\ x[<<n, s>>] = l[<<c, o>>]
       /\ x[<<n, o>>] = l[<<n, o>>] /\ x[<<c, s>>] = l[<<c, s>>]
       /\ \A q \in Place \ {p, <<n, s>>, <<c, o>>} : x[q] = l[q]
  BY <1>4 DEF Afterwards, x
<1>14. \A q \in Place : l[q] = n => q = p
  BY <1>2 DEF SearchTree
<1>15. \A q \in Place : l[q] = c => q = <<n, s>>
  BY <1>2, <1>12 DEF SearchTree
<1>16. ASSUME NEW q \in Place, NEW y \in Place, x[q] = l[y], y # p, y # <<n, s>>
       PROVE  Height(r, q) = Height(t, y)
  <2>1. x[q] # n /\ x[q] # c
    BY <1>14, <1>15, <1>16
  <2>2. Height(r, q) = Height(a, q) /\ Height(a, q) = Height(m, q)
    BY <1>8, <1>10, <1>11, <2>1 DEF Updated, x
  <2>3. Height(m, q) = Height(t, y)
    BY <1>7, <1>11, <1>16 DEF Height, x, l
  <2> QED BY <2>2, <2>3
<1>17. /\ Height(r, <<n, s>>) = Height(t, <<c, o>>)
       /\ Height(r, <<n, o>>) = Height(t, <<n, o>>)
       /\ Height(r, <<c, s>>) = Height(t, <<c, s>>)
       /\ \A q \in Place \ {p, <<n, s>>, <<c, o>>} : x[q] = l[q] /\ Height(r, q) = Height(t, q)
  <2>1. <<c, o>> # <<n, s>> /\ <<n, o>> # <<n, s>> /\ <<c, s>> # <<n, s>>
    BY <1>12
  <2> QED BY <1>12, <1>13, <1>16, <2>1
<1>18. \A y \in Side : x[<<n, y>>] # n /\ x[<<n, y>>] # c /\ x[<<c, y>>] # c
  <2>1. x[<<n, s>>] # n /\ x[<<n, s>>] # c
    BY <1>12, <1>13, <1>14, <1>15
  <2>2. x[<<n, o>>] # n /\ x[<<n, o>>] # c
    <3>1. <<n, o>> # <<n, s>>
      BY <1>12
    <3> QED BY <1>12, <1>13, <1>14, <1>15, <3>1
  <2>3. x[<<c, s>>] # c /\ x[<<c, o>>] # c
    <3>1. <<c, s>> # <<n, s>>
      BY <1>12
    <3> QED BY <1>12, <1>13, <1>15, <3>1
  <2> QED BY <2>1, <2>2, <2>3, Sides
<1>19. r.height[c] = HeightAbove(r, c)
  BY <1>10, <1>11, <1>18 DEF Updated, x
<1>20. r.height[n] = HeightAbove(r, n)
  <2>1. HeightAbove(a, n) = HeightAbove(m, n) /\ a.height[n] = HeightAbove(m, n)
    BY <1>8, <1>11, <1>18 DEF Updated, x
  <2>2. r.height[n] = a.height[n]
    BY <1>10, <1>12 DEF Updated
  <2>3. \A y \in Side : Height(r, <<n, y>>) = Height(a, <<n, y>>)
    BY <1>10, <1>11, <1>18, Places DEF Updated, x
  <2>4. HeightAbove(r, n) = HeightAbove(a, n)
    BY <2>3 DEF HeightAbove, Side
  <2> QED BY <2>1, <2>2, <2>4
<1>21. Height(r, <<c, o>>) = r.height[n]
  BY <1>2, <1>11, <1>13 DEF Height, x
<1>22. \A y \in Node \ {n, c} : r.height[y] = t.height[y]
  BY <1>7, <1>8, <1>10 DEF Updated
<1>23. Rotated(t, r, p, s, n, c)
  BY <1>11, <1>13, <1>17, <1>19, <1>20, <1>21, <1>22 DEF Rotated, x, l
<1> QED BY <1>6, <1>23

\* Nothing below a place holds that place.
OwnersOf(l, u) == \A q \in Place : q[1] \notin Below(u, l[q])

LEMMA NotBelowItsPlace ==
  ASSUME NEW l \in [Place -> Node \cup {Null}], NEW in \in SUBSET Node,
         NEW u \in [Node -> SUBSET Node], NEW k \in [in -> Int], SearchTree(l, in, u, k)
  PROVE  OwnersOf(l, u)
<1> SUFFICES ASSUME NEW q \in Place
             PROVE  q[1] \notin Below(u, l[q])
  BY DEF OwnersOf
<1>1. SidesOf(l, in, u) /\ PlacesOf(l, in, u)
  BY BelowNode, BelowPlace
<1>2. Below(u, l[q]) \subseteq Node
  BY <1>1 DEF PlacesOf
<1>3. CASE q = Root
  BY <1>2, <1>3, Places DEF Root
<1>4. CASE q # Root
  <2>1. PICK m \in Node, s \in Side : q = <<m, s>>
    BY <1>4, Places
  <2>2. CASE m \in in
    BY <1>1, <2>1, <2>2 DEF SidesOf
  <2>3. CASE m \notin in
    BY <2>1, <2>3 DEF SearchTree, Below
  <2> QED BY <2>2, <2>3
<1> QED BY <1>3, <1>4

\* What a step on the subtree of one place leaves as it was.
Kept(t, r, in, u, v, k, p) ==
  /\ r \in Trees /\ r.index = t.index
  /\ SearchTree(r.link, in, v, k)
  /\ r.link[p] # Null
  /\ Below(v, r.link[p]) = Below(u, t.link[p])
  /\ \A q \in Place \ {p} : q[1] \notin Below(u, t.link[p]) =>
       /\ r.link[q] = t.link[q] /\ Height(r, q) = Height(t, q)
       /\ Below(v, r.link[q]) = Below(u, t.link[q])
  /\ \A x \in Node \ Below(u, t.link[p]) : r.height[x] = t.height[x]

LEMMA RotateKeeps ==
  ASSUME NEW t \in Trees, NEW in \in SUBSET Node,
         NEW u \in [Node -> SUBSET Node], NEW k \in [in -> Int],
         NEW p \in Place, NEW s \in Side, NEW n \in Node, NEW c \in Node,
         Rotation(t.link, in, u, k, p, s, n, c)
  PROVE  /\ Turned(t.link, u, p, s) \in [Node -> SUBSET Node]
         /\ Kept(t, Rotate(t, p, s), in, u, Turned(t.link, u, p, s), k, p)
<1> DEFINE l == t.link
           v == Turned(l, u, p, s)
           r == Rotate(t, p, s)
<1>1. l \in [Place -> Node \cup {Null}] /\ Rotation(l, in, u, k, p, s, n, c)
  BY DEF Trees
<1>2. SearchTree(l, in, u, k) /\ n = l[p] /\ c = l[<<n, s>>] /\ n # Null /\ c # Null
  BY <1>1, Places DEF Rotation
<1>3. Rotated(t, r, p, s, n, c)
  BY RotateFacts
<1> HIDE DEF l, r
<1>4. Relinked(l, p, s) \in [Place -> Node \cup {Null}] /\ v \in [Node -> SUBSET Node]
  BY <1>1, <1>2, RotationTypes
<1>5. Rotates(l, in, u, k, p, s, n, c, Relinked(l, p, s), v)
  BY <1>1 DEF Rotates
<1> HIDE DEF v
<1>6. Afterwards(l, u, p, s, n, c, Relinked(l, p, s), v)
  BY <1>1, <1>4, <1>5, RotationLinks
<1>7. SearchTree(Relinked(l, p, s), in, v, k) /\ Below(v, Relinked(l, p, s)[p]) = Below(u, l[p])
  BY <1>1, <1>4, <1>5, RotationKeepsTree
<1>8. Apart(in, u, p, s, n, c)
  BY <1>1, RotationPlaces
<1>9. PlacesOf(l, in, u)
  BY <1>1, <1>2, BelowPlace
<1>10. n \in Below(u, l[p]) /\ c \in Below(u, l[p])
  <2>1. n \in u[n] /\ u[n] = Below(u, l[p])
    BY <1>2, <1>9 DEF PlacesOf
  <2>2. c \in u[c]
    BY <1>2, <1>8, <1>9 DEF PlacesOf, Apart
  <2> QED BY <1>8, <2>1, <2>2 DEF Apart
<1>11. r.link = Relinked(l, p, s)
  BY <1>3 DEF Rotated, l
<1>12. ASSUME NEW q \in Place \ {p}, q[1] \notin Below(u, l[p])
       PROVE  /\ r.link[q] = l[q] /\ Height(r, q) = Height(t, q)
              /\ Below(v, r.link[q]) = Below(u, l[q])
  <2>1. q # <<n, s>> /\ q # <<c, Other(s)>>
    BY <1>10, <1>12
  <2>2. r.link[q] = l[q] /\ Height(r, q) = Height(t, q)
    BY <1>3, <2>1 DEF Rotated, l
  <2>3. l[q] # n /\ l[q] # c
    BY <1>2, <1>8, <2>1 DEF SearchTree, Apart
  <2>4. l[q] \in Node \cup {Null}
    BY <1>1
  <2>5. Below(v, l[q]) = Below(u, l[q])
    BY <1>6, <2>3, <2>4 DEF Afterwards
  <2> QED BY <2>2, <2>5
<1>13. ASSUME NEW x \in Node \ Below(u, l[p])
       PROVE  r.height[x] = t.height[x]
  <2>1. x # n /\ x # c
    BY <1>10
  <2> QED BY <1>3, <2>1 DEF Rotated
<1>14. r \in Trees /\ r.index = t.index /\ r.link[p] = c
  BY <1>3 DEF Rotated
<1>15. Kept(t, r, in, u, v, k, p)
  BY <1>2, <1>7, <1>11, <1>12, <1>13, <1>14 DEF Kept, l
<1> QED BY <1>4, <1>15 DEF l, v, r

\* Two such steps, the first one on a side of the node.
LEMMA KeptTwice ==
  ASSUME NEW t \in Trees, NEW a \in Trees, NEW r \in Trees, NEW in \in SUBSET Node,
         NEW u \in [Node -> SUBSET Node], NEW v \in [Node -> SUBSET Node],
         NEW w \in [Node -> SUBSET Node], NEW k \in [in -> Int],
         NEW p \in Place, NEW n \in in, NEW s \in Side,
         t.link[p] = n, SearchTree(t.link, in, u, k),
         Kept(t, a, in, u, v, k, <<n, s>>), Kept(a, r, in, v, w, k, p)
  PROVE  Kept(t, r, in, u, w, k, p)
<1> DEFINE l == t.link
<1> l \in [Place -> Node \cup {Null}]
  BY DEF Trees
<1>1. SidesOf(l, in, u) /\ PlacesOf(l, in, u) /\ OwnersOf(l, u)
  BY BelowNode, BelowPlace, NotBelowItsPlace
<1>2. Below(u, l[<<n, s>>]) \subseteq Below(u, l[p]) /\ n \in Below(u, l[p]) /\ n # Null
  <2>1. u[n] = {n} \cup Below(u, l[<<n, s>>]) \cup Below(u, l[<<n, Other(s)>>])
    BY <1>1 DEF SidesOf
  <2> QED BY <2>1, Places DEF Below
<1>3. p[1] \notin Below(u, l[p])
  BY <1>1 DEF OwnersOf
<1>4. p # <<n, s>>
  BY <1>2, <1>3
<1>5. a.link[p] = l[p] /\ Below(v, a.link[p]) = Below(u, l[p])
  BY <1>2, <1>3, <1>4 DEF Kept
<1>6. ASSUME NEW q \in Place \ {p}, q[1] \notin Below(u, l[p])
      PROVE  /\ r.link[q] = l[q] /\ Height(r, q) = Height(t, q)
             /\ Below(w, r.link[q]) = Below(u, l[q])
  <2>1. q # <<n, s>> /\ q[1] \notin Below(u, l[<<n, s>>])
    BY <1>2, <1>6
  <2>2. /\ a.link[q] = l[q] /\ Height(a, q) = Height(t, q)
        /\ Below(v, a.link[q]) = Below(u, l[q])
    BY <2>1 DEF Kept
  <2>3. /\ r.link[q] = a.link[q] /\ Height(r, q) = Height(a, q)
        /\ Below(w, r.link[q]) = Below(v, a.link[q])
    BY <1>5, <1>6 DEF Kept
  <2> QED BY <2>2, <2>3
<1>7. ASSUME NEW x \in Node \ Below(u, l[p])
      PROVE  r.height[x] = t.height[x]
  <2>1. a.height[x] = t.height[x]
    BY <1>2 DEF Kept
  <2>2. r.height[x] = a.height[x]
    BY <1>5 DEF Kept
  <2> QED BY <2>1, <2>2
<1> HIDE DEF l
<1>8. /\ r \in Trees /\ r.index = t.index /\ SearchTree(r.link, in, w, k)
      /\ r.link[p] # Null /\ Below(w, r.link[p]) = Below(u, l[p])
  BY <1>5 DEF Kept
<1> QED BY <1>6, <1>7, <1>8 DEF Kept, l

LEMMA SettledKept ==
  ASSUME NEW t \in Trees, NEW r \in Trees, NEW x \in Node, Settled(t, x),
         r.height[x] = t.height[x],
         \A s \in Side : Height(r, <<x, s>>) = Height(t, <<x, s>>)
  PROVE  Settled(r, x)
BY DEF Settled, HeightAbove, Side

\* All nodes of the subtree are settled and it is at most one higher.
Repaired(r, v, p, h) ==
  /\ \A x \in Below(v, r.link[p]) : Settled(r, x)
  /\ r.height[r.link[p]] \in {h, h + 1}

\* One rotation, or two, settle a subtree that is too high on side s by one
\* more than is allowed.
LEMMA LightenedRepairs ==
  ASSUME NEW t \in Trees, NEW in \in SUBSET Node,
         NEW u \in [Node -> SUBSET Node], NEW k \in [in -> Int],
         SearchTree(t.link, in, u, k),
         NEW p \in Place, NEW s \in Side, NEW n \in in, t.link[p] = n,
         \A x \in u[n] \ {n} : Settled(t, x),
         Height(t, <<n, s>>) = Height(t, <<n, Other(s)>>) + 2
  PROVE  \E v \in [Node -> SUBSET Node] :
           /\ Kept(t, Lightened(t, p, s), in, u, v, k, p)
           /\ Repaired(Lightened(t, p, s), v, p, Height(t, <<n, s>>))
<1> DEFINE o == Other(s)
           c == t.link[<<n, s>>]
           g == t.link[<<c, o>>]
           H == Height(t, <<n, o>>)
           r == Lightened(t, p, s)
<1>1. n \in Node /\ n # Null /\ s \in Side /\ o \in Side /\ o # s /\ Other(o) = s
  BY Sides, Places
<1>2. <<n, s>> \in Place /\ <<n, o>> \in Place
  BY <1>1, Places
<1>3. H \in Nat /\ Height(t, <<n, s>>) = H + 2
  BY <1>1, HeightSides
<1>4. c \in Node /\ c # Null /\ t.height[c] = H + 2
  BY <1>2, <1>3 DEF Height, Trees
<1>5. <<c, s>> \in Place /\ <<c, o>> \in Place
  BY <1>1, <1>4, Places
<1> DEFINE l == t.link
<1>6. l \in [Place -> Node \cup {Null}] /\ SearchTree(l, in, u, k)
  BY DEF Trees
<1>7. SidesOf(l, in, u) /\ PlacesOf(l, in, u) /\ OwnersOf(l, u)
  BY <1>6, BelowNode, BelowPlace, NotBelowItsPlace
<1>8. Rotation(l, in, u, k, p, s, n, c)
  BY <1>6 DEF Rotation
<1>9. c \in in /\ c \in u[n] /\ n # c /\ u[c] \subseteq u[n] /\ n \notin u[c]
  <2>1. Apart(in, u, p, s, n, c)
    BY <1>1, <1>4, <1>6, <1>8, RotationPlaces
  <2>2. c \in u[c]
    BY <1>2, <1>4, <1>7 DEF PlacesOf
  <2> QED BY <2>1, <2>2 DEF Apart
<1>10. Settled(t, c)
  BY <1>9
<1>11. Below(u, l[p]) = u[n] /\ p[1] \notin u[n] /\ u[n] \subseteq in /\ n \in u[n]
  BY <1>1, <1>6, <1>7 DEF PlacesOf, OwnersOf
<1>12. ASSUME NEW x \in u[n], NEW y \in Side
       PROVE  <<x, y>> # p /\ <<x, y>> \in Place /\ x \in Node
  BY <1>11, Places
<1> DEFINE A == Height(t, <<c, s>>)
           G == Height(t, <<c, o>>)
<1>13. /\ A \in Nat /\ G \in Nat
       /\ A <= G => t.height[c] = 1 + G
       /\ A >= G => t.height[c] = 1 + A
       /\ A - G \in {-1, 0, 1}
  BY <1>1, <1>4, <1>10, HeightSides
<1>14. CASE A >= G
  <2>1. r = Rotate(t, p, s)
    BY <1>13, <1>14 DEF Lightened
  <2> DEFINE v == Turned(l, u, p, s)
  <2>2. v \in [Node -> SUBSET Node] /\ Kept(t, r, in, u, v, k, p)
    BY <1>1, <1>4, <1>8, <2>1, RotateKeeps
  <2>3. Rotated(t, r, p, s, n, c)
    BY <1>1, <1>4, <1>8, <2>1, RotateFacts
  <2> HIDE DEF r, v
  <2>4. r \in Trees
    BY <2>2 DEF Kept
  <2>5. A = H + 1 /\ G \in {H, H + 1}
    BY <1>3, <1>4, <1>13, <1>14
  <2> HIDE DEF A, G, H
  <2>6. /\ Height(r, <<n, s>>) = G /\ Height(r, <<n, o>>) = H
        /\ Height(r, <<c, s>>) = A /\ Height(r, <<c, o>>) = r.height[n]
        /\ r.height[n] = HeightAbove(r, n) /\ r.height[c] = HeightAbove(r, c)
    BY <2>3 DEF Rotated, A, G, H
  <2>7. r.height[n] = 1 + G /\ Settled(r, n)
    BY <1>1, <1>3, <1>13, <2>4, <2>5, <2>6, HeightSides
  <2>8. r.height[c] \in {H + 2, H + 3} /\ Settled(r, c)
    BY <1>1, <1>3, <1>4, <1>13, <2>4, <2>5, <2>6, <2>7, HeightSides
  <2>9. ASSUME NEW x \in u[n], x # n, x # c
        PROVE  Settled(r, x)
    <3>1. \A y \in Side : Height(r, <<x, y>>) = Height(t, <<x, y>>)
      BY <1>12, <2>3, <2>9 DEF Rotated
    <3>2. x \in Node /\ r.height[x] = t.height[x]
      BY <1>11, <2>3, <2>9 DEF Rotated
    <3> QED BY <2>4, <2>9, <3>1, <3>2, SettledKept
  <2>10. Below(v, r.link[p]) = u[n] /\ r.link[p] = c
    BY <1>11, <2>2, <2>3 DEF Kept, Rotated, l
  <2>11. Repaired(r, v, p, H + 2)
    BY <1>3, <2>7, <2>8, <2>9, <2>10 DEF Repaired
  <2> QED BY <1>3, <2>2, <2>11 DEF r
<1>15. CASE A < G
  <2> DEFINE a == Rotate(t, <<n, s>>, o)
             v == Turned(l, u, <<n, s>>, o)
             w == Turned(a.link, v, p, s)
  <2>1. r = Rotate(a, p, s)
    BY <1>13, <1>15 DEF Lightened
  <2>2. G = H + 1 /\ A = H
    BY <1>3, <1>4, <1>13, <1>15
  <2>3. g \in Node /\ g # Null /\ t.height[g] = H + 1
    BY <1>3, <1>5, <2>2 DEF Height, Trees
  <2>4. Rotation(l, in, u, k, <<n, s>>, o, c, g)
    BY <1>6 DEF Rotation
  <2>5. Apart(in, u, <<n, s>>, o, c, g)
    BY <1>1, <1>2, <1>4, <1>6, <2>3, <2>4, RotationPlaces
  <2>6. v \in [Node -> SUBSET Node] /\ Kept(t, a, in, u, v, k, <<n, s>>)
    BY <1>1, <1>2, <1>4, <2>3, <2>4, RotateKeeps
  <2>7. Rotated(t, a, <<n, s>>, o, c, g)
    BY <1>1, <1>2, <1>4, <2>3, <2>4, RotateFacts
  <2>8. a \in Trees /\ SearchTree(a.link, in, v, k)
    BY <2>6 DEF Kept
  <2>9. /\ g \in in /\ g \in u[n] /\ g # n /\ g # c
        /\ <<g, s>> \in Place /\ <<g, o>> \in Place /\ Settled(t, g)
    <3>1. g \in u[g]
      BY <1>5, <1>7, <2>3 DEF PlacesOf
    <3> QED BY <1>1, <1>9, <2>3, <2>5, <3>1, Places DEF Apart
  <2>10. a.link[p] = n /\ a.link[<<n, s>>] = g
    <3>1. p # <<n, s>> /\ p # <<c, o>> /\ p # <<g, s>>
      BY <1>1, <1>9, <1>11, <1>12, <2>9
    <3> HIDE DEF a, c, g
    <3> QED BY <1>1, <2>7, <3>1 DEF Rotated
  <2>11. Rotation(a.link, in, v, k, p, s, n, g)
    BY <2>8, <2>10 DEF Rotation
  <2> HIDE DEF a, v, r
  <2>12. w \in [Node -> SUBSET Node] /\ Kept(a, r, in, v, w, k, p)
    BY <1>1, <2>1, <2>3, <2>6, <2>8, <2>11, RotateKeeps
  <2>13. Rotated(a, r, p, s, n, g)
    BY <1>1, <2>1, <2>3, <2>6, <2>8, <2>11, RotateFacts
  <2>14. r \in Trees
    BY <2>12 DEF Kept
  <2> HIDE DEF w
  <2>15. Kept(t, r, in, u, w, k, p)
    BY <1>6, <2>6, <2>8, <2>12, <2>14, KeptTwice
  <2> DEFINE B == Height(t, <<g, s>>)
             D == Height(t, <<g, o>>)
  <2>16. B \in Nat /\ D \in Nat /\ B <= H /\ D <= H /\ B >= H - 1 /\ D >= H - 1 /\ (B = H \/ D = H)
    BY <1>1, <1>3, <2>3, <2>9, HeightSides
  <2> HIDE DEF A, G, H, B, D
  <2>17. /\ Height(a, <<c, o>>) = B /\ Height(a, <<c, s>>) = A
         /\ a.height[c] = HeightAbove(a, c)
         /\ Height(a, <<g, o>>) = D /\ Height(a, <<g, s>>) = a.height[c]
    BY <1>1, <2>7 DEF Rotated, A, B, D
  <2>18. a.height[c] = H + 1 /\ Settled(a, c)
    BY <1>1, <1>3, <1>4, <2>2, <2>8, <2>16, <2>17, HeightSides
  <2>19. Height(a, <<n, o>>) = H
    <3>1. <<n, o>> # <<n, s>> /\ <<n, o>> # <<c, o>> /\ <<n, o>> # <<g, s>>
      BY <1>1, <1>9, <2>9
    <3> QED BY <1>1, <1>2, <2>7, <3>1 DEF Rotated, H
  <2>20. /\ Height(r, <<n, s>>) = D /\ Height(r, <<n, o>>) = H
         /\ Height(r, <<g, s>>) = H + 1 /\ Height(r, <<g, o>>) = r.height[n]
         /\ r.height[n] = HeightAbove(r, n) /\ r.height[g] = HeightAbove(r, g)
    BY <2>13, <2>17, <2>18, <2>19 DEF Rotated
  <2>21. r.height[n] = H + 1 /\ Settled(r, n)
    BY <1>1, <1>3, <2>14, <2>16, <2>20, HeightSides
  <2>22. r.height[g] = H + 2 /\ Settled(r, g)
    BY <1>1, <1>3, <2>3, <2>14, <2>20, <2>21, HeightSides
  <2>23. ASSUME NEW x \in u[n], x # n, x # g, Settled(a, x)
         PROVE  Settled(r, x)
    <3>1. \A y \in Side : Height(r, <<x, y>>) = Height(a, <<x, y>>)
      BY <1>12, <2>13, <2>23 DEF Rotated
    <3>2. x \in Node /\ r.height[x] = a.height[x]
      BY <1>11, <2>13, <2>23 DEF Rotated
    <3> QED BY <2>8, <2>14, <2>23, <3>1, <3>2, SettledKept
  <2>24. ASSUME NEW x \in u[n], x # n, x # c, x # g
         PROVE  Settled(a, x)
    <3>1. \A y \in Side : Height(a, <<x, y>>) = Height(t, <<x, y>>)
      BY <1>12, <2>7, <2>24 DEF Rotated
    <3>2. x \in Node /\ a.height[x] = t.height[x]
      BY <1>11, <2>7, <2>24 DEF Rotated
    <3> QED BY <2>8, <2>24, <3>1, <3>2, SettledKept
  <2>25. Below(w, r.link[p]) = u[n] /\ r.link[p] = g
    BY <1>11, <2>13, <2>15 DEF Kept, Rotated, l
  <2>26. Repaired(r, w, p, H + 2)
    BY <1>3, <1>9, <2>18, <2>21, <2>22, <2>23, <2>24, <2>25 DEF Repaired
  <2> QED BY <1>3, <2>12, <2>15, <2>26 DEF r, w
<1> QED BY <1>13, <1>14, <1>15

\* A node that was settled before an inner call is settled again by
\* rebalance, with all below it.
LEMMA RebalanceRepairs ==
  ASSUME NEW t \in Trees, NEW in \in SUBSET Node,
         NEW u \in [Node -> SUBSET Node], NEW k \in [in -> Int],
         SearchTree(t.link, in, u, k),
         NEW p \in Place, NEW n \in in, t.link[p] = n,
         AlmostSettled(t, n), \A x \in u[n] \ {n} : Settled(t, x)
  PROVE  \E v \in [Node -> SUBSET Node] :
           /\ Kept(t, Rebalance(t, p), in, u, v, k, p)
           /\ Repaired(Rebalance(t, p), v, p, t.height[n])
<1> DEFINE a == UpdateHeight(t, n)
           r == Rebalance(t, p)
           l == t.link
<1> SUFFICES \E v \in [Node -> SUBSET Node] :
               Kept(t, r, in, u, v, k, p) /\ Repaired(r, v, p, t.height[n])
  OBVIOUS
<1>1. n \in Node /\ n # Null
  BY Places
<1>2. Updated(t, a, n)
  BY <1>1, UpdateHeightFacts
<1> HIDE DEF a
<1>3. /\ a \in Trees /\ a.link = l /\ a.index = t.index /\ a.height[n] = HeightAbove(t, n)
      /\ \A x \in Node \ {n} : a.height[x] = t.height[x]
      /\ \A q \in Place : l[q] # n => Height(a, q) = Height(t, q)
  BY <1>2 DEF Updated
<1>4. l \in [Place -> Node \cup {Null}] /\ SearchTree(l, in, u, k)
  BY DEF Trees
<1>5. SidesOf(l, in, u) /\ PlacesOf(l, in, u) /\ OwnersOf(l, u)
  BY <1>4, BelowNode, BelowPlace, NotBelowItsPlace
<1>6. Below(u, l[p]) = u[n] /\ p[1] \notin u[n] /\ u[n] \subseteq in /\ n \in u[n]
  BY <1>1, <1>4, <1>5 DEF PlacesOf, OwnersOf
<1>7. \A q \in Place \ {p} : l[q] # n
  BY <1>1, <1>4 DEF SearchTree
<1>8. ASSUME NEW x \in u[n], NEW y \in Side
      PROVE  /\ <<x, y>> # p /\ <<x, y>> \in Place /\ x \in Node
             /\ Height(a, <<x, y>>) = Height(t, <<x, y>>)
  BY <1>3, <1>6, <1>7, Places
<1>9. HeightAbove(a, n) = HeightAbove(t, n)
  BY <1>6, <1>8 DEF HeightAbove, Side
<1>10. \A x \in u[n] \ {n} : Settled(a, x)
  <2> SUFFICES ASSUME NEW x \in u[n] \ {n} PROVE Settled(a, x)
    OBVIOUS
  <2> QED BY <1>3, <1>8, SettledKept
<1>11. Kept(t, a, in, u, u, k, p)
  <2>1. \A q \in Place \ {p} : Height(a, q) = Height(t, q)
    BY <1>3, <1>7
  <2>2. \A x \in Node \ u[n] : a.height[x] = t.height[x]
    BY <1>3, <1>6
  <2> QED BY <1>1, <1>3, <1>4, <1>6, <2>1, <2>2 DEF Kept
<1> DEFINE left == Height(a, <<n, "left">>)
           right == Height(a, <<n, "right">>)
<1>12. /\ left \in Nat /\ right \in Nat /\ left = Height(t, <<n, "left">>)
       /\ right = Height(t, <<n, "right">>)
  <2>1. Height(a, <<n, "left">>) \in Nat /\ Height(a, <<n, "right">>) \in Nat
    BY <1>1, <1>3, Places DEF Trees, Height, Side
  <2> QED BY <1>6, <1>8, <2>1 DEF Side
<1>13. PICK s \in Side :
         LET high == Height(t, <<n, s>>)
             other == Height(t, <<n, Other(s)>>)
         IN \E h \in {high, high - 1} :
              /\ t.height[n] = 1 + (IF h > other THEN h ELSE other)
              /\ h >= 0 /\ h - other \in {-1, 0, 1}
  BY DEF AlmostSettled
<1>14. /\ left - right > 1 => left = right + 2 /\ t.height[n] = left
       /\ left - right < -1 => right = left + 2 /\ t.height[n] = right
       /\ left - right \in {-1, 0, 1} =>
            t.height[n] \in {HeightAbove(t, n), HeightAbove(t, n) - 1}
  <2>1. HeightAbove(t, n) = 1 + (IF left > right THEN left ELSE right)
    BY <1>12 DEF HeightAbove
  <2> HIDE DEF left, right
  <2>2. CASE s = "left"
    <3>1. Height(t, <<n, s>>) = left /\ Height(t, <<n, Other(s)>>) = right
      BY <1>12, <2>2 DEF Other
    <3>2. \E h \in {left, left - 1} :
            /\ t.height[n] = 1 + (IF h > right THEN h ELSE right)
            /\ h >= 0 /\ h - right \in {-1, 0, 1}
      BY <1>13, <3>1
    <3> QED BY <1>12, <2>1, <3>2
  <2>3. CASE s = "right"
    <3>1. Height(t, <<n, s>>) = right /\ Height(t, <<n, Other(s)>>) = left
      BY <1>12, <2>3 DEF Other
    <3>2. \E h \in {right, right - 1} :
            /\ t.height[n] = 1 + (IF h > left THEN h ELSE left)
            /\ h >= 0 /\ h - left \in {-1, 0, 1}
      BY <1>13, <3>1
    <3> QED BY <1>12, <2>1, <3>2
  <2> QED BY <2>2, <2>3 DEF Side
<1>15. r = CASE left - right > 1 -> Lightened(a, p, "left")
             [] left - right < -1 -> Lightened(a, p, "right")
             [] OTHER -> a
  BY DEF Rebalance, a
<1> HIDE DEF l, r, left, right
<1>16. ASSUME NEW s2 \in Side, Height(a, <<n, s2>>) = Height(a, <<n, Other(s2)>>) + 2,
              t.height[n] = Height(a, <<n, s2>>), r = Lightened(a, p, s2)
       PROVE  \E v \in [Node -> SUBSET Node] :
                /\ Kept(t, r, in, u, v, k, p)
                /\ Repaired(r, v, p, t.height[n])
  <2>0. a \in Trees /\ SearchTree(a.link, in, u, k) /\ a.link[p] = n
    BY <1>3, <1>4 DEF l
  <2>1. PICK v \in [Node -> SUBSET Node] :
          /\ Kept(a, r, in, u, v, k, p)
          /\ Repaired(r, v, p, t.height[n])
    <3>1. \E v \in [Node -> SUBSET Node] :
            /\ Kept(a, Lightened(a, p, s2), in, u, v, k, p)
            /\ Repaired(Lightened(a, p, s2), v, p, Height(a, <<n, s2>>))
      BY <1>10, <1>16, <2>0, LightenedRepairs
    <3> QED BY <1>16, <3>1
  <2>2. Kept(t, r, in, u, v, k, p)
    BY <1>3, <1>6, <1>11, <2>1 DEF Kept, l
  <2> QED BY <2>1, <2>2
<1>17. CASE left - right > 1
  <2>1. Other("left") = "right" /\ "left" \in Side
    BY DEF Other, Side
  <2>2. ~(left - right < -1)
    BY <1>12, <1>17
  <2>3. r = Lightened(a, p, "left") /\ left = right + 2 /\ t.height[n] = left
    BY <1>14, <1>15, <1>17, <2>2
  <2> QED BY <1>16, <2>1, <2>3 DEF left, right
<1>18. CASE left - right < -1
  <2>1. Other("right") = "left" /\ "right" \in Side
    BY DEF Other, Side
  <2>2. ~(left - right > 1)
    BY <1>12, <1>18
  <2> QED BY <1>14, <1>15, <1>16, <1>18, <2>1, <2>2 DEF left, right
<1>19. CASE left - right \in {-1, 0, 1}
  <2>1. r = a
    BY <1>12, <1>15, <1>19
  <2>2. Settled(a, n)
    BY <1>3, <1>9, <1>19 DEF Settled, left, right
  <2>3. HeightAbove(t, n) \in Nat
    BY <1>1, HeightSides DEF Side
  <2>4. Repaired(a, u, p, t.height[n])
    BY <1>3, <1>6, <1>10, <1>14, <1>19, <2>2, <2>3 DEF Repaired, l, Trees
  <2> QED BY <1>11, <2>1, <2>4
<1> QED BY <1>12, <1>17, <1>18, <1>19 DEF r

----------------------------------------------------------------------------
(* A new node *)

\* All elements but the last one, and the last one.
FrontOf(st, f, e) ==
  /\ Len(f) = Len(st) - 1 /\ Len(f) \in Nat
  /\ \A i \in 1 .. Len(f) : f[i] = st[i]
  /\ Len(st) \in 1 .. Len(st) /\ e = st[Len(st)]

LEMMA FrontLast ==
  ASSUME NEW S, NEW st \in Seq(S), st # <<>>
  PROVE  Front(st) \in Seq(S) /\ Last(st) \in S /\ FrontOf(st, Front(st), Last(st))
<1> DEFINE n == Len(st) - 1
<1>1. Len(st) \in Nat /\ Len(st) >= 1
  BY EmptySeq, LenProperties
<1>2. n \in Nat /\ n <= Len(st) /\ Len(st) = n + 1
  BY <1>1
<1>3. Front(st) = SubSeq(st, 1, n) /\ Last(st) = st[Len(st)]
  BY DEF Front, Last
<1> HIDE DEF n
<1>4. \A i \in 1 .. n : st[i] \in S
  BY <1>2
<1>5. /\ SubSeq(st, 1, n) \in Seq(S)
      /\ Len(SubSeq(st, 1, n)) = n
      /\ \A i \in 1 .. n : SubSeq(st, 1, n)[i] = st[i]
  BY <1>2, <1>4, SubSeqProperties
<1>6. Last(st) \in S
  BY <1>2, <1>3
<1> QED BY <1>1, <1>2, <1>3, <1>5, <1>6 DEF FrontOf

\* A chain of places from the root, each on a side of what the one before it
\* links to.
Chain(l, st) ==
  /\ st[1] = Root
  /\ \A i \in 2 .. Len(st) : st[i] \in Node \X Side /\ st[i][1] = l[st[i - 1]]

\* The node x is below all places of the chain.
Extended(u, st, x) ==
  [y \in Node |-> IF y = x THEN {x}
                  ELSE IF \E i \in 2 .. Len(st) : y = st[i][1] THEN u[y] \cup {x}
                  ELSE u[y]]

Attached(l, u, m, v, st, x) ==
  /\ \A i \in 1 .. Len(st) : Below(v, m[st[i]]) = Below(u, l[st[i]]) \cup {x}
  /\ \A q \in Place \ {st[Len(st)]} : m[q] = l[q] /\ l[q] # x
  /\ m[st[Len(st)]] = x
  /\ \A s \in Side : m[<<x, s>>] = Null

Attaches(l, in, u, k, st, x, kx, m, v) ==
  /\ SearchTree(l, in, u, k)
  /\ st # <<>> /\ Chain(l, st) /\ l[st[Len(st)]] = Null
  /\ \A n \in in : kx[n] = k[n]
  /\ \A i \in 2 .. Len(st) : Before(st[i][2], kx[x], k[st[i][1]])
  /\ m = [l EXCEPT ![st[Len(st)]] = x] /\ v = Extended(u, st, x)

LEMMA AttachTree ==
  ASSUME NEW l \in [Place -> Node \cup {Null}], NEW in \in SUBSET Node,
         NEW u \in [Node -> SUBSET Node], NEW k \in [in -> Int],
         NEW st \in Seq(Place), NEW x \in Node \ in, NEW kx \in [in \cup {x} -> Int],
         NEW m \in [Place -> Node \cup {Null}], NEW v \in [Node -> SUBSET Node],
         Attaches(l, in, u, k, st, x, kx, m, v)
  PROVE  SearchTree(m, in \cup {x}, v, kx) /\ Attached(l, u, m, v, st, x)
<1>0. /\ SearchTree(l, in, u, k)
      /\ st # <<>> /\ Chain(l, st) /\ l[st[Len(st)]] = Null
      /\ \A n \in in : kx[n] = k[n]
      /\ \A i \in 2 .. Len(st) : Before(st[i][2], kx[x], k[st[i][1]])
      /\ m = [l EXCEPT ![st[Len(st)]] = x] /\ v = Extended(u, st, x)
  BY DEF Attaches
<1> USE <1>0
<1> DEFINE p == st[Len(st)]
<1>1. Len(st) \in Nat /\ Len(st) >= 1 /\ p \in Place /\ \A i \in 1 .. Len(st) : st[i] \in Place
  BY EmptySeq, LenProperties
<1>2. /\ \A q, r \in Place : l[q] = l[r] /\ l[q] # Null => q = r
      /\ \A q \in Place : l[q] \in in \cup {Null}
      /\ \A a \in Node \ in, t \in Side : l[<<a, t>>] = Null
      /\ Below(u, l[Root]) = in
      /\ \A a \in in : u[a] \subseteq in
      /\ \A n \in in, s \in Side : \A b \in Below(u, l[<<n, s>>]) : Before(s, k[b], k[n])
  BY DEF SearchTree
<1>3. /\ st[1] = Root
      /\ \A i \in 2 .. Len(st) : st[i] \in Node \X Side /\ st[i][1] = l[st[i - 1]]
  BY DEF Chain
<1>4. \A q \in Place : l[q] # x
  BY <1>2, Places
<1>5. /\ m[p] = x /\ \A q \in Place \ {p} : m[q] = l[q]
  BY <1>1
<1>6. \A i \in 2 .. Len(st) : st[i][1] \in in /\ st[i - 1] \in Place
  <2> SUFFICES ASSUME NEW i \in 2 .. Len(st) PROVE st[i][1] \in in /\ st[i - 1] \in Place
    OBVIOUS
  <2>1. st[i - 1] \in Place /\ st[i][1] \in Node /\ st[i][1] = l[st[i - 1]]
    BY <1>1, <1>3
  <2> QED BY <1>2, <2>1, Places
<1>7. \A y \in Node : v[y] = IF y = x THEN {x}
                             ELSE IF \E i \in 2 .. Len(st) : y = st[i][1] THEN u[y] \cup {x}
                             ELSE u[y]
  BY DEF Extended
<1> HIDE DEF p
<1>8. \A s \in Side : <<x, s>> \in Place /\ <<x, s>> # p /\ m[<<x, s>>] = Null
  <2> SUFFICES ASSUME NEW s \in Side PROVE <<x, s>> \in Place /\ <<x, s>> # p /\ m[<<x, s>>] = Null
    OBVIOUS
  <2>1. <<x, s>> \in Place /\ <<x, s>> # Root /\ l[<<x, s>>] = Null
    BY <1>2, Places
  <2>2. <<x, s>> # p
    BY <1>1, <1>3, <1>6, <2>1 DEF p
  <2> QED BY <1>5, <2>1, <2>2
<1>9. ASSUME NEW i \in 1 .. Len(st)
      PROVE  Below(v, m[st[i]]) = Below(u, l[st[i]]) \cup {x}
  <2>1. CASE i = Len(st)
    <3>1. m[st[i]] = x /\ l[st[i]] = Null
      BY <1>5, <2>1 DEF p
    <3> QED BY <1>7, <3>1, Places DEF Below
  <2>2. CASE i # Len(st)
    <3>1. i + 1 \in 2 .. Len(st) /\ st[i + 1][1] = l[st[i]]
      BY <1>1, <1>3, <2>2
    <3>2. l[st[i]] \in in /\ l[st[i]] # Null /\ l[st[i]] # x
      BY <1>1, <1>6, <3>1, Places
    <3>3. m[st[i]] = l[st[i]]
      BY <1>1, <1>5, <3>2 DEF p
    <3>4. v[l[st[i]]] = u[l[st[i]]] \cup {x}
      BY <1>7, <3>1, <3>2
    <3> QED BY <3>2, <3>3, <3>4 DEF Below
  <2> QED BY <2>1, <2>2
<1>10. ASSUME NEW q \in Place, \A i \in 1 .. Len(st) : st[i] # q
       PROVE  Below(v, m[q]) = Below(u, l[q])
  <2>1. m[q] = l[q] /\ l[q] # x
    BY <1>1, <1>4, <1>5, <1>10 DEF p
  <2>2. CASE l[q] = Null
    BY <2>1, <2>2 DEF Below
  <2>3. CASE l[q] # Null
    <3>1. ASSUME NEW i \in 2 .. Len(st), l[q] = st[i][1]
          PROVE  FALSE
      <4>1. i - 1 \in 1 .. Len(st) /\ st[i - 1] \in Place /\ l[st[i - 1]] = l[q]
        BY <1>1, <1>3, <1>6, <3>1
      <4> QED BY <1>2, <1>10, <2>3, <4>1
    <3>2. v[l[q]] = u[l[q]]
      BY <1>2, <1>7, <2>1, <2>3, <3>1
    <3> QED BY <2>1, <2>3, <3>2 DEF Below
  <2> QED BY <2>2, <2>3
<1>11. \A q, r \in Place : m[q] = m[r] /\ m[q] # Null => q = r
  BY <1>2, <1>4, <1>5
<1>12. \A q \in Place : m[q] \in in \cup {x} \cup {Null}
  BY <1>2, <1>5
<1>13. \A a \in Node \ (in \cup {x}), t \in Side : m[<<a, t>>] = Null
  <2> SUFFICES ASSUME NEW a \in Node \ (in \cup {x}), NEW t \in Side PROVE m[<<a, t>>] = Null
    OBVIOUS
  <2>1. <<a, t>> \in Place /\ <<a, t>> # Root /\ l[<<a, t>>] = Null
    BY <1>2, Places
  <2>2. <<a, t>> # p
    BY <1>1, <1>3, <1>6, <2>1 DEF p
  <2> QED BY <1>5, <2>1, <2>2
<1>14. Below(v, m[Root]) = in \cup {x}
  <2>1. 1 \in 1 .. Len(st)
    BY <1>1
  <2>2. Below(v, m[st[1]]) = Below(u, l[st[1]]) \cup {x}
    BY <1>9, <2>1
  <2> QED BY <1>2, <1>3, <2>2
<1>15. \A a \in in \cup {x} : v[a] \subseteq in \cup {x}
  <2>1. \A a \in in : u[a] \subseteq in
    BY <1>2
  <2>2. v[x] = {x} /\ \A a \in in : v[a] \subseteq u[a] \cup {x}
    BY <1>7
  <2> QED BY <2>1, <2>2
<1>16. ASSUME NEW a \in in, NEW s \in Side
       PROVE  /\ <<a, s>> \in Place
              /\ Below(u, l[<<a, s>>]) \subseteq Below(v, m[<<a, s>>])
              /\ Below(v, m[<<a, s>>]) \subseteq Below(u, l[<<a, s>>]) \cup {x}
              /\ x \in Below(v, m[<<a, s>>]) => \E i \in 2 .. Len(st) : st[i] = <<a, s>>
              /\ (\E i \in 2 .. Len(st) : st[i] = <<a, s>>) => x \in Below(v, m[<<a, s>>])
  <2>1. <<a, s>> \in Place /\ <<a, s>> # Root
    BY Places
  <2>2. CASE \E i \in 1 .. Len(st) : st[i] = <<a, s>>
    <3>1. PICK i \in 1 .. Len(st) : st[i] = <<a, s>>
      BY <2>2
    <3>2. i \in 2 .. Len(st)
      <4>1. i # 1
        BY <1>3, <2>1, <3>1
      <4> QED BY <1>1, <4>1
    <3> QED BY <1>9, <2>1, <3>1, <3>2
  <2>3. CASE \A i \in 1 .. Len(st) : st[i] # <<a, s>>
    <3>1. Below(v, m[<<a, s>>]) = Below(u, l[<<a, s>>])
      BY <1>10, <2>1, <2>3
    <3>2. x \notin Below(u, l[<<a, s>>])
      BY <1>2, <2>1 DEF Below
    <3>3. \A i \in 2 .. Len(st) : i \in 1 .. Len(st)
      OBVIOUS
    <3> QED BY <2>1, <2>3, <3>1, <3>2, <3>3
  <2> QED BY <2>2, <2>3
<1>17. ASSUME NEW a \in in
       PROVE  v[a] = {a} \cup Below(v, m[<<a, "left">>]) \cup Below(v, m[<<a, "right">>])
  <2> DEFINE L == Below(v, m[<<a, "left">>])
             R == Below(v, m[<<a, "right">>])
  <2>1. u[a] = {a} \cup Below(u, l[<<a, "left">>]) \cup Below(u, l[<<a, "right">>])
    BY DEF SearchTree
  <2>2. /\ Below(u, l[<<a, "left">>]) \subseteq L /\ Below(u, l[<<a, "right">>]) \subseteq R
        /\ L \subseteq Below(u, l[<<a, "left">>]) \cup {x}
        /\ R \subseteq Below(u, l[<<a, "right">>]) \cup {x}
    BY <1>16 DEF Side
  <2>3. CASE \E i \in 2 .. Len(st) : a = st[i][1]
    <3>1. v[a] = u[a] \cup {x}
      BY <1>7, <2>3
    <3>2. \E i \in 2 .. Len(st) : st[i] = <<a, "left">> \/ st[i] = <<a, "right">>
      <4>1. PICK i \in 2 .. Len(st) : a = st[i][1]
        BY <2>3
      <4>2. st[i] \in Node \X Side
        BY <1>3
      <4>3. st[i] = <<a, "left">> \/ st[i] = <<a, "right">>
        BY <4>1, <4>2 DEF Side
      <4> QED BY <4>3
    <3>3. x \in L \cup R
      BY <1>16, <3>2 DEF Side
    <3> QED BY <2>1, <2>2, <3>1, <3>3
  <2>4. CASE ~ \E i \in 2 .. Len(st) : a = st[i][1]
    <3>1. v[a] = u[a]
      BY <1>7, <2>4
    <3>2. x \notin L /\ x \notin R
      <4>1. \A i \in 2 .. Len(st), s \in Side : st[i] # <<a, s>>
        BY <2>4
      <4>2. ASSUME NEW s \in Side PROVE x \notin Below(v, m[<<a, s>>])
        <5>1. x \in Below(v, m[<<a, s>>]) => \E i \in 2 .. Len(st) : st[i] = <<a, s>>
          BY <1>16
        <5> QED BY <4>1, <5>1
      <4> QED BY <4>2 DEF Side
    <3> QED BY <2>1, <2>2, <3>1, <3>2
  <2> QED BY <2>3, <2>4
<1>18. v[x] = {x} \cup Below(v, m[<<x, "left">>]) \cup Below(v, m[<<x, "right">>])
  BY <1>7, <1>8 DEF Below, Side
<1>19. ASSUME NEW a \in in, NEW s \in Side, NEW b \in Below(v, m[<<a, s>>])
       PROVE  Before(s, kx[b], kx[a])
  <2>1. CASE b = x
    <3>1. PICK i \in 2 .. Len(st) : st[i] = <<a, s>>
      BY <1>16, <2>1
    <3>2. Before(st[i][2], kx[x], k[st[i][1]]) /\ st[i][2] = s /\ st[i][1] = a
      BY <3>1
    <3> QED BY <2>1, <3>2
  <2>2. CASE b # x
    <3>1. b \in Below(u, l[<<a, s>>]) /\ <<a, s>> \in Place
      <4>1. <<a, s>> \in Place /\ Below(v, m[<<a, s>>]) \subseteq Below(u, l[<<a, s>>]) \cup {x}
        BY <1>16
      <4> QED BY <2>2, <4>1
    <3>2. b \in in
      BY <1>2, <3>1 DEF Below
    <3> QED BY <1>2, <3>1, <3>2
  <2> QED BY <2>1, <2>2
<1>20. \A s \in Side : Below(v, m[<<x, s>>]) = {}
  BY <1>8 DEF Below
<1>21. SearchTree(m, in \cup {x}, v, kx)
  BY <1>11, <1>12, <1>13, <1>14, <1>15, <1>17, <1>18, <1>19, <1>20 DEF SearchTree
<1>22. Attached(l, u, m, v, st, x)
  BY <1>4, <1>5, <1>8, <1>9 DEF Attached, p
<1> QED BY <1>21, <1>22

----------------------------------------------------------------------------
(* Insertion, one call at a time *)

Whole(u) == TypeOK /\ Positions /\ Heights /\ Shape(u)

\* The values the invariant is about.
Values ==
  /\ items \in Seq(Path) /\ Len(items) \in Nat
  /\ \A i \in 1 .. Len(items) : items[i] \in Int
  /\ tree \in Trees /\ tree.link \in [Place -> Node \cup {Null}]
  /\ InUse \in SUBSET Node /\ Null \notin InUse
  /\ Keys \in [InUse -> Int]
  /\ \A n \in InUse : tree.index[n] \in 1 .. Len(items) /\ Keys[n] = items[tree.index[n]]

LEMMA Typed ==
  ASSUME TypeOK
  PROVE  Values
<1>1. items \in Seq(Path) /\ Len(items) \in Nat
  BY DEF TypeOK
<1>2. \A i \in 1 .. Len(items) : items[i] \in Int
  <2>1. \A i \in 1 .. Len(items) : items[i] \in Path
    BY <1>1
  <2> QED BY <2>1, TreeAssumption
<1>3. tree \in Trees /\ tree.link \in [Place -> Node \cup {Null}]
  BY <1>1 DEF TypeOK, Trees
<1>4. \A n \in InUse : tree.index[n] \in 1 .. Len(items)
  BY <1>1 DEF TypeOK, InUse, Null
<1>5. InUse \in SUBSET Node /\ Null \notin InUse
  BY Places DEF InUse
<1>6. Keys \in [InUse -> Int] /\ \A n \in InUse : Keys[n] = items[tree.index[n]]
  BY <1>2, <1>4 DEF Keys, PathOf
<1> QED BY <1>1, <1>2, <1>3, <1>4, <1>5, <1>6 DEF Values

\* The same of the next state.
LEMMA TypedNext ==
  ASSUME TypeOK'
  PROVE  Values'
<1>1. items' \in Seq(Path) /\ Len(items') \in Nat
  BY DEF TypeOK
<1>2. \A i \in 1 .. Len(items') : items'[i] \in Int
  <2>1. \A i \in 1 .. Len(items') : items'[i] \in Path
    BY <1>1
  <2> QED BY <2>1, TreeAssumption
<1>3. tree' \in Trees /\ tree'.link \in [Place -> Node \cup {Null}]
  BY <1>1 DEF TypeOK, Trees
<1>4. \A n \in InUse' : tree'.index[n] \in 1 .. Len(items')
  BY <1>1 DEF TypeOK, InUse, Null
<1>5. InUse' \in SUBSET Node /\ Null \notin InUse'
  BY Places DEF InUse
<1>6. Keys' \in [InUse' -> Int] /\ \A n \in InUse' : Keys'[n] = items'[tree'.index[n]]
  BY <1>2, <1>4 DEF Keys, PathOf
<1> QED BY <1>1, <1>2, <1>3, <1>4, <1>5, <1>6 DEF Values

LEMMA NotWalking ==
  ASSUME NEW u \in [Node -> SUBSET Node], Whole(u), pc # "walk", UNCHANGED walkVars, pc' # "walk"
  PROVE  /\ Walking(u)'
         /\ cursor' = Null /\ open' = <<>> /\ visited' = <<>>
<1>1. cursor' = Null /\ open' = <<>> /\ visited' = <<>>
  BY DEF Whole, Shape, Walking, walkVars
<1> QED BY <1>1 DEF Walking

\* The calls in progress, as a chain.
LEMMA CallsChain ==
  ASSUME NEW u \in [Node -> SUBSET Node], Whole(u), stack # <<>>
  PROVE  Chain(tree.link, stack) /\ FrontOf(stack, Front(stack), Last(stack))
<1>1. stack \in Seq(Place)
  BY DEF Whole, TypeOK
<1>2. FrontOf(stack, Front(stack), Last(stack))
  BY <1>1, FrontLast
<1> QED BY <1>2 DEF Chain, Whole, Shape, Calls

\* The same nodes, with the same positions and paths.
SameContents == InUse' = InUse /\ Keys' = Keys /\ tree'.index = tree.index

LEMMA InsertKeeps ==
  ASSUME NEW u \in [Node -> SUBSET Node], Whole(u), NEW path \in Path, Insert(path)
  PROVE  Whole(u)' /\ SameContents
<1>1. Values /\ TypeOK
  BY Typed DEF Whole
<1>2. /\ pc = "idle" /\ pc' = "down" /\ items' = Append(items, path) /\ stack' = <<Root>>
      /\ tree' = tree /\ outcome' = outcome /\ Len(items) < MaxRecords
  BY DEF Insert, Goes, walkVars
<1>3. /\ items' \in Seq(Path) /\ Len(items') = Len(items) + 1 /\ Len(items') \in Nat
      /\ \A i \in 1 .. Len(items) : items'[i] = items[i]
      /\ items'[Len(items')] = path
  BY <1>1, <1>2 DEF Values
<1>4. cursor' = Null /\ open' = <<>> /\ visited' = <<>> /\ Walking(u)'
  BY <1>2, NotWalking DEF Insert
<1>5. TypeOK'
  <2>1. tree.index \in [Node -> 0 .. Len(items')]
    BY <1>1, <1>3 DEF TypeOK
  <2>2. Len(items') <= MaxRecords
    BY <1>1, <1>2, <1>3, TreeAssumption DEF Values
  <2>3. stack' \in Seq(Place) /\ visited' \in Seq(1 .. Len(items')) /\ open' \in Seq(Node)
    BY <1>2, <1>4, Places
  <2> QED BY <1>1, <1>2, <1>3, <1>4, <2>1, <2>2, <2>3 DEF TypeOK
<1>6. InUse' = InUse /\ Keys' = Keys
  <2>1. InUse' = InUse
    BY <1>2 DEF InUse
  <2>2. \A n \in InUse : items'[tree.index[n]] = items[tree.index[n]]
    BY <1>1, <1>3 DEF Values
  <2> QED BY <1>2, <2>1, <2>2 DEF Keys, PathOf
<1>7. Positions'
  <2>1. Positions
    BY DEF Whole
  <2>2. \A n \in InUse : tree.index[n] # Len(items')
    BY <1>1, <1>3 DEF Values
  <2>3. \A i \in 1 .. Len(items') : i = Len(items') \/ \E n \in InUse : Keys[n] = items'[i] /\ i <= tree.index[n]
    <3>1. \A i \in 1 .. Len(items) : \E n \in InUse : Keys[n] = items[i] /\ i <= tree.index[n]
      BY <1>2, <2>1 DEF Positions
    <3> QED BY <1>1, <1>3, <3>1 DEF Values
  <2>4. items' # <<>>
    BY <1>1, <1>3 DEF Values
  <2> QED BY <1>2, <1>6, <2>1, <2>2, <2>3, <2>4 DEF Positions, PositionOfNewest
<1>8. Heights'
  <2>1. \A n \in InUse : Settled(tree, n)
    BY <1>2 DEF Whole, Heights
  <2> QED BY <1>2, <1>6, <2>1 DEF Heights
<1>9. SearchTree(tree.link, InUse, u, Keys)
  BY DEF Whole, Shape
<1>10. Calls(u)'
  <2>1. Len(stack') = 1 /\ stack'[1] = Root /\ stack' # <<>>
    BY <1>2
  <2> QED BY <1>2, <2>1 DEF Calls
<1>11. Descent(u)'
  <2>1. Len(stack') = 1 /\ Last(stack') = Root
    BY <1>2 DEF Last
  <2>2. Below(u, Here)' = InUse
    BY <1>2, <1>9, <2>1 DEF SearchTree, Here, Below
  <2> QED BY <1>6, <2>1, <2>2 DEF Descent
<1> QED BY <1>2, <1>4, <1>5, <1>6, <1>7, <1>8, <1>9, <1>10, <1>11 DEF Whole, Shape, SameContents

LEMMA GoDownKeeps ==
  ASSUME NEW u \in [Node -> SUBSET Node], Whole(u), GoDown
  PROVE  Whole(u)'
<1>1. Values /\ TypeOK
  BY Typed DEF Whole
<1> DEFINE n == Here
           s == Turns(Here)
           e == Last(stack)
<1>2. /\ pc = "down" /\ pc' = "down" /\ items' = items /\ tree' = tree /\ outcome' = outcome
      /\ n # Null /\ s \in Side /\ stack' = Append(stack, <<n, s>>) /\ UNCHANGED walkVars
  BY DEF GoDown
<1>3. stack \in Seq(Place) /\ stack # <<>> /\ Len(stack) \in Nat
  BY <1>1, <1>2 DEF TypeOK, Whole, Shape, Calls
<1>4. e = stack[Len(stack)] /\ e \in Place /\ Len(stack) >= 1
  BY <1>3, FrontLast DEF FrontOf
<1>5. SearchTree(tree.link, InUse, u, Keys)
  BY DEF Whole, Shape
<1>6. SidesOf(tree.link, InUse, u) /\ PlacesOf(tree.link, InUse, u)
  BY <1>1, <1>5, BelowNode, BelowPlace DEF Values
<1>7. n = tree.link[e] /\ n \in InUse /\ n \in Node
  BY <1>1, <1>2, <1>4, <1>6 DEF Here, PlacesOf, Values
<1>8. <<n, s>> \in Place
  BY <1>2, <1>7, Places
<1> HIDE DEF n, s, e
<1>9. /\ stack' \in Seq(Place) /\ Len(stack') = Len(stack) + 1 /\ stack' # <<>>
      /\ \A i \in 1 .. Len(stack) : stack'[i] = stack[i]
      /\ stack'[Len(stack')] = <<n, s>> /\ Last(stack') = <<n, s>>
  BY <1>2, <1>3, <1>8, AppendProperties DEF Last
<1>10. cursor' = Null /\ open' = <<>> /\ visited' = <<>> /\ Walking(u)'
  BY <1>2, NotWalking
<1>11. TypeOK'
  BY <1>1, <1>2, <1>9, <1>10 DEF TypeOK
<1>12. InUse' = InUse /\ Keys' = Keys
  BY <1>2 DEF InUse, Keys, PathOf
<1>13. Positions'
  BY <1>2, <1>12 DEF Positions, PositionOfNewest, Whole
<1>14. Heights'
  BY <1>2, <1>12 DEF Heights, Whole
<1>15. Calls(u)'
  <2>1. Calls(u)
    BY DEF Whole, Shape
  <2>2. Below(u, tree.link[<<n, s>>]) \subseteq Below(u, tree.link[e])
    <3>1. u[n] = {n} \cup Below(u, tree.link[<<n, s>>]) \cup Below(u, tree.link[<<n, Other(s)>>])
      BY <1>2, <1>6, <1>7 DEF SidesOf
    <3> QED BY <1>1, <1>7, <3>1 DEF Below, Values
  <2>3. stack'[1] = Root
    BY <1>3, <1>4, <1>9, <2>1 DEF Calls
  <2>4. \A i \in 2 .. Len(stack') : stack'[i] \in Node \X Side /\ stack'[i][1] = tree.link[stack'[i - 1]]
    <3> SUFFICES ASSUME NEW i \in 2 .. Len(stack')
                 PROVE  stack'[i] \in Node \X Side /\ stack'[i][1] = tree.link[stack'[i - 1]]
      OBVIOUS
    <3>1. CASE i = Len(stack')
      <4>1. i - 1 = Len(stack) /\ i - 1 \in 1 .. Len(stack)
        BY <1>3, <1>4, <1>9, <3>1
      <4>2. stack'[i - 1] = e /\ stack'[i] = <<n, s>>
        BY <1>4, <1>9, <3>1, <4>1
      <4> QED BY <1>2, <1>7, <4>2
    <3>2. CASE i # Len(stack')
      <4>1. i \in 2 .. Len(stack) /\ i \in 1 .. Len(stack) /\ i - 1 \in 1 .. Len(stack)
        BY <1>3, <1>9, <3>2
      <4> QED BY <1>9, <2>1, <4>1 DEF Calls
    <3> QED BY <3>1, <3>2
  <2>5. \A i, j \in 1 .. Len(stack') : i <= j =>
          Below(u, tree.link[stack'[j]]) \subseteq Below(u, tree.link[stack'[i]])
    <3> SUFFICES ASSUME NEW i \in 1 .. Len(stack'), NEW j \in 1 .. Len(stack'), i <= j
                 PROVE  Below(u, tree.link[stack'[j]]) \subseteq Below(u, tree.link[stack'[i]])
      OBVIOUS
    <3>1. CASE j # Len(stack')
      <4>1. i \in 1 .. Len(stack) /\ j \in 1 .. Len(stack)
        BY <1>3, <1>9, <3>1
      <4> QED BY <1>9, <2>1, <4>1 DEF Calls
    <3>2. CASE j = Len(stack') /\ i # Len(stack')
      <4>1. i \in 1 .. Len(stack) /\ Len(stack) \in 1 .. Len(stack) /\ i <= Len(stack)
        BY <1>3, <1>4, <1>9, <3>2
      <4>2. Below(u, tree.link[e]) \subseteq Below(u, tree.link[stack[i]])
        BY <1>4, <2>1, <4>1 DEF Calls
      <4> QED BY <1>9, <2>2, <3>2, <4>1, <4>2
    <3> QED BY <3>1, <3>2
  <2> QED BY <1>2, <1>9, <2>3, <2>4, <2>5 DEF Calls
<1>16. Descent(u)'
  <2>1. Descent(u)
    BY DEF Whole, Shape
  <2>2. NewPath \in Int /\ NewPath' = NewPath
    <3>1. Len(items) \in 1 .. Len(items)
      BY <1>1, <1>2, EmptySeq DEF Values, Positions, Whole
    <3> QED BY <1>1, <1>2, <3>1 DEF NewPath, PositionOfNewest, Values
  <2>3. Keys[n] = PathOf(n) /\ Keys[n] \in Int
    BY <1>1, <1>7 DEF Values, Keys
  <2>4. Before(s, NewPath, Keys[n])
    BY <1>2, <2>3 DEF s, n, Turns, Side, Before
  <2>5. \A i \in 2 .. Len(stack') : Before(stack'[i][2], NewPath, Keys[stack'[i][1]])
    <3> SUFFICES ASSUME NEW i \in 2 .. Len(stack')
                 PROVE  Before(stack'[i][2], NewPath, Keys[stack'[i][1]])
      OBVIOUS
    <3>1. CASE i = Len(stack')
      BY <1>9, <2>4, <3>1
    <3>2. CASE i # Len(stack')
      <4>1. i \in 2 .. Len(stack) /\ i \in 1 .. Len(stack)
        BY <1>3, <1>9, <3>2
      <4> QED BY <1>2, <1>9, <2>1, <4>1 DEF Descent
    <3> QED BY <3>1, <3>2
  <2>6. ASSUME NEW m \in InUse \ Below(u, tree.link[<<n, s>>])
        PROVE  Keys[m] # NewPath
    <3>1. CASE m \notin u[n]
      <4>1. Below(u, Here) = u[n]
        BY <1>1, <1>2, <1>7 DEF Below, n, Values
      <4> QED BY <1>2, <2>1, <3>1, <4>1 DEF Descent
    <3>2. CASE m = n
      BY <2>2, <2>3, <2>4, <1>2, <3>2, BeforeFacts
    <3>3. CASE m \in Below(u, tree.link[<<n, Other(s)>>])
      <4>1. Before(Other(s), Keys[m], Keys[n]) /\ Other(s) \in Side /\ Keys[m] \in Int
        BY <1>1, <1>2, <1>5, <1>7, <3>3, Sides DEF SearchTree, Values
      <4> QED BY <2>2, <2>3, <2>4, <4>1, <1>2 DEF Before, Other, Side
    <3>4. u[n] = {n} \cup Below(u, tree.link[<<n, s>>]) \cup Below(u, tree.link[<<n, Other(s)>>])
      BY <1>2, <1>6, <1>7 DEF SidesOf
    <3> QED BY <3>1, <3>2, <3>3, <3>4
  <2>7. Here' = tree.link[<<n, s>>]
    BY <1>2, <1>9 DEF Here
  <2> QED BY <1>12, <2>2, <2>5, <2>6, <2>7 DEF Descent
<1> QED BY <1>2, <1>5, <1>10, <1>11, <1>12, <1>13, <1>14, <1>15, <1>16 DEF Whole, Shape

\* What an insertion of the newest record knows.
Inserting(u) ==
  /\ PositionOfNewest \in 1 .. Len(items) /\ PositionOfNewest \in Node
  /\ PositionOfNewest \notin InUse
  /\ NewPath \in Int /\ NewPath = items[PositionOfNewest]
  /\ \A n \in InUse : Settled(tree, n)
  /\ Chain(tree.link, stack) /\ stack # <<>>
  /\ FrontOf(stack, Front(stack), Last(stack))
  /\ stack \in Seq(Place) /\ Front(stack) \in Seq(Place)
  /\ Last(stack) \in Place /\ Last(stack) = stack[Len(stack)] /\ Here = tree.link[Last(stack)]

LEMMA DownFacts ==
  ASSUME NEW u \in [Node -> SUBSET Node], Whole(u), pc = "down"
  PROVE  Inserting(u)
<1>1. Values /\ TypeOK /\ Positions /\ Heights
  BY Typed DEF Whole
<1>2. PositionOfNewest \in 1 .. Len(items) /\ PositionOfNewest \in Node
  <2>1. Len(items) \in Nat /\ Len(items) >= 1 /\ Len(items) <= MaxRecords
    BY <1>1, EmptySeq DEF Values, Positions, TypeOK
  <2> QED BY <2>1, TreeAssumption DEF PositionOfNewest, Node
<1>3. PositionOfNewest \notin InUse
  <2> SUFFICES ASSUME PositionOfNewest \in InUse PROVE FALSE
    OBVIOUS
  <2>1. /\ PositionOfNewest <= tree.index[PositionOfNewest]
        /\ tree.index[PositionOfNewest] # PositionOfNewest
        /\ tree.index[PositionOfNewest] \in 1 .. Len(items)
    BY <1>1 DEF Positions, Values
  <2> QED BY <1>1, <2>1 DEF PositionOfNewest, Values
<1>4. NewPath \in Int /\ NewPath = items[PositionOfNewest]
  BY <1>1, <1>2 DEF Values, NewPath
<1>5. \A n \in InUse : Settled(tree, n)
  BY <1>1 DEF Heights
<1>6. stack \in Seq(Place) /\ stack # <<>>
  BY <1>1 DEF TypeOK, Whole, Shape, Calls
<1>7. /\ Chain(tree.link, stack) /\ FrontOf(stack, Front(stack), Last(stack))
      /\ Front(stack) \in Seq(Place) /\ Last(stack) \in Place
  BY <1>6, CallsChain, FrontLast
<1>8. Last(stack) = stack[Len(stack)] /\ Here = tree.link[Last(stack)]
  BY <1>7 DEF FrontOf, Here
<1> QED BY <1>2, <1>3, <1>4, <1>5, <1>6, <1>7, <1>8 DEF Inserting

\* The calls of a shorter stack.
FrontCalls(l, u, st) ==
  /\ st # <<>> => st[1] = Root
  /\ \A i \in 2 .. Len(st) : st[i] \in Node \X Side /\ st[i][1] = l[st[i - 1]]
  /\ \A i, j \in 1 .. Len(st) : i <= j => Below(u, l[st[j]]) \subseteq Below(u, l[st[i]])
  /\ st # <<>> => l[Last(st)] # Null

\* When the innermost call returns, the one before it goes on with the node
\* whose place that was.
LEMMA Returning ==
  ASSUME NEW u \in [Node -> SUBSET Node], Whole(u), stack # <<>>
  PROVE  /\ FrontCalls(tree.link, u, Front(stack))
         /\ Front(stack) # <<>> =>
              /\ tree.link[Last(Front(stack))] = Last(stack)[1]
              /\ Last(stack) \in Node \X Side
         /\ Front(stack) = <<>> => Last(stack) = Root
         /\ Front(stack) \in Seq(Place)
<1> DEFINE f == Front(stack)
           e == Last(stack)
           n == Len(stack)
<1>1. Calls(u) /\ stack \in Seq(Place)
  BY DEF Whole, Shape, TypeOK
<1>2. FrontOf(stack, f, e) /\ f \in Seq(Place)
  BY <1>1, FrontLast
<1> HIDE DEF f, e
<1>3. /\ Len(f) = n - 1 /\ Len(f) \in Nat /\ n \in Nat
      /\ \A i \in 1 .. Len(f) : f[i] = stack[i] /\ i \in 1 .. n
      /\ e = stack[n]
  BY <1>1, <1>2 DEF FrontOf
<1>4. ASSUME f # <<>>
      PROVE  /\ Len(f) >= 1 /\ f[1] = Root /\ Last(f) = stack[n - 1]
             /\ e[1] = tree.link[stack[n - 1]] /\ e \in Node \X Side
  <2>1. Len(f) >= 1
    BY <1>2, <1>3, <1>4, EmptySeq
  <2>2. n \in 2 .. n /\ Len(f) \in 1 .. Len(f) /\ 1 \in 1 .. Len(f)
    BY <1>3, <2>1
  <2>3. Last(f) = stack[n - 1]
    BY <1>3, <2>2 DEF Last
  <2>4. f[1] = Root
    BY <1>1, <1>3, <2>2 DEF Calls
  <2> QED BY <1>1, <1>3, <2>1, <2>2, <2>3, <2>4 DEF Calls
<1>5. f = <<>> => e = Root
  <2>1. f = <<>> => n = 1
    BY <1>3
  <2> QED BY <1>1, <1>3, <2>1 DEF Calls
<1>6. \A i \in 2 .. Len(f) : f[i] \in Node \X Side /\ f[i][1] = tree.link[f[i - 1]]
  <2> SUFFICES ASSUME NEW i \in 2 .. Len(f)
               PROVE  f[i] \in Node \X Side /\ f[i][1] = tree.link[f[i - 1]]
    OBVIOUS
  <2>1. i \in 2 .. n /\ i \in 1 .. Len(f) /\ i - 1 \in 1 .. Len(f)
    BY <1>3
  <2> QED BY <1>1, <1>3, <2>1 DEF Calls
<1>7. \A i, j \in 1 .. Len(f) : i <= j =>
        Below(u, tree.link[f[j]]) \subseteq Below(u, tree.link[f[i]])
  BY <1>1, <1>3 DEF Calls
<1>8. f # <<>> => tree.link[Last(f)] = e[1] /\ tree.link[Last(f)] # Null
  BY <1>4, Places
<1> QED BY <1>2, <1>4, <1>5, <1>6, <1>7, <1>8 DEF FrontCalls, f, e

\* One node, perhaps a new one, has the path and the position of the newest
\* record; all others have those they had.
Puts ==
  \E n \in InUse' :
    /\ InUse' = InUse \cup {n}
    /\ Keys'[n] = NewPath /\ tree'.index[n] = PositionOfNewest
    /\ n \in InUse => Keys[n] = NewPath
    /\ \A m \in InUse' \ {n} : Keys'[m] = Keys[m] /\ tree'.index[m] = tree.index[m]

LEMMA ReplaceKeeps ==
  ASSUME NEW u \in [Node -> SUBSET Node], Whole(u), Replace
  PROVE  Whole(u)' /\ Puts
<1> DEFINE n == Here
           x == PositionOfNewest
<1>1. Values /\ TypeOK /\ Positions
  BY Typed DEF Whole
<1>2. /\ pc = "down" /\ pc' = "up" /\ items' = items /\ stack' = Front(stack)
      /\ n # Null /\ Turns(n) = "here" /\ UNCHANGED walkVars /\ outcome' = "ok"
      /\ tree' = [tree EXCEPT !.index[n] = x]
  BY DEF Replace, Succeeds, Goes
<1>3. Inserting(u)
  BY <1>2, DownFacts
<1>4. SearchTree(tree.link, InUse, u, Keys)
  BY DEF Whole, Shape
<1>5. n \in InUse /\ n \in Node
  BY <1>1, <1>2, <1>3, <1>4 DEF SearchTree, Values, Inserting
<1> HIDE DEF n, x
<1>6. x \in 1 .. Len(items) /\ x = Len(items) /\ x # Null /\ NewPath = items[x] /\ NewPath \in Int
  BY <1>3, Places DEF Inserting, x, PositionOfNewest
<1>7. /\ tree'.link = tree.link /\ tree'.height = tree.height
      /\ tree'.index = [tree.index EXCEPT ![n] = x]
      /\ tree' = [link |-> tree'.link, height |-> tree'.height, index |-> tree'.index]
  BY <1>1, <1>2 DEF TypeOK
<1>8. tree'.index \in [Node -> 0 .. Len(items)] /\ tree'.index[n] = x
      /\ \A y \in Node \ {n} : tree'.index[y] = tree.index[y]
  BY <1>1, <1>5, <1>6, <1>7 DEF TypeOK, Values
<1>9. cursor' = Null /\ open' = <<>> /\ visited' = <<>> /\ Walking(u)'
  BY <1>2, NotWalking
<1>10. stack' \in Seq(Place) /\ FrontCalls(tree.link, u, stack')
  BY <1>2, <1>3, Returning DEF Inserting
<1>11. TypeOK'
  <2>1. tree' \in [link : [Place -> Node \cup {Null}], height : [Node -> Nat],
                   index : [Node -> 0 .. Len(items)]]
    <3>1. tree.link \in [Place -> Node \cup {Null}] /\ tree.height \in [Node -> Nat]
      BY <1>1 DEF TypeOK
    <3> QED BY <1>7, <1>8, <3>1
  <2>2. items' \in Seq(Path) /\ Len(items') <= MaxRecords
    BY <1>1, <1>2 DEF TypeOK
  <2>3. /\ cursor' \in Node \cup {Null} /\ open' \in Seq(Node)
        /\ visited' \in Seq(1 .. Len(items')) /\ stack' \in Seq(Place)
    BY <1>9, <1>10
  <2> HIDE DEF x
  <2> QED BY <1>2, <2>1, <2>2, <2>3 DEF TypeOK
<1>12. Keys[n] = NewPath
  <2>1. PathOf(n) = Keys[n] /\ Keys[n] \in Int
    BY <1>1, <1>5 DEF Keys, Values
  <2>2. ~(NewPath < PathOf(n)) /\ ~(NewPath > PathOf(n))
    BY <1>2 DEF Turns
  <2> QED BY <1>6, <2>1, <2>2
<1>13. InUse' = InUse
  BY <1>5, <1>6, <1>8 DEF InUse
<1>14. Keys' = Keys
  <2>1. \A y \in InUse : items[tree'.index[y]] = Keys[y]
    BY <1>1, <1>6, <1>8, <1>12 DEF Values
  <2>2. Keys' = [y \in InUse |-> items[tree'.index[y]]]
    BY <1>2, <1>13 DEF Keys, PathOf
  <2> QED BY <1>1, <2>1, <2>2 DEF Values
<1>15. Positions'
  <2>1. \A y \in InUse : y <= tree'.index[y]
    <3>1. n <= tree.index[n] /\ tree.index[n] \in 1 .. Len(items) /\ tree.index[n] <= x
      BY <1>1, <1>5, <1>6 DEF Positions, Values
    <3>2. n <= x
      BY <1>5, <1>6, <3>1 DEF Node
    <3> QED BY <1>1, <1>8, <3>2 DEF Positions, Values
  <2>2. ASSUME NEW i \in 1 .. Len(items)
        PROVE  \E y \in InUse : Keys[y] = items[i] /\ i <= tree'.index[y]
    <3>1. CASE i = x
      BY <1>5, <1>6, <1>8, <1>12, <3>1
    <3>2. CASE i # x
      <4>1. PICK y \in InUse : Keys[y] = items[i] /\ i <= tree.index[y]
        BY <1>1, <3>2 DEF Positions, x
      <4>2. CASE y = n
        BY <1>6, <1>8, <4>1, <4>2
      <4>3. CASE y # n
        BY <1>1, <1>8, <4>1, <4>3 DEF Values
      <4> QED BY <4>2, <4>3
    <3> QED BY <3>1, <3>2
  <2>3. \A y, z \in InUse : Keys[y] = Keys[z] => y = z
    BY <1>1 DEF Positions
  <2> QED BY <1>2, <1>13, <1>14, <2>1, <2>2, <2>3 DEF Positions
<1>16. \A y \in Node : Settled(tree, y) => Settled(tree', y)
  BY <1>7 DEF Settled, HeightAbove, Height
<1>17. Heights'
  <2> SUFFICES ASSUME NEW y \in InUse
               PROVE  IF stack' # <<>> /\ y = Here' THEN AlmostSettled(tree', y) ELSE Settled(tree', y)
    BY <1>2, <1>13 DEF Heights
  <2>1. Settled(tree', y) /\ y \in Node
    BY <1>1, <1>3, <1>16 DEF Inserting, Values
  <2>2. tree' \in Trees
    BY <1>11, TypedNext DEF Values
  <2>3. AlmostSettled(tree', y)
    <3> DEFINE high == Height(tree', <<y, "left">>)
               other == Height(tree', <<y, "right">>)
    <3>1. "left" \in Side /\ Other("left") = "right"
      BY DEF Side, Other
    <3>2. high \in Nat /\ other \in Nat /\ high - other \in {-1, 0, 1}
          /\ tree'.height[y] = 1 + (IF high > other THEN high ELSE other)
      BY <2>1, <2>2, <3>1, HeightSides DEF Settled, HeightAbove
    <3> HIDE DEF high, other
    <3>3. \E h \in {high, high - 1} :
            /\ tree'.height[y] = 1 + (IF h > other THEN h ELSE other)
            /\ h >= 0 /\ h - other \in {-1, 0, 1}
      BY <3>2
    <3> QED BY <3>1, <3>3 DEF AlmostSettled, high, other
  <2> QED BY <2>1, <2>3
<1>18. SearchTree(tree.link, InUse, u, Keys)'
  BY <1>4, <1>7, <1>13, <1>14
<1>19. Calls(u)'
  BY <1>2, <1>7, <1>10 DEF Calls, FrontCalls, Here
<1>20. Descent(u)'
  BY <1>2 DEF Descent
<1>21. Puts
  <2>1. \A y \in InUse \ {n} : y \in Node \ {n}
    BY <1>1 DEF Values
  <2> QED BY <1>5, <1>8, <1>12, <1>13, <1>14, <2>1 DEF Puts, x
<1> QED BY <1>9, <1>11, <1>15, <1>17, <1>18, <1>19, <1>20, <1>21 DEF Whole, Shape

LEMMA NoNodeKeeps ==
  ASSUME NEW u \in [Node -> SUBSET Node], Whole(u), NoNode
  PROVE  Whole(u)' /\ SameContents
<1>1. Values /\ TypeOK /\ Positions
  BY Typed DEF Whole
<1>2. /\ pc = "down" /\ pc' = "idle" /\ items' = Front(items) /\ stack' = <<>>
      /\ UNCHANGED walkVars /\ outcome' = "ENOMEM" /\ tree' = tree
  BY DEF NoNode, Goes
<1>3. Inserting(u)
  BY <1>2, DownFacts
<1>4. FrontOf(items, items', Last(items)) /\ items' \in Seq(Path)
  BY <1>1, <1>2, FrontLast DEF Values, Positions
<1>5. /\ Len(items') = Len(items) - 1 /\ Len(items') \in Nat
      /\ \A i \in 1 .. Len(items') : items'[i] = items[i]
  BY <1>4 DEF FrontOf
<1>6. cursor' = Null /\ open' = <<>> /\ visited' = <<>> /\ Walking(u)'
  BY <1>2, NotWalking
<1>7. \A n \in InUse : tree.index[n] \in 1 .. Len(items')
  BY <1>1, <1>2, <1>5 DEF Values, Positions, PositionOfNewest
<1>8. TypeOK'
  <2>1. tree.index \in [Node -> 0 .. Len(items')]
    <3>1. \A n \in Node : tree.index[n] = 0 \/ tree.index[n] \in 1 .. Len(items')
      BY <1>7 DEF InUse, Null
    <3>2. \A n \in Node : tree.index[n] \in 0 .. Len(items')
      BY <1>5, <3>1
    <3>3. tree.index \in [Node -> 0 .. Len(items)]
      BY <1>1 DEF TypeOK
    <3> QED BY <3>2, <3>3
  <2>2. Len(items') <= MaxRecords
    BY <1>1, <1>5, TreeAssumption DEF TypeOK, Values
  <2> QED BY <1>1, <1>2, <1>4, <1>6, <2>1, <2>2 DEF TypeOK
<1>9. InUse' = InUse /\ Keys' = Keys
  <2>1. InUse' = InUse
    BY <1>2 DEF InUse
  <2>2. \A n \in InUse : items'[tree.index[n]] = items[tree.index[n]]
    BY <1>5, <1>7
  <2> QED BY <1>2, <2>1, <2>2 DEF Keys, PathOf
<1>10. Positions'
  <2>1. \A i \in 1 .. Len(items') : i \in 1 .. Len(items) /\ i # PositionOfNewest
    BY <1>1, <1>5 DEF PositionOfNewest, Values
  <2> QED BY <1>1, <1>2, <1>5, <1>9, <2>1 DEF Positions
<1>11. Heights'
  BY <1>2, <1>3, <1>9 DEF Heights, Inserting
<1>12. Calls(u)'
  BY <1>2 DEF Calls
<1>13. Descent(u)'
  BY <1>2 DEF Descent
<1> QED BY <1>2, <1>6, <1>8, <1>9, <1>10, <1>11, <1>12, <1>13 DEF Whole, Shape, SameContents

LEMMA InsertedKeeps ==
  ASSUME NEW u \in [Node -> SUBSET Node], Whole(u), Inserted
  PROVE  Whole(u)'
<1>1. Values /\ TypeOK /\ Positions
  BY Typed DEF Whole
<1>2. /\ pc = "up" /\ pc' = "idle" /\ items' = items /\ stack' = <<>> /\ stack = <<>>
      /\ UNCHANGED walkVars /\ outcome' = outcome /\ tree' = tree
  BY DEF Inserted, Goes, insertVars
<1>3. cursor' = Null /\ open' = <<>> /\ visited' = <<>> /\ Walking(u)'
  BY <1>2, NotWalking
<1>4. TypeOK'
  BY <1>1, <1>2, <1>3 DEF TypeOK
<1>5. InUse' = InUse /\ Keys' = Keys
  BY <1>2 DEF InUse, Keys, PathOf
<1>6. Positions' /\ Heights' /\ Calls(u)' /\ Descent(u)'
  BY <1>1, <1>2, <1>5 DEF Positions, Heights, Calls, Descent, Whole
<1> QED BY <1>2, <1>3, <1>4, <1>5, <1>6 DEF Whole, Shape

\* One side of a settled node became at most one higher.
LEMMA GrownSide ==
  ASSUME NEW t \in Trees, NEW r \in Trees, NEW y \in Node, NEW s \in Side, Settled(t, y),
         r.height[y] = t.height[y],
         Height(r, <<y, s>>) \in {Height(t, <<y, s>>), Height(t, <<y, s>>) + 1},
         Height(r, <<y, Other(s)>>) = Height(t, <<y, Other(s)>>)
  PROVE  AlmostSettled(r, y)
<1> DEFINE h == Height(t, <<y, s>>)
           high == Height(r, <<y, s>>)
           other == Height(r, <<y, Other(s)>>)
<1>1. /\ h \in Nat /\ other \in Nat /\ h - other \in {-1, 0, 1}
      /\ r.height[y] = 1 + (IF h > other THEN h ELSE other)
  <2>1. /\ h \in Nat /\ other \in Nat /\ h - other \in {-1, 0, 1}
        /\ t.height[y] = HeightAbove(t, y)
    BY HeightSides
  <2>2. /\ h <= other => HeightAbove(t, y) = 1 + other
        /\ h >= other => HeightAbove(t, y) = 1 + h
    BY HeightSides
  <2> HIDE DEF h, other
  <2> QED BY <2>1, <2>2
<1>2. high \in {h, h + 1}
  OBVIOUS
<1> HIDE DEF h, high, other
<1>3. h \in {high, high - 1}
  BY <1>1, <1>2
<1>4. \E g \in {high, high - 1} :
        /\ r.height[y] = 1 + (IF g > other THEN g ELSE other)
        /\ g >= 0 /\ g - other \in {-1, 0, 1}
  BY <1>1, <1>3
<1> QED BY <1>4 DEF AlmostSettled, high, other

\* The outer calls are for places that are not below the innermost one.
LEMMA OuterCalls ==
  ASSUME NEW u \in [Node -> SUBSET Node], Whole(u), stack # <<>>, Here # Null
  PROVE  \A i \in 1 .. Len(Front(stack)) :
           /\ Front(stack)[i] \in Place \ {Last(stack)}
           /\ Front(stack)[i][1] \notin Below(u, Here)
<1> DEFINE f == Front(stack)
           e == Last(stack)
<1>1. Values /\ TypeOK /\ Calls(u) /\ SearchTree(tree.link, InUse, u, Keys)
  BY Typed DEF Whole, Shape
<1>2. FrontOf(stack, f, e) /\ f \in Seq(Place) /\ stack \in Seq(Place)
  BY <1>1, FrontLast DEF TypeOK
<1> HIDE DEF f, e
<1>3. /\ Len(f) = Len(stack) - 1 /\ Len(f) \in Nat /\ Len(stack) \in Nat /\ e = stack[Len(stack)]
      /\ \A i \in 1 .. Len(f) : f[i] = stack[i] /\ i \in 1 .. Len(stack) /\ i <= Len(stack)
      /\ Len(stack) \in 1 .. Len(stack)
  BY <1>2 DEF FrontOf
<1>4. OwnersOf(tree.link, u) /\ PlacesOf(tree.link, InUse, u)
  BY <1>1, NotBelowItsPlace, BelowPlace DEF Values
<1>5. Here = tree.link[e] /\ e \in Place /\ Here \in Below(u, Here)
  <2>1. Here = tree.link[e] /\ e \in Place
    BY <1>2, <1>3 DEF Here, e
  <2> QED BY <1>4, <2>1 DEF PlacesOf
<1>6. \A i \in 1 .. Len(stack) : stack[i] \in Place /\ stack[i][1] \notin Below(u, Here)
  <2> SUFFICES ASSUME NEW i \in 1 .. Len(stack)
               PROVE  stack[i] \in Place /\ stack[i][1] \notin Below(u, Here)
    OBVIOUS
  <2>1. stack[i] \in Place /\ i <= Len(stack)
    BY <1>2
  <2>2. Below(u, Here) \subseteq Below(u, tree.link[stack[i]])
    BY <1>1, <1>3, <1>5, <2>1 DEF Calls
  <2> QED BY <1>4, <2>1, <2>2 DEF OwnersOf
<1>7. ASSUME NEW i \in 1 .. Len(f)
      PROVE  f[i] # e
  <2>1. i + 1 \in 2 .. Len(stack) /\ i + 1 \in 1 .. Len(stack) /\ (i + 1) - 1 = i
    BY <1>3
  <2>2. stack[i + 1][1] = tree.link[stack[i]]
    BY <1>1, <2>1 DEF Calls
  <2> QED BY <1>3, <1>5, <1>6, <2>1, <2>2
<1> QED BY <1>3, <1>6, <1>7 DEF f, e

LEMMA ClimbKeeps ==
  ASSUME NEW u \in [Node -> SUBSET Node], Whole(u), Climb
  PROVE  (\E v \in [Node -> SUBSET Node] : Whole(v)') /\ SameContents
<1> DEFINE n == Here
           p == Last(stack)
           f == Front(stack)
<1>1. Values /\ TypeOK /\ Positions /\ Heights /\ Calls(u) /\ SearchTree(tree.link, InUse, u, Keys)
  BY Typed DEF Whole, Shape
<1>2. /\ pc = "up" /\ pc' = "up" /\ items' = items /\ stack # <<>> /\ stack' = f
      /\ UNCHANGED walkVars /\ outcome' = outcome /\ tree' = Rebalance(tree, p)
  BY DEF Climb
<1>3. p \in Place /\ n = tree.link[p] /\ n # Null
  BY <1>1, <1>2, FrontLast DEF TypeOK, Here, Calls
<1>4. /\ FrontCalls(tree.link, u, f) /\ f \in Seq(Place)
      /\ f # <<>> => tree.link[Last(f)] = p[1] /\ p \in Node \X Side
      /\ f = <<>> => p = Root
  BY <1>2, Returning
<1>5. \A i \in 1 .. Len(f) : f[i] \in Place \ {p} /\ f[i][1] \notin Below(u, n)
  BY <1>2, <1>3, OuterCalls
<1> HIDE DEF n, p, f
<1>6. OwnersOf(tree.link, u) /\ PlacesOf(tree.link, InUse, u)
  BY <1>1, NotBelowItsPlace, BelowPlace DEF Values
<1>7. n \in InUse /\ n \in Node /\ Below(u, n) = u[n] /\ n \in u[n] /\ u[n] \subseteq InUse
      /\ p[1] \notin u[n]
  BY <1>1, <1>3, <1>6 DEF PlacesOf, OwnersOf, Values
<1>8. AlmostSettled(tree, n) /\ \A y \in InUse \ {n} : Settled(tree, y)
  BY <1>1, <1>2, <1>7 DEF Heights, n
<1>9. PICK v \in [Node -> SUBSET Node] :
        /\ Kept(tree, tree', InUse, u, v, Keys, p)
        /\ Repaired(tree', v, p, tree.height[n])
  <2>1. tree \in Trees /\ InUse \in SUBSET Node /\ Keys \in [InUse -> Int]
    BY <1>1 DEF Values
  <2>2. \A y \in u[n] \ {n} : Settled(tree, y)
    BY <1>7, <1>8
  <2>3. \E v \in [Node -> SUBSET Node] :
          /\ Kept(tree, Rebalance(tree, p), InUse, u, v, Keys, p)
          /\ Repaired(Rebalance(tree, p), v, p, tree.height[n])
    BY <1>1, <1>3, <1>7, <1>8, <2>1, <2>2, RebalanceRepairs
  <2> QED BY <1>2, <2>3
<1>10. /\ tree' \in Trees /\ tree'.index = tree.index
       /\ SearchTree(tree'.link, InUse, v, Keys)
       /\ tree'.link[p] # Null /\ Below(v, tree'.link[p]) = u[n]
       /\ \A q \in Place \ {p} : q[1] \notin u[n] =>
            /\ tree'.link[q] = tree.link[q] /\ Height(tree', q) = Height(tree, q)
            /\ Below(v, tree'.link[q]) = Below(u, tree.link[q])
       /\ \A x \in Node \ u[n] : tree'.height[x] = tree.height[x]
  BY <1>3, <1>7, <1>9 DEF Kept
<1>11. /\ \A x \in u[n] : Settled(tree', x)
       /\ tree'.height[tree'.link[p]] \in {tree.height[n], tree.height[n] + 1}
  BY <1>9, <1>10 DEF Repaired
<1>12. cursor' = Null /\ open' = <<>> /\ visited' = <<>> /\ Walking(v)'
  <2>1. cursor' = Null /\ open' = <<>> /\ visited' = <<>>
    BY <1>2, NotWalking
  <2> QED BY <1>2, <2>1 DEF Walking
<1>13. TypeOK'
  <2>1. tree' \in [link : [Place -> Node \cup {Null}], height : [Node -> Nat],
                   index : [Node -> 0 .. Len(items)]]
    <3>1. tree' \in [link : [Place -> Node \cup {Null}], height : [Node -> Nat], index : [Node -> Nat]]
      BY <1>10 DEF Trees
    <3>2. tree'.index \in [Node -> 0 .. Len(items)]
      BY <1>1, <1>10 DEF TypeOK
    <3> QED BY <3>1, <3>2
  <2>2. items' \in Seq(Path) /\ Len(items') <= MaxRecords
    BY <1>1, <1>2 DEF TypeOK
  <2>3. /\ cursor' \in Node \cup {Null} /\ open' \in Seq(Node)
        /\ visited' \in Seq(1 .. Len(items')) /\ stack' \in Seq(Place)
    BY <1>2, <1>4, <1>12
  <2>4. outcome' \in {"none", "ok", "ENOMEM"}
    BY <1>1, <1>2 DEF TypeOK
  <2> QED BY <1>2, <2>1, <2>2, <2>3, <2>4 DEF TypeOK
<1>14. InUse' = InUse /\ Keys' = Keys
  BY <1>2, <1>10 DEF InUse, Keys, PathOf
<1>15. Positions'
  BY <1>1, <1>2, <1>10, <1>14 DEF Positions, PositionOfNewest
<1>16. stack' # <<>> => Here' = p[1] /\ p \in Node \X Side
  <2> SUFFICES ASSUME f # <<>> PROVE Here' = p[1] /\ p \in Node \X Side
    BY <1>2
  <2>1. Len(f) \in 1 .. Len(f) /\ Last(f) = f[Len(f)]
    BY <1>4, EmptySeq DEF Last
  <2>2. tree'.link[Last(f)] = tree.link[Last(f)]
    BY <1>5, <1>7, <1>10, <2>1
  <2> QED BY <1>2, <1>4, <2>2 DEF Here
<1>17. Heights'
  <2> SUFFICES ASSUME NEW y \in InUse
               PROVE  IF stack' # <<>> /\ y = Here' THEN AlmostSettled(tree', y) ELSE Settled(tree', y)
    BY <1>2, <1>14 DEF Heights
  <2>1. y \in Node
    BY <1>1 DEF Values
  <2>2. CASE y \in u[n]
    BY <1>7, <1>11, <1>16, <2>2
  <2>3. CASE y \notin u[n] /\ y # p[1]
    <3>1. \A s \in Side : Height(tree', <<y, s>>) = Height(tree, <<y, s>>)
      <4> SUFFICES ASSUME NEW s \in Side PROVE Height(tree', <<y, s>>) = Height(tree, <<y, s>>)
        OBVIOUS
      <4>1. <<y, s>> \in Place \ {p} /\ <<y, s>>[1] \notin u[n]
        BY <2>1, <2>3, Places
      <4> QED BY <1>10, <4>1
    <3>2. tree'.height[y] = tree.height[y] /\ Settled(tree, y)
      BY <1>7, <1>8, <1>10, <2>1, <2>3
    <3>3. Settled(tree', y)
      BY <1>1, <1>10, <2>1, <3>1, <3>2, SettledKept DEF Values
    <3> QED BY <1>16, <2>3, <3>3
  <2>4. CASE y \notin u[n] /\ y = p[1]
    <3>1. p # Root
      BY <2>1, <2>4, Places DEF Root
    <3>2. stack' # <<>> /\ p \in Node \X Side /\ Here' = y
      BY <1>2, <1>4, <1>16, <2>4, <3>1
    <3>3. PICK s \in Side : p = <<y, s>>
      BY <2>4, <3>2
    <3>4. Height(tree', <<y, s>>) \in {Height(tree, <<y, s>>), Height(tree, <<y, s>>) + 1}
      BY <1>3, <1>10, <1>11, <3>3 DEF Height
    <3>5. Height(tree', <<y, Other(s)>>) = Height(tree, <<y, Other(s)>>)
      <4>1. <<y, Other(s)>> \in Place \ {p} /\ <<y, Other(s)>>[1] \notin u[n]
        BY <2>1, <2>4, <3>3, Places, Sides
      <4> QED BY <1>10, <4>1
    <3>6. tree'.height[y] = tree.height[y] /\ Settled(tree, y)
      BY <1>7, <1>8, <1>10, <2>1, <2>4
    <3>7. AlmostSettled(tree', y)
      BY <1>1, <1>10, <2>1, <3>4, <3>5, <3>6, GrownSide DEF Values
    <3> QED BY <3>2, <3>7
  <2> QED BY <2>2, <2>3, <2>4
<1>18. SearchTree(tree.link, InUse, v, Keys)'
  BY <1>10, <1>14
<1>19. Calls(v)'
  <2>1. \A i \in 1 .. Len(f) :
          tree'.link[f[i]] = tree.link[f[i]] /\ Below(v, tree'.link[f[i]]) = Below(u, tree.link[f[i]])
    BY <1>5, <1>7, <1>10
  <2>2. \A i \in 2 .. Len(f) : i - 1 \in 1 .. Len(f)
    BY <1>4
  <2>3. \A i \in 2 .. Len(f) : f[i] \in Node \X Side /\ f[i][1] = tree'.link[f[i - 1]]
    BY <1>4, <2>1, <2>2 DEF FrontCalls
  <2>4. \A i, j \in 1 .. Len(f) : i <= j =>
          Below(v, tree'.link[f[j]]) \subseteq Below(v, tree'.link[f[i]])
    BY <1>4, <2>1 DEF FrontCalls
  <2>5. f # <<>> => f[1] = Root
    BY <1>4 DEF FrontCalls
  <2>6. f # <<>> => Here' # Null
    BY <1>2, <1>16, Places
  <2> QED BY <1>2, <2>3, <2>4, <2>5, <2>6 DEF Calls
<1>20. Descent(v)'
  BY <1>2 DEF Descent
<1>21. Whole(v)'
  BY <1>12, <1>13, <1>15, <1>17, <1>18, <1>19, <1>20 DEF Whole, Shape
<1> QED BY <1>10, <1>14, <1>21 DEF SameContents

LEMMA AttachKeeps ==
  ASSUME NEW u \in [Node -> SUBSET Node], Whole(u), Attach
  PROVE  (\E v \in [Node -> SUBSET Node] : Whole(v)') /\ Puts
<1> DEFINE x == PositionOfNewest
           p == Last(stack)
           f == Front(stack)
           l == tree.link
           m == tree'.link
<1>1. /\ Values /\ TypeOK /\ Positions /\ Heights /\ Calls(u) /\ Descent(u)
      /\ SearchTree(l, InUse, u, Keys)
  BY Typed DEF Whole, Shape
<1>2. /\ pc = "down" /\ pc' = "up" /\ items' = items /\ stack' = f /\ Here = Null
      /\ UNCHANGED walkVars /\ outcome' = "ok"
      /\ tree' = [tree EXCEPT !.link[p] = x, !.height[x] = 1, !.index[x] = x]
  BY DEF Attach, Succeeds, Goes
<1>3. Inserting(u)
  BY <1>2, DownFacts
<1>4. /\ FrontCalls(l, u, f) /\ f \in Seq(Place) /\ stack # <<>>
      /\ f # <<>> => l[Last(f)] = p[1] /\ p \in Node \X Side
      /\ f = <<>> => p = Root
  BY <1>3, Returning DEF Inserting
<1>5. /\ x \in 1 .. Len(items) /\ x = Len(items) /\ x \in Node \ InUse /\ x # Null
      /\ NewPath = items[x] /\ NewPath \in Int
      /\ \A n \in InUse : Settled(tree, n)
      /\ Chain(l, stack) /\ FrontOf(stack, f, p) /\ stack \in Seq(Place)
      /\ p \in Place /\ p = stack[Len(stack)] /\ l[p] = Null
  BY <1>2, <1>3, Places DEF Inserting, PositionOfNewest
<1> HIDE DEF x, p, f
<1>6. /\ m = [l EXCEPT ![p] = x] /\ tree'.height = [tree.height EXCEPT ![x] = 1]
      /\ tree'.index = [tree.index EXCEPT ![x] = x]
      /\ tree' = [link |-> m, height |-> tree'.height, index |-> tree'.index]
  BY <1>1, <1>2 DEF TypeOK
<1>7. /\ l \in [Place -> Node \cup {Null}] /\ tree.height \in [Node -> Nat]
      /\ tree.index \in [Node -> 0 .. Len(items)]
  BY <1>1 DEF TypeOK
<1> HIDE DEF l, m
<1>8. /\ m \in [Place -> Node \cup {Null}] /\ m[p] = x /\ \A q \in Place \ {p} : m[q] = l[q]
      /\ tree'.height \in [Node -> Nat] /\ tree'.height[x] = 1
      /\ \A y \in Node \ {x} : tree'.height[y] = tree.height[y]
      /\ tree'.index \in [Node -> 0 .. Len(items)] /\ tree'.index[x] = x
      /\ \A y \in Node \ {x} : tree'.index[y] = tree.index[y]
  BY <1>5, <1>6, <1>7
<1>9. PICK v \in [Node -> SUBSET Node] : v = Extended(u, stack, x)
  <2>1. Extended(u, stack, x) \in [Node -> SUBSET Node]
    BY <1>5 DEF Extended
  <2> QED BY <2>1
<1>10. cursor' = Null /\ open' = <<>> /\ visited' = <<>> /\ Walking(v)'
  <2>1. cursor' = Null /\ open' = <<>> /\ visited' = <<>>
    BY <1>2, NotWalking
  <2> QED BY <1>2, <2>1 DEF Walking
<1>11. TypeOK'
  <2>1. tree' \in [link : [Place -> Node \cup {Null}], height : [Node -> Nat],
                   index : [Node -> 0 .. Len(items)]]
    BY <1>6, <1>8 DEF m
  <2>2. items' \in Seq(Path) /\ Len(items') <= MaxRecords
    BY <1>1, <1>2 DEF TypeOK
  <2>3. /\ cursor' \in Node \cup {Null} /\ open' \in Seq(Node)
        /\ visited' \in Seq(1 .. Len(items')) /\ stack' \in Seq(Place)
    BY <1>2, <1>4, <1>10
  <2> QED BY <1>2, <2>1, <2>2, <2>3 DEF TypeOK
<1>12. InUse' = InUse \cup {x}
  BY <1>5, <1>8 DEF InUse
<1>13. /\ Keys' \in [InUse \cup {x} -> Int] /\ Keys'[x] = NewPath
       /\ \A n \in InUse : Keys'[n] = Keys[n] /\ n \in Node /\ n # x
  <2>1. \A n \in InUse : n \in Node /\ n # x
    BY <1>1, <1>5 DEF Values
  <2>2. /\ Keys' \in [InUse' -> Int]
        /\ \A n \in InUse' : Keys'[n] = items[tree'.index[n]]
    BY <1>2, <1>11, TypedNext DEF Values
  <2>3. \A n \in InUse : Keys[n] = items[tree.index[n]]
    BY <1>1 DEF Values
  <2>4. Keys'[x] = NewPath
    BY <1>5, <1>8, <1>12, <2>2
  <2>5. \A n \in InUse : Keys'[n] = Keys[n]
    <3> SUFFICES ASSUME NEW n \in InUse PROVE Keys'[n] = Keys[n]
      OBVIOUS
    <3>1. n \in InUse' /\ n \in Node \ {x}
      BY <1>12, <2>1
    <3>2. Keys'[n] = items[tree'.index[n]] /\ Keys[n] = items[tree.index[n]]
      BY <2>2, <2>3, <3>1
    <3>3. tree'.index[n] = tree.index[n]
      BY <1>8, <3>1
    <3> QED BY <3>2, <3>3
  <2> QED BY <1>12, <2>1, <2>2, <2>4, <2>5
<1>14. \A n \in InUse : Keys[n] # NewPath
  <2>1. Below(u, Here) = {}
    BY <1>2 DEF Below
  <2> QED BY <1>1, <1>2, <2>1 DEF Descent
<1>15. SearchTree(m, InUse \cup {x}, v, Keys') /\ Attached(l, u, m, v, stack, x)
  <2>1. InUse \in SUBSET Node /\ Keys \in [InUse -> Int]
    BY <1>1 DEF Values
  <2>2. \A i \in 2 .. Len(stack) : Before(stack[i][2], Keys'[x], Keys[stack[i][1]])
    BY <1>1, <1>2, <1>13 DEF Descent
  <2>3. l[stack[Len(stack)]] = Null /\ m = [l EXCEPT ![stack[Len(stack)]] = x]
    BY <1>5, <1>6
  <2>4. Attaches(l, InUse, u, Keys, stack, x, Keys', m, v)
    BY <1>1, <1>4, <1>5, <1>13, <1>9, <2>2, <2>3 DEF Attaches
  <2> QED BY <1>5, <1>7, <1>8, <1>13, <1>9, <2>1, <2>4, AttachTree
<1>16. /\ \A i \in 1 .. Len(stack) : Below(v, m[stack[i]]) = Below(u, l[stack[i]]) \cup {x}
       /\ \A q \in Place \ {p} : m[q] = l[q] /\ l[q] # x
       /\ \A s \in Side : m[<<x, s>>] = Null
  BY <1>5, <1>15 DEF Attached
<1>17. Positions'
  <2>1. \A y, z \in InUse \cup {x} : Keys'[y] = Keys'[z] => y = z
    BY <1>1, <1>13, <1>14 DEF Positions
  <2>2. \A y \in InUse \cup {x} : y <= tree'.index[y]
    <3>1. x <= tree'.index[x]
      BY <1>5, <1>8 DEF Node
    <3>2. \A y \in InUse : tree'.index[y] = tree.index[y] /\ y <= tree.index[y]
      BY <1>1, <1>8, <1>13 DEF Positions
    <3> QED BY <3>1, <3>2
  <2>3. ASSUME NEW i \in 1 .. Len(items)
        PROVE  \E y \in InUse \cup {x} : Keys'[y] = items[i] /\ i <= tree'.index[y]
    <3>1. CASE i = x
      BY <1>5, <1>8, <1>13, <3>1
    <3>2. CASE i # x
      <4>1. PICK y \in InUse : Keys[y] = items[i] /\ i <= tree.index[y]
        BY <1>1, <3>2 DEF Positions, x
      <4> QED BY <1>8, <1>13, <4>1
    <3> QED BY <3>1, <3>2
  <2> QED BY <1>2, <1>12, <2>1, <2>2, <2>3 DEF Positions
<1>18. /\ Len(f) = Len(stack) - 1 /\ Len(f) \in Nat /\ Len(stack) \in Nat
       /\ \A i \in 1 .. Len(f) : f[i] = stack[i] /\ i \in 1 .. Len(stack)
  BY <1>5 DEF FrontOf
<1>19. \A i \in 1 .. Len(f) : f[i] \in Place \ {p}
  <2> SUFFICES ASSUME NEW i \in 1 .. Len(f) PROVE f[i] \in Place \ {p}
    OBVIOUS
  <2>1. i + 1 \in 2 .. Len(stack) /\ (i + 1) - 1 = i
    BY <1>18
  <2>2. stack[i + 1][1] = l[f[i]] /\ stack[i + 1] \in Node \X Side
    BY <1>5, <1>18, <2>1 DEF Chain
  <2>3. l[f[i]] # Null
    BY <2>2, Places
  <2> QED BY <1>4, <1>5, <2>3
<1>20. stack' # <<>> => Here' = p[1] /\ p \in Node \X Side
  <2> SUFFICES ASSUME f # <<>> PROVE Here' = p[1] /\ p \in Node \X Side
    BY <1>2
  <2>1. Len(f) \in 1 .. Len(f) /\ Last(f) = f[Len(f)]
    BY <1>4, EmptySeq DEF Last
  <2>2. m[Last(f)] = l[Last(f)]
    BY <1>16, <1>19, <2>1
  <2> QED BY <1>2, <1>4, <2>2 DEF Here, m
<1>21. \A q \in Place \ {p} : Height(tree', q) = Height(tree, q)
  <2> SUFFICES ASSUME NEW q \in Place \ {p} PROVE Height(tree', q) = Height(tree, q)
    OBVIOUS
  <2>1. m[q] = l[q] /\ l[q] # x /\ l[q] \in Node \cup {Null}
    BY <1>7, <1>16
  <2>2. l[q] # Null => tree'.height[l[q]] = tree.height[l[q]]
    BY <1>8, <2>1
  <2> QED BY <2>1, <2>2 DEF Height, m, l
<1>22. tree \in Trees /\ tree' \in Trees
  BY <1>1, <1>11, TypedNext DEF Values
<1>23. Heights'
  <2> SUFFICES ASSUME NEW y \in InUse \cup {x}
               PROVE  IF stack' # <<>> /\ y = Here' THEN AlmostSettled(tree', y) ELSE Settled(tree', y)
    BY <1>2, <1>12 DEF Heights
  <2>1. y \in Node
    BY <1>5, <1>13
  <2>2. p[1] # x
    <3>1. p = Root \/ \E i \in 2 .. Len(stack) : p = stack[i]
      <4>1. Len(stack) = 1 \/ Len(stack) \in 2 .. Len(stack)
        BY <1>5, <1>18
      <4> QED BY <1>5, <4>1 DEF Chain
    <3>2. CASE p = Root
      BY <1>5, <3>2 DEF Root
    <3>3. CASE p # Root
      <4>1. f # <<>> /\ Len(f) \in 1 .. Len(f) /\ Last(f) = f[Len(f)]
        BY <1>4, <3>3, EmptySeq DEF Last
      <4>2. p[1] = l[Last(f)] /\ l[Last(f)] # x
        BY <1>4, <1>16, <1>19, <4>1
      <4> QED BY <4>2
    <3> QED BY <3>2, <3>3
  <2>3. CASE y = x
    <3>1. \A s \in Side : Height(tree', <<x, s>>) = 0
      BY <1>16 DEF Height, m
    <3>2. HeightAbove(tree', x) = 1
      BY <3>1 DEF HeightAbove, Side
    <3>3. Settled(tree', x)
      BY <1>8, <3>1, <3>2 DEF Settled, Side
    <3> QED BY <1>20, <2>2, <2>3, <3>3
  <2>4. CASE y # x /\ y # p[1]
    <3>1. \A s \in Side : Height(tree', <<y, s>>) = Height(tree, <<y, s>>)
      <4> SUFFICES ASSUME NEW s \in Side PROVE Height(tree', <<y, s>>) = Height(tree, <<y, s>>)
        OBVIOUS
      <4>1. <<y, s>> \in Place \ {p}
        BY <2>1, <2>4, Places
      <4> QED BY <1>21, <4>1
    <3>2. tree'.height[y] = tree.height[y] /\ Settled(tree, y)
      BY <1>5, <1>8, <2>1, <2>4
    <3>3. Settled(tree', y)
      BY <1>22, <2>1, <3>1, <3>2, SettledKept
    <3> QED BY <1>20, <2>4, <3>3
  <2>5. CASE y # x /\ y = p[1]
    <3>1. p # Root
      BY <2>1, <2>5, Places DEF Root
    <3>2. stack' # <<>> /\ p \in Node \X Side /\ Here' = y
      BY <1>2, <1>4, <1>20, <2>5, <3>1
    <3>3. PICK s \in Side : p = <<y, s>>
      BY <2>5, <3>2
    <3>4. Height(tree', <<y, s>>) = 1 /\ Height(tree, <<y, s>>) = 0
      BY <1>5, <1>8, <3>3 DEF Height, m, l
    <3>5. Height(tree', <<y, Other(s)>>) = Height(tree, <<y, Other(s)>>)
      <4>1. <<y, Other(s)>> \in Place \ {p}
        BY <2>1, <3>3, Places, Sides
      <4> QED BY <1>21, <4>1
    <3>6. tree'.height[y] = tree.height[y] /\ Settled(tree, y)
      BY <1>5, <1>8, <2>1, <2>5
    <3>7. Height(tree', <<y, s>>) \in {Height(tree, <<y, s>>), Height(tree, <<y, s>>) + 1}
      BY <3>4
    <3>8. AlmostSettled(tree', y)
      BY <1>22, <2>1, <3>5, <3>6, <3>7, GrownSide
    <3> QED BY <3>2, <3>8
  <2> QED BY <2>3, <2>4, <2>5
<1>24. Calls(v)'
  <2>1. \A i \in 1 .. Len(f) : m[f[i]] = l[f[i]] /\ Below(v, m[f[i]]) = Below(u, l[f[i]]) \cup {x}
    BY <1>16, <1>18, <1>19
  <2>2. \A i \in 2 .. Len(f) : i - 1 \in 1 .. Len(f)
    BY <1>18
  <2>3. \A i \in 2 .. Len(f) : f[i] \in Node \X Side /\ f[i][1] = m[f[i - 1]]
    BY <1>4, <2>1, <2>2 DEF FrontCalls
  <2>4. \A i, j \in 1 .. Len(f) : i <= j => Below(v, m[f[j]]) \subseteq Below(v, m[f[i]])
    BY <1>4, <2>1 DEF FrontCalls
  <2>5. f # <<>> => f[1] = Root
    BY <1>4 DEF FrontCalls
  <2>6. f # <<>> => Here' # Null
    BY <1>2, <1>20, Places
  <2> QED BY <1>2, <2>3, <2>4, <2>5, <2>6 DEF Calls, m
<1>25. Descent(v)'
  BY <1>2 DEF Descent
<1>26. SearchTree(tree.link, InUse, v, Keys)'
  BY <1>12, <1>15 DEF m
<1>27. Whole(v)'
  BY <1>10, <1>11, <1>17, <1>23, <1>24, <1>25, <1>26 DEF Whole, Shape
<1>28. Puts
  BY <1>5, <1>8, <1>12, <1>13 DEF Puts, x
<1> QED BY <1>9, <1>27, <1>28

----------------------------------------------------------------------------
(* The walk *)

\* A walk changes nothing in the tree.
LEMMA WalkFrame ==
  ASSUME NEW u \in [Node -> SUBSET Node], Whole(u), UNCHANGED insertVars,
         pc \in {"idle", "walk"}, pc' \in {"idle", "walk"}
  PROVE  /\ InUse' = InUse /\ Keys' = Keys /\ tree' = tree /\ items' = items
         /\ Positions' /\ Heights' /\ Calls(u)' /\ Descent(u)'
         /\ SearchTree(tree.link, InUse, u, Keys)'
         /\ cursor' \in Node \cup {Null} /\ open' \in Seq(Node) /\ visited' \in Seq(1 .. Len(items))
              => TypeOK'
<1>1. TypeOK /\ Positions /\ Heights /\ Calls(u) /\ Descent(u) /\ SearchTree(tree.link, InUse, u, Keys)
  BY DEF Whole, Shape
<1>2. tree' = tree /\ items' = items /\ stack' = stack /\ outcome' = outcome
  BY DEF insertVars
<1>3. InUse' = InUse /\ Keys' = Keys
  BY <1>2 DEF InUse, Keys, PathOf
<1>4. Positions' /\ Heights' /\ Calls(u)' /\ Descent(u)'
  BY <1>1, <1>2, <1>3 DEF Positions, Heights, Calls, Descent
<1>5. cursor' \in Node \cup {Null} /\ open' \in Seq(Node) /\ visited' \in Seq(1 .. Len(items)) => TypeOK'
  BY <1>1, <1>2 DEF TypeOK
<1> QED BY <1>1, <1>2, <1>3, <1>4, <1>5

LEMMA WalkKeeps ==
  ASSUME NEW u \in [Node -> SUBSET Node], Whole(u), Walk
  PROVE  Whole(u)'
<1>1. Values /\ SearchTree(tree.link, InUse, u, Keys) /\ Walking(u)
  BY Typed DEF Whole, Shape
<1>2. pc = "idle" /\ pc' = "walk" /\ cursor' = tree.link[Root] /\ UNCHANGED insertVars
      /\ open' = open /\ visited' = visited
  BY DEF Walk, Goes
<1>3. open' = <<>> /\ visited' = <<>>
  BY <1>1, <1>2 DEF Walking
<1>4. InUse' = InUse /\ Keys' = Keys /\ tree' = tree /\ items' = items
  BY <1>2, WalkFrame
<1>5. cursor' \in InUse \cup {Null} /\ Below(u, cursor') = InUse
  BY <1>1, <1>2, Places DEF SearchTree
<1>6. TypeOK'
  <2>1. cursor' \in Node \cup {Null}
    BY <1>1, <1>5 DEF Values
  <2> QED BY <1>2, <1>3, <2>1, WalkFrame
<1>7. InUse \ Rest(u)' = {}
  BY <1>5 DEF Rest
<1>8. Walking(u)'
  BY <1>2, <1>3, <1>4, <1>5, <1>7 DEF Walking
<1> QED BY <1>2, <1>6, <1>8, WalkFrame DEF Whole, Shape

\* What is on the right of node n, and n.
FromNode(u, n) == {n} \cup Below(u, tree.link[<<n, "right">>])

LEMMA WalkLeftKeeps ==
  ASSUME NEW u \in [Node -> SUBSET Node], Whole(u), WalkLeft
  PROVE  Whole(u)'
<1> DEFINE c == cursor
<1>1. Values /\ TypeOK /\ SearchTree(tree.link, InUse, u, Keys) /\ Walking(u)
  BY Typed DEF Whole, Shape
<1>2. pc = "walk" /\ pc' = "walk" /\ c # Null /\ open' = Append(open, c)
      /\ cursor' = tree.link[<<c, "left">>] /\ UNCHANGED insertVars /\ visited' = visited
  BY DEF WalkLeft
<1>3. InUse' = InUse /\ Keys' = Keys /\ tree' = tree /\ items' = items
  BY <1>2, WalkFrame
<1>4. c \in InUse /\ c \in Node
  BY <1>1, <1>2 DEF Walking, Values
<1>5. open \in Seq(Node) /\ Len(open) \in Nat /\ visited \in Seq(1 .. Len(items))
  BY <1>1 DEF TypeOK
<1>6. /\ open' \in Seq(Node) /\ Len(open') = Len(open) + 1
      /\ \A i \in 1 .. Len(open) : open'[i] = open[i]
      /\ open'[Len(open')] = c
  BY <1>2, <1>4, <1>5, AppendProperties
<1>7. /\ u[c] = {c} \cup Below(u, cursor') \cup Below(u, tree.link[<<c, "right">>])
      /\ cursor' \in InUse \cup {Null}
      /\ \A m \in Below(u, cursor') : Keys[m] < Keys[c]
      /\ Below(u, c) = u[c]
  BY <1>1, <1>2, <1>4, Places DEF SearchTree, Side, Before, Below
<1>8. TypeOK'
  <2>1. cursor' \in Node \cup {Null}
    BY <1>1, <1>7 DEF Values
  <2> QED BY <1>2, <1>5, <1>6, <2>1, WalkFrame
<1>9. \A i \in 1 .. Len(open') : i \in 1 .. Len(open) \/ i = Len(open')
  BY <1>5, <1>6
<1>10. Rest(u)' = Rest(u)
  <2>1. Rest(u) = u[c] \cup UNION {FromNode(u, open[i]) : i \in 1 .. Len(open)}
    BY <1>7 DEF Rest, FromNode
  <2>2. Rest(u)' = Below(u, cursor') \cup UNION {FromNode(u, open'[i]) : i \in 1 .. Len(open')}
    BY <1>3 DEF Rest, FromNode
  <2>3. UNION {FromNode(u, open'[i]) : i \in 1 .. Len(open')} =
          FromNode(u, c) \cup UNION {FromNode(u, open[i]) : i \in 1 .. Len(open)}
    <3>1. \A i \in 1 .. Len(open) : i \in 1 .. Len(open')
      BY <1>5, <1>6
    <3>2. Len(open') \in 1 .. Len(open')
      BY <1>5, <1>6
    <3> QED BY <1>6, <1>9, <3>1, <3>2
  <2>4. u[c] = Below(u, cursor') \cup FromNode(u, c)
    BY <1>7 DEF FromNode
  <2> QED BY <2>1, <2>2, <2>3, <2>4
<1>11. /\ \A i \in 1 .. Len(open) : open[i] \in InUse
       /\ \A i \in 1 .. Len(open) : \A m \in Below(u, c) : Keys[m] < Keys[open[i]]
       /\ \A j \in 1 .. Len(open) : \A i \in 1 .. j - 1 :
            \A m \in FromNode(u, open[j]) : Keys[m] < Keys[open[i]]
  BY <1>1 DEF Walking, FromNode
<1>12. \A i \in 1 .. Len(open') : open'[i] \in InUse
  BY <1>4, <1>6, <1>9, <1>11
<1>13. \A i \in 1 .. Len(open') : \A m \in Below(u, cursor') : Keys[m] < Keys[open'[i]]
  <2> SUFFICES ASSUME NEW i \in 1 .. Len(open'), NEW m \in Below(u, cursor')
               PROVE  Keys[m] < Keys[open'[i]]
    OBVIOUS
  <2>1. m \in Below(u, c)
    BY <1>7
  <2> QED BY <1>6, <1>7, <1>9, <1>11, <2>1
<1>14. \A j \in 1 .. Len(open') : \A i \in 1 .. j - 1 :
         \A m \in FromNode(u, open'[j]) : Keys[m] < Keys[open'[i]]
  <2> SUFFICES ASSUME NEW j \in 1 .. Len(open'), NEW i \in 1 .. j - 1, NEW m \in FromNode(u, open'[j])
               PROVE  Keys[m] < Keys[open'[i]]
    OBVIOUS
  <2>1. i \in 1 .. Len(open) /\ open'[i] = open[i]
    BY <1>5, <1>6
  <2>2. CASE j \in 1 .. Len(open)
    BY <1>6, <1>11, <2>1, <2>2
  <2>3. CASE j = Len(open')
    <3>1. m \in Below(u, c)
      BY <1>6, <1>7, <2>3 DEF FromNode
    <3> QED BY <1>11, <2>1, <3>1
  <2> QED BY <1>9, <2>2, <2>3
<1>15. Walking(u)'
  <2>1. /\ \A m \in InUse \ Rest(u) : \A n \in Rest(u) : Keys[m] < Keys[n]
        /\ {visited[i] : i \in 1 .. Len(visited)} = {tree.index[m] : m \in InUse \ Rest(u)}
        /\ \A i, j \in 1 .. Len(visited) : i < j => items[visited[i]] < items[visited[j]]
    BY <1>1, <1>2 DEF Walking
  <2> QED BY <1>2, <1>3, <1>7, <1>10, <1>12, <1>13, <1>14, <2>1 DEF Walking, FromNode
<1> QED BY <1>2, <1>8, <1>15, WalkFrame DEF Whole, Shape

LEMMA VisitKeeps ==
  ASSUME NEW u \in [Node -> SUBSET Node], Whole(u), Visit
  PROVE  Whole(u)'
<1> DEFINE n == Last(open)
           f == Front(open)
           R == Below(u, tree.link[<<n, "right">>])
           Outer == UNION {FromNode(u, f[i]) : i \in 1 .. Len(f)}
<1>1. Values /\ TypeOK /\ SearchTree(tree.link, InUse, u, Keys) /\ Walking(u)
  BY Typed DEF Whole, Shape
<1>2. pc = "walk" /\ pc' = "walk" /\ cursor = Null /\ open # <<>> /\ open' = f
      /\ cursor' = tree.link[<<n, "right">>] /\ UNCHANGED insertVars
      /\ visited' = Append(visited, tree.index[n])
  BY DEF Visit
<1>3. InUse' = InUse /\ Keys' = Keys /\ tree' = tree /\ items' = items
  BY <1>2, WalkFrame
<1>4. open \in Seq(Node) /\ visited \in Seq(1 .. Len(items)) /\ Len(visited) \in Nat
  BY <1>1 DEF TypeOK
<1>5. FrontOf(open, f, n) /\ f \in Seq(Node)
  BY <1>2, <1>4, FrontLast
<1> HIDE DEF n, f
<1>6. /\ Len(f) = Len(open) - 1 /\ Len(f) \in Nat /\ Len(open) \in Nat
      /\ Len(open) \in 1 .. Len(open) /\ n = open[Len(open)]
      /\ \A i \in 1 .. Len(f) : f[i] = open[i] /\ i \in 1 .. Len(open) /\ i \in 1 .. Len(open) - 1
  BY <1>5 DEF FrontOf
<1>7. /\ \A i \in 1 .. Len(open) : open[i] \in InUse
      /\ \A j \in 1 .. Len(open) : \A i \in 1 .. j - 1 :
           \A m \in FromNode(u, open[j]) : Keys[m] < Keys[open[i]]
      /\ \A m \in InUse \ Rest(u) : \A x \in Rest(u) : Keys[m] < Keys[x]
      /\ {visited[i] : i \in 1 .. Len(visited)} = {tree.index[m] : m \in InUse \ Rest(u)}
      /\ \A i, j \in 1 .. Len(visited) : i < j => items[visited[i]] < items[visited[j]]
  BY <1>1, <1>2 DEF Walking, FromNode
<1>8. n \in InUse /\ n \in Node /\ \A i \in 1 .. Len(f) : f[i] \in InUse
  BY <1>1, <1>6, <1>7 DEF Values
<1>9. /\ R \subseteq InUse /\ cursor' \in InUse \cup {Null}
      /\ \A a \in InUse : \A m \in Below(u, tree.link[<<a, "right">>]) : m \in InUse /\ Keys[a] < Keys[m]
  <2>1. PlacesOf(tree.link, InUse, u)
    BY <1>1, BelowPlace DEF Values
  <2>2. \A a \in InUse : <<a, "right">> \in Place
    BY <1>1, Places DEF Values, Side
  <2> QED BY <1>1, <1>2, <1>8, <2>1, <2>2 DEF SearchTree, PlacesOf, Side, Before
<1>10. \A i \in 1 .. Len(f) : \A m \in FromNode(u, n) : Keys[m] < Keys[f[i]]
  BY <1>6, <1>7
<1>11. /\ Rest(u) = FromNode(u, n) \cup Outer
       /\ Rest(u)' = R \cup Outer
  <2>1. Rest(u) = Below(u, Null) \cup UNION {FromNode(u, open[i]) : i \in 1 .. Len(open)}
    BY <1>2 DEF Rest, FromNode
  <2>2. Rest(u)' = R \cup Outer
    BY <1>2, <1>3 DEF Rest, FromNode
  <2>3. \A i \in 1 .. Len(open) : i \in 1 .. Len(f) \/ i = Len(open)
    BY <1>6
  <2>4. UNION {FromNode(u, open[i]) : i \in 1 .. Len(open)} = FromNode(u, n) \cup Outer
    BY <1>6, <2>3
  <2> QED BY <2>1, <2>2, <2>4 DEF Below
<1>12. \A x \in R \cup Outer : x \in InUse /\ Keys[n] < Keys[x]
  <2>1. \A x \in R : x \in InUse /\ Keys[n] < Keys[x]
    BY <1>8, <1>9
  <2>2. ASSUME NEW i \in 1 .. Len(f), NEW x \in FromNode(u, f[i])
        PROVE  x \in InUse /\ Keys[n] < Keys[x]
    <3>1. Keys[n] < Keys[f[i]] /\ f[i] \in InUse
      BY <1>8, <1>10 DEF FromNode
    <3>2. CASE x = f[i]
      BY <3>1, <3>2
    <3>3. CASE x \in Below(u, tree.link[<<f[i], "right">>])
      <4>1. x \in InUse /\ Keys[f[i]] < Keys[x]
        BY <1>9, <3>1, <3>3
      <4>2. Keys[n] \in Int /\ Keys[f[i]] \in Int /\ Keys[x] \in Int
        BY <1>1, <1>8, <3>1, <4>1 DEF Values
      <4> QED BY <3>1, <4>1, <4>2
    <3> QED BY <3>2, <3>3 DEF FromNode
  <2> QED BY <2>1, <2>2
<1>13. n \notin R \cup Outer
  <2>1. Keys[n] \in Int
    BY <1>1, <1>8 DEF Values
  <2> QED BY <1>12, <2>1
<1>14. /\ InUse \ Rest(u)' = (InUse \ Rest(u)) \cup {n} /\ n \in Rest(u)
  BY <1>8, <1>11, <1>13 DEF FromNode
<1>15. tree.index[n] \in 1 .. Len(items) /\ Keys[n] = items[tree.index[n]]
  BY <1>1, <1>8 DEF Values
<1>16. /\ visited' \in Seq(1 .. Len(items)) /\ Len(visited') = Len(visited) + 1
       /\ \A i \in 1 .. Len(visited) : visited'[i] = visited[i]
       /\ visited'[Len(visited')] = tree.index[n]
  BY <1>2, <1>4, <1>15, AppendProperties
<1>17. \A i \in 1 .. Len(visited') : i \in 1 .. Len(visited) \/ i = Len(visited')
  BY <1>4, <1>16
<1>18. TypeOK'
  <2>1. cursor' \in Node \cup {Null}
    BY <1>1, <1>9 DEF Values
  <2> QED BY <1>2, <1>5, <1>16, <2>1, WalkFrame
<1>19. \A m \in InUse \ Rest(u)' : \A x \in Rest(u)' : Keys[m] < Keys[x]
  BY <1>7, <1>11, <1>12, <1>14 DEF FromNode
<1>20. {visited'[i] : i \in 1 .. Len(visited')} = {tree.index[m] : m \in InUse \ Rest(u)'}
  <2>1. {visited'[i] : i \in 1 .. Len(visited')} = {visited[i] : i \in 1 .. Len(visited)} \cup {tree.index[n]}
    <3>1. \A i \in 1 .. Len(visited) : i \in 1 .. Len(visited')
      BY <1>4, <1>16
    <3>2. Len(visited') \in 1 .. Len(visited')
      BY <1>4, <1>16
    <3> QED BY <1>16, <1>17, <3>1, <3>2
  <2>2. {tree.index[m] : m \in InUse \ Rest(u)'} =
          {tree.index[m] : m \in InUse \ Rest(u)} \cup {tree.index[n]}
    BY <1>14
  <2> QED BY <1>7, <2>1, <2>2
<1>21. \A i \in 1 .. Len(visited) : items[visited[i]] < Keys[n]
  <2> SUFFICES ASSUME NEW i \in 1 .. Len(visited) PROVE items[visited[i]] < Keys[n]
    OBVIOUS
  <2>1. PICK m \in InUse \ Rest(u) : visited[i] = tree.index[m]
    BY <1>7
  <2>2. items[visited[i]] = Keys[m]
    BY <1>1, <2>1 DEF Values
  <2> QED BY <1>7, <1>14, <2>2
<1>22. \A i, j \in 1 .. Len(visited') : i < j => items[visited'[i]] < items[visited'[j]]
  <2> SUFFICES ASSUME NEW i \in 1 .. Len(visited'), NEW j \in 1 .. Len(visited'), i < j
               PROVE  items[visited'[i]] < items[visited'[j]]
    OBVIOUS
  <2>1. i \in 1 .. Len(visited) /\ visited'[i] = visited[i]
    BY <1>4, <1>16
  <2>2. CASE j \in 1 .. Len(visited)
    BY <1>7, <1>16, <2>1, <2>2
  <2>3. CASE j = Len(visited')
    BY <1>15, <1>16, <1>21, <2>1, <2>3
  <2> QED BY <1>17, <2>2, <2>3
<1>23. /\ \A i \in 1 .. Len(f) : \A m \in R : Keys[m] < Keys[f[i]]
       /\ \A j \in 1 .. Len(f) : \A i \in 1 .. j - 1 :
            \A m \in FromNode(u, f[j]) : Keys[m] < Keys[f[i]]
  <2>1. \A i \in 1 .. Len(f) : \A m \in R : Keys[m] < Keys[f[i]]
    BY <1>10 DEF FromNode
  <2>2. \A j \in 1 .. Len(f) : \A i \in 1 .. j - 1 : i \in 1 .. Len(f)
    BY <1>6
  <2> QED BY <1>6, <1>7, <2>1, <2>2
<1>24. Walking(u)'
  BY <1>2, <1>3, <1>8, <1>9, <1>19, <1>20, <1>22, <1>23 DEF Walking, FromNode
<1> QED BY <1>2, <1>18, <1>24, WalkFrame DEF Whole, Shape

LEMMA WalkEndsKeeps ==
  ASSUME NEW u \in [Node -> SUBSET Node], Whole(u), WalkEnds
  PROVE  Whole(u)'
<1>1. pc = "walk" /\ pc' = "idle" /\ cursor' = Null /\ open' = <<>> /\ visited' = <<>>
      /\ UNCHANGED insertVars
  BY DEF WalkEnds, Goes
<1>2. TypeOK'
  BY <1>1, WalkFrame
<1>3. Walking(u)'
  BY <1>1 DEF Walking
<1> QED BY <1>1, <1>2, <1>3, WalkFrame DEF Whole, Shape

----------------------------------------------------------------------------
(* The theorems *)

TreeInv == \E u \in [Node -> SUBSET Node] : Whole(u)

LEMMA InitWhole == Init => TreeInv
<1> SUFFICES ASSUME Init PROVE TreeInv
  OBVIOUS
<1>1. PICK u \in [Node -> SUBSET Node] : u = [n \in Node |-> {}]
  <2>1. [n \in Node |-> {}] \in [Node -> SUBSET Node]
    OBVIOUS
  <2> QED BY <2>1
<1>2. InUse = {} /\ \A p \in Place : tree.link[p] = Null
  BY DEF Init, InUse
<1>3. TypeOK
  <2>1. tree \in [link : [Place -> Node \cup {Null}], height : [Node -> Nat],
                  index : [Node -> 0 .. Len(items)]]
    BY DEF Init, Null
  <2> QED BY <2>1, TreeAssumption DEF Init, TypeOK
<1>4. Positions /\ Heights
  BY <1>2 DEF Init, Positions, Heights
<1>5. SearchTree(tree.link, InUse, u, Keys)
  BY <1>2, Places DEF SearchTree, Below
<1>6. Calls(u) /\ Descent(u) /\ Walking(u)
  BY <1>2 DEF Init, Calls, Descent, Walking
<1> QED BY <1>3, <1>4, <1>5, <1>6 DEF TreeInv, Whole, Shape

LEMMA UnchangedWhole ==
  ASSUME NEW u \in [Node -> SUBSET Node], Whole(u), UNCHANGED vars
  PROVE  Whole(u)'
<1>1. /\ items' = items /\ tree' = tree /\ stack' = stack /\ outcome' = outcome /\ pc' = pc
      /\ cursor' = cursor /\ open' = open /\ visited' = visited
  BY DEF vars, insertVars, walkVars
<1>2. TypeOK /\ Positions /\ Heights /\ SearchTree(tree.link, InUse, u, Keys)
      /\ Calls(u) /\ Descent(u) /\ Walking(u)
  BY DEF Whole, Shape
<1>3. InUse' = InUse /\ Keys' = Keys /\ Here' = Here /\ NewPath' = NewPath
      /\ PositionOfNewest' = PositionOfNewest /\ Rest(u)' = Rest(u)
  BY <1>1 DEF InUse, Keys, PathOf, Here, NewPath, PositionOfNewest, Rest
<1>4. TypeOK' /\ Positions' /\ Heights'
  BY <1>1, <1>2, <1>3 DEF TypeOK, Positions, Heights
<1>5. Calls(u)' /\ Descent(u)'
  BY <1>1, <1>2, <1>3 DEF Calls, Descent
<1>6. Walking(u)'
  <2>1. {visited'[i] : i \in 1 .. Len(visited')} = {visited[i] : i \in 1 .. Len(visited)}
        /\ {tree'.index[m] : m \in InUse' \ Rest(u)'} = {tree.index[m] : m \in InUse \ Rest(u)}
    BY <1>1, <1>3
  <2>2. /\ \A i \in 1 .. Len(open) : \A m \in Below(u, cursor) : Keys[m] < Keys[open[i]]
        /\ \A j \in 1 .. Len(open) : \A i \in 1 .. j - 1 :
             \A m \in FromNode(u, open[j]) : Keys[m] < Keys[open[i]]
    BY <1>2 DEF Walking, FromNode
  <2>4. /\ \A i \in 1 .. Len(open') : \A m \in Below(u, cursor') : Keys'[m] < Keys'[open'[i]]
        /\ \A j \in 1 .. Len(open') : \A i \in 1 .. j - 1 :
             \A m \in {open'[j]} \cup Below(u, tree'.link[<<open'[j], "right">>]) :
               Keys'[m] < Keys'[open'[i]]
    BY <1>1, <1>3, <2>2 DEF FromNode
  <2>5. /\ pc' # "walk" => cursor' = Null /\ open' = <<>> /\ visited' = <<>>
        /\ cursor' \in InUse' \cup {Null}
        /\ \A i \in 1 .. Len(open') : open'[i] \in InUse'
        /\ \A i, j \in 1 .. Len(visited') : i < j => items'[visited'[i]] < items'[visited'[j]]
    BY <1>1, <1>2, <1>3 DEF Walking
  <2>6. pc' = "walk" =>
          /\ \A m \in InUse' \ Rest(u)' : \A n \in Rest(u)' : Keys'[m] < Keys'[n]
          /\ {visited'[i] : i \in 1 .. Len(visited')} = {tree'.index[m] : m \in InUse' \ Rest(u)'}
    <3>1. pc = "walk" =>
            /\ \A m \in InUse \ Rest(u) : \A n \in Rest(u) : Keys[m] < Keys[n]
            /\ {visited[i] : i \in 1 .. Len(visited)} = {tree.index[m] : m \in InUse \ Rest(u)}
      BY <1>2 DEF Walking
    <3> QED BY <1>1, <1>3, <2>1, <3>1
  <2> QED BY <2>4, <2>5, <2>6 DEF Walking
<1> QED BY <1>1, <1>2, <1>3, <1>4, <1>5, <1>6 DEF Whole, Shape

LEMMA StepWhole == TreeInv /\ [Next]_vars => TreeInv'
<1> SUFFICES ASSUME TreeInv, [Next]_vars PROVE TreeInv'
  OBVIOUS
<1>1. PICK u \in [Node -> SUBSET Node] : Whole(u)
  BY DEF TreeInv
<1>2. CASE \E path \in Path : Insert(path)
  BY <1>1, <1>2, InsertKeeps DEF TreeInv
<1>3. CASE GoDown
  BY <1>1, <1>3, GoDownKeeps DEF TreeInv
<1>4. CASE Replace
  BY <1>1, <1>4, ReplaceKeeps DEF TreeInv
<1>5. CASE Attach
  BY <1>1, <1>5, AttachKeeps DEF TreeInv
<1>6. CASE NoNode
  BY <1>1, <1>6, NoNodeKeeps DEF TreeInv
<1>7. CASE Climb
  BY <1>1, <1>7, ClimbKeeps DEF TreeInv
<1>8. CASE Inserted
  BY <1>1, <1>8, InsertedKeeps DEF TreeInv
<1>9. CASE Walk
  BY <1>1, <1>9, WalkKeeps DEF TreeInv
<1>10. CASE WalkLeft
  BY <1>1, <1>10, WalkLeftKeeps DEF TreeInv
<1>11. CASE Visit
  BY <1>1, <1>11, VisitKeeps DEF TreeInv
<1>12. CASE WalkEnds
  BY <1>1, <1>12, WalkEndsKeeps DEF TreeInv
<1>13. CASE UNCHANGED vars
  BY <1>1, <1>13, UnchangedWhole DEF TreeInv
<1> QED BY <1>2, <1>3, <1>4, <1>5, <1>6, <1>7, <1>8, <1>9, <1>10, <1>11, <1>12, <1>13 DEF Next

LEMMA TreeInvariant == Spec => []TreeInv
<1> QED BY InitWhole, StepWhole, PTL DEF Spec

\* The links, fields and positions of the tree, the calls in progress and the
\* walk have the types declared for them, whatever is inserted or walked: the
\* position of a record is never past the end of the items array.
THEOREM TreeTypeCorrect == Spec => []TypeOK
<1>1. TreeInv => TypeOK
  BY DEF TreeInv, Whole
<1> QED BY <1>1, TreeInvariant, PTL

\* Whatever the order of the paths, every node not waiting to be rebalanced has
\* its height, and subtrees whose heights differ by at most one.
THEOREM TreeBalancedEver == Spec => []TreeBalanced
<1>1. TreeInv => TreeBalanced
  BY DEF TreeInv, Whole, Heights, TreeBalanced, Unsettled
<1> QED BY <1>1, TreeInvariant, PTL

\* When all is visited, the last record of each path has been.
LEMMA AllVisited ==
  ASSUME NEW u \in [Node -> SUBSET Node], Whole(u), WalkDone
  PROVE  {visited[i] : i \in 1 .. Len(visited)} = Latest
<1>1. Values /\ Positions /\ Walking(u)
  BY Typed DEF Whole, Shape
<1>2. pc = "walk" /\ cursor = Null /\ open = <<>>
  BY DEF WalkDone
<1>3. Rest(u) = {}
  BY <1>2 DEF Rest, Below
<1>4. {visited[i] : i \in 1 .. Len(visited)} = {tree.index[m] : m \in InUse}
  BY <1>1, <1>2, <1>3 DEF Walking
<1>5. /\ \A m, n \in InUse : Keys[m] = Keys[n] => m = n
      /\ \A i \in 1 .. Len(items) : \E n \in InUse : Keys[n] = items[i] /\ i <= tree.index[n]
      /\ \A n \in InUse : tree.index[n] \in 1 .. Len(items) /\ Keys[n] = items[tree.index[n]]
  BY <1>1, <1>2 DEF Positions, Values
<1>6. ASSUME NEW m \in InUse
      PROVE  tree.index[m] \in Latest
  <2>1. ASSUME NEW j \in 1 .. Len(items), items[j] = items[tree.index[m]]
        PROVE  j <= tree.index[m]
    <3>1. PICK n \in InUse : Keys[n] = items[j] /\ j <= tree.index[n]
      BY <1>5
    <3>2. n = m
      BY <1>5, <2>1, <3>1
    <3> QED BY <3>1, <3>2
  <2> QED BY <1>5, <2>1 DEF Latest
<1>7. ASSUME NEW i \in Latest
      PROVE  \E m \in InUse : i = tree.index[m]
  <2>1. /\ i \in 1 .. Len(items)
        /\ \A j \in 1 .. Len(items) : items[j] = items[i] => j <= i
    BY DEF Latest
  <2>2. PICK n \in InUse : Keys[n] = items[i] /\ i <= tree.index[n]
    BY <1>5, <2>1
  <2>3. tree.index[n] <= i
    BY <1>5, <2>1, <2>2
  <2>4. i = tree.index[n]
    BY <1>5, <2>1, <2>2, <2>3
  <2> QED BY <2>4
<1> QED BY <1>4, <1>6, <1>7

\* The walk that writes the report meets the paths in strictly increasing
\* order and leaves none out, whatever order they were inserted in.
THEOREM ReportSortedEver == Spec => []ReportSorted
<1>1. ASSUME NEW u \in [Node -> SUBSET Node], Whole(u)
      PROVE  ReportSorted
  <2>1. \A i, j \in 1 .. Len(visited) : i < j => items[visited[i]] < items[visited[j]]
    BY <1>1 DEF Whole, Shape, Walking
  <2>2. WalkDone => {visited[i] : i \in 1 .. Len(visited)} = Latest
    BY <1>1, AllVisited
  <2> QED BY <2>1, <2>2 DEF ReportSorted
<1>2. TreeInv => ReportSorted
  BY <1>1 DEF TreeInv
<1> QED BY <1>2, TreeInvariant, PTL

\* Numbers have a smallest one.
LEMMA Smallest ==
  ASSUME NEW T \in SUBSET Nat, T # {}
  PROVE  \E x \in T : \A y \in T : x <= y
<1>1. PICK x \in T : \A y \in T : <<y, x>> \notin OpToRel(<, Nat)
  BY WFMin, NatLessThanWellFounded, Zenon
<1>2. \A y \in T : ~(y < x)
  BY <1>1, Zenon DEF OpToRel
<1>3. x \in Nat /\ \A y \in T : y \in Nat
  OBVIOUS
<1> QED BY <1>2, <1>3

\* What Reachable is defined with.
Follows(f) ==
  f = [n \in Node \cup {Null} |->
         IF n = Null THEN {}
         ELSE {n} \cup f[tree.link[<<n, "left">>]] \cup f[tree.link[<<n, "right">>]]]

LEMMA BelowFollows ==
  ASSUME NEW u \in [Node -> SUBSET Node], SearchTree(tree.link, InUse, u, Keys),
         tree.link \in [Place -> Node \cup {Null}]
  PROVE  \E f : Follows(f)
<1> DEFINE l == tree.link
           f == [n \in Node \cup {Null} |->
                   IF n = Null THEN {} ELSE IF n \in InUse THEN u[n] ELSE {n}]
<1>1. Null \notin Node /\ InUse \subseteq Node
  BY DEF Node, Null, InUse
<1>2. \A n \in Node : <<n, "left">> \in Place /\ <<n, "right">> \in Place
  BY DEF Place, Side
<1>3. \A n \in InUse \cup {Null} : f[n] = Below(u, n)
  BY <1>1 DEF Below
<1>4. ASSUME NEW n \in Node
      PROVE  f[n] = {n} \cup f[l[<<n, "left">>]] \cup f[l[<<n, "right">>]]
  <2>1. l[<<n, "left">>] \in InUse \cup {Null} /\ l[<<n, "right">>] \in InUse \cup {Null}
    BY <1>2 DEF SearchTree
  <2>2. CASE n \in InUse
    <3>1. u[n] = {n} \cup Below(u, l[<<n, "left">>]) \cup Below(u, l[<<n, "right">>])
      BY <2>2 DEF SearchTree
    <3> HIDE DEF f, l
    <3> QED BY <1>1, <1>3, <2>1, <2>2, <3>1 DEF Below
  <2>3. CASE n \notin InUse
    <3>1. l[<<n, "left">>] = Null /\ l[<<n, "right">>] = Null
      BY <2>3 DEF SearchTree, Side
    <3>2. f[Null] = {} /\ f[n] = {n}
      BY <1>1, <2>3
    <3> QED BY <3>1, <3>2
  <2> QED BY <2>2, <2>3
<1>5. f = [n \in Node \cup {Null} |-> f[n]] /\ f[Null] = {}
  OBVIOUS
<1> HIDE DEF f, l
<1>6. \A n \in Node \cup {Null} :
        f[n] = IF n = Null THEN {}
               ELSE {n} \cup f[l[<<n, "left">>]] \cup f[l[<<n, "right">>]]
  BY <1>1, <1>4, <1>5
<1>7. f = [n \in Node \cup {Null} |->
             IF n = Null THEN {} ELSE {n} \cup f[l[<<n, "left">>]] \cup f[l[<<n, "right">>]]]
  BY <1>5, <1>6
<1> QED BY <1>7 DEF Follows, l

\* Every node in use is reached.
LEMMA AllReachable ==
  ASSUME NEW u \in [Node -> SUBSET Node], SearchTree(tree.link, InUse, u, Keys), Values,
         tree.link \in [Place -> Node \cup {Null}]
  PROVE  Reachable = InUse
<1> DEFINE l == tree.link
           f == CHOOSE g : Follows(g)
           T == {Cardinality(u[n]) : n \in {m \in InUse : f[m] # u[m]}}
<1>1. Null \notin Node /\ InUse \subseteq Node /\ Root \in Place
  BY DEF Node, Null, InUse, Place
<1>2. Follows(f)
  BY BelowFollows
<1>3. Reachable = f[l[Root]]
  BY DEF Reachable, Follows
<1> HIDE DEF f
<1>4. f[Null] = {} /\ \A n \in Node : f[n] = {n} \cup f[l[<<n, "left">>]] \cup f[l[<<n, "right">>]]
  BY <1>1, <1>2 DEF Follows
<1>5. \A n \in Node : IsFiniteSet(u[n]) /\ Cardinality(u[n]) \in Nat
  <2>1. IsFiniteSet(Node)
    BY TreeAssumption, FS_Interval DEF Node
  <2>2. \A n \in Node : u[n] \in SUBSET Node
    OBVIOUS
  <2> QED BY <2>1, <2>2, FS_Subset, FS_CardinalityType
<1>6. ASSUME NEW n \in InUse, NEW s \in Side, l[<<n, s>>] # Null
      PROVE  l[<<n, s>>] \in InUse /\ Cardinality(u[l[<<n, s>>]]) < Cardinality(u[n])
  <2> DEFINE c == l[<<n, s>>]
  <2>1. c \in InUse
    <3>1. <<n, s>> \in Place
      BY <1>1 DEF Place
    <3> QED BY <1>6, <3>1 DEF SearchTree
  <2>2. Below(u, c) = u[c] /\ u[c] \subseteq u[n]
    <3>1. u[n] = {n} \cup Below(u, l[<<n, "left">>]) \cup Below(u, l[<<n, "right">>])
      BY DEF SearchTree
    <3>2. Below(u, c) \subseteq u[n]
      BY <3>1 DEF Side
    <3> QED BY <1>6, <3>2 DEF Below
  <2>3. n \in u[n] /\ n \notin u[c]
    <3>1. n \in u[n]
      BY DEF SearchTree
    <3>2. \A m \in Below(u, c) : Before(s, Keys[m], Keys[n])
      BY DEF SearchTree
    <3>3. Keys[n] \in Int
      BY TreeAssumption DEF Values
    <3> QED BY <2>2, <3>1, <3>2, <3>3 DEF Before
  <2>4. Cardinality(u[c]) <= Cardinality(u[n]) /\ Cardinality(u[c]) # Cardinality(u[n])
    <3> HIDE DEF c
    <3>1. u[c] \in SUBSET u[n] /\ u[c] # u[n] /\ IsFiniteSet(u[n])
      BY <1>1, <1>5, <2>2, <2>3
    <3> QED BY <3>1, FS_Subset
  <2> HIDE DEF c
  <2>5. Cardinality(u[c]) \in Nat /\ Cardinality(u[n]) \in Nat
    BY <1>1, <1>5, <2>1
  <2> QED BY <2>1, <2>4, <2>5 DEF c
<1>7. \A n \in InUse : f[n] = u[n]
  <2> SUFFICES ASSUME NEW n \in InUse, f[n] # u[n] PROVE FALSE
    OBVIOUS
  <2>1. T \in SUBSET Nat /\ T # {}
    BY <1>1, <1>5
  <2>2. PICK x \in T : \A y \in T : x <= y
    <3> HIDE DEF T
    <3> QED BY <2>1, Smallest
  <2>3. PICK m \in InUse : f[m] # u[m] /\ x = Cardinality(u[m])
    BY <2>2
  <2>4. \A s \in Side : f[l[<<m, s>>]] = Below(u, l[<<m, s>>])
    <3> SUFFICES ASSUME NEW s \in Side PROVE f[l[<<m, s>>]] = Below(u, l[<<m, s>>])
      OBVIOUS
    <3> DEFINE c == l[<<m, s>>]
    <3>1. CASE c = Null
      BY <1>4, <3>1 DEF Below
    <3>2. CASE c # Null
      <4>1. c \in InUse /\ Cardinality(u[c]) < Cardinality(u[m])
        BY <1>6, <3>2
      <4> HIDE DEF c
      <4>2. Cardinality(u[c]) \notin T
        BY <1>1, <1>5, <2>2, <2>3, <4>1
      <4>3. f[c] = u[c]
        BY <4>1, <4>2
      <4> QED BY <3>2, <4>3 DEF Below, c
    <3> QED BY <3>1, <3>2
  <2>5. u[m] = {m} \cup Below(u, l[<<m, "left">>]) \cup Below(u, l[<<m, "right">>])
    BY DEF SearchTree
  <2>6. f[m] = {m} \cup f[l[<<m, "left">>]] \cup f[l[<<m, "right">>]]
    BY <1>1, <1>4
  <2>7. "left" \in Side /\ "right" \in Side
    BY DEF Side
  <2> QED BY <2>3, <2>4, <2>5, <2>6, <2>7
<1>8. f[l[Root]] = InUse
  <2>1. Below(u, l[Root]) = InUse /\ l[Root] \in InUse \cup {Null}
    BY <1>1 DEF SearchTree
  <2> QED BY <1>4, <1>7, <2>1 DEF Below
<1> QED BY <1>3, <1>8

\* The map is read off the nodes.
ContentsFacts ==
  /\ Contents = [q \in {Keys[n] : n \in InUse} |-> Contents[q]]
  /\ \A n \in InUse : Contents[Keys[n]] = tree.index[n]

LEMMA Mapped == TreeInv => ContentsFacts
<1> SUFFICES ASSUME NEW u \in [Node -> SUBSET Node], Whole(u) PROVE ContentsFacts
  BY DEF TreeInv
<1> DEFINE indexes == {tree.index[n] : n \in InUse}
<1>1. Values /\ \A m, n \in InUse : Keys[m] = Keys[n] => m = n
  BY Typed DEF Whole, Positions
<1>2. \A n \in InUse : Keys[n] = items[tree.index[n]]
  BY <1>1 DEF Values
<1>3. {items[i] : i \in indexes} = {Keys[n] : n \in InUse}
  BY <1>2
<1>4. Contents = [q \in {items[i] : i \in indexes} |-> CHOOSE i \in indexes : items[i] = q]
  <2>1. Reachable = InUse
    BY <1>1, AllReachable DEF Whole, Shape, TypeOK
  <2> QED BY <2>1 DEF Contents
<1>5. ASSUME NEW n \in InUse
      PROVE  Contents[Keys[n]] = tree.index[n]
  <2> DEFINE c == CHOOSE i \in indexes : items[i] = Keys[n]
  <2>1. Contents[Keys[n]] = c
    BY <1>3, <1>4
  <2>2. tree.index[n] \in indexes /\ items[tree.index[n]] = Keys[n]
    BY <1>2
  <2>3. c \in indexes /\ items[c] = Keys[n]
    BY <2>2
  <2> HIDE DEF c
  <2>4. PICK m \in InUse : c = tree.index[m]
    BY <2>3
  <2>5. m = n
    BY <1>1, <1>2, <2>3, <2>4
  <2> QED BY <2>1, <2>4, <2>5
<1> DEFINE C == Contents
           D == {Keys[n] : n \in InUse}
           E(q) == CHOOSE i \in indexes : items[i] = q
<1>6. C = [q \in D |-> E(q)]
  BY <1>3, <1>4
<1>7. C = [q \in D |-> C[q]]
  <2> HIDE DEF C, D, E
  <2> QED BY <1>6
<1> QED BY <1>5, <1>7 DEF ContentsFacts

LEMMA MapKept ==
  ASSUME ContentsFacts, ContentsFacts', SameContents
  PROVE  Contents' = Contents
<1> DEFINE D == {Keys[n] : n \in InUse}
<1>1. {Keys'[n] : n \in InUse'} = D
  BY DEF SameContents
<1>2. Contents = [q \in D |-> Contents[q]] /\ Contents' = [q \in D |-> Contents'[q]]
  BY <1>1 DEF ContentsFacts
<1>3. \A n \in InUse : Contents'[Keys[n]] = Contents[Keys[n]]
  BY DEF ContentsFacts, SameContents
<1>4. \A q \in D : Contents'[q] = Contents[q]
  BY <1>3
<1> HIDE DEF D
<1> QED BY <1>2, <1>4

LEMMA MapPut ==
  ASSUME ContentsFacts, ContentsFacts', Puts,
         \A m, n \in InUse' : Keys'[m] = Keys'[n] => m = n
  PROVE  Contents' = Map!With(Contents, NewPath, PositionOfNewest)
<1>1. PICK n \in InUse' :
        /\ InUse' = InUse \cup {n}
        /\ Keys'[n] = NewPath /\ tree'.index[n] = PositionOfNewest
        /\ n \in InUse => Keys[n] = NewPath
        /\ \A m \in InUse' \ {n} : Keys'[m] = Keys[m] /\ tree'.index[m] = tree.index[m]
  BY DEF Puts
<1> DEFINE D == {Keys[m] : m \in InUse}
           E == {Keys'[m] : m \in InUse'}
<1>2. E = D \cup {NewPath}
  BY <1>1
<1>3. Contents = [q \in D |-> Contents[q]] /\ Contents' = [q \in E |-> Contents'[q]]
  BY DEF ContentsFacts
<1>4. Contents'[NewPath] = PositionOfNewest
  BY <1>1 DEF ContentsFacts
<1>5. ASSUME NEW q \in D, q # NewPath
      PROVE  Contents'[q] = Contents[q]
  <2>1. PICK m \in InUse : q = Keys[m]
    OBVIOUS
  <2>2. m \in InUse' \ {n}
    BY <1>1, <1>5, <2>1
  <2>3. Contents'[Keys'[m]] = tree'.index[m] /\ Contents[Keys[m]] = tree.index[m]
    BY <2>2 DEF ContentsFacts
  <2> QED BY <1>1, <2>1, <2>2, <2>3
<1> HIDE DEF D, E
<1>6. DOMAIN Contents = D
  BY <1>3
<1>7. Map!With(Contents, NewPath, PositionOfNewest) =
        [q \in E |-> IF q = NewPath THEN PositionOfNewest ELSE Contents[q]]
  BY <1>2, <1>6 DEF Map!With
<1>8. \A q \in E : Contents'[q] = IF q = NewPath THEN PositionOfNewest ELSE Contents[q]
  BY <1>2, <1>4, <1>5
<1> QED BY <1>3, <1>7, <1>8

\* Every step of the tree is one of the map, or none.
LEMMA MapStep ==
  ASSUME TreeInv, TreeInv', ContentsFacts, ContentsFacts', [Next]_vars
  PROVE  [Map!Next]_(Map!vars)
<1>1. PICK u \in [Node -> SUBSET Node] : Whole(u)
  BY DEF TreeInv
<1>2. Values
  BY <1>1, Typed DEF Whole
<1>3. ASSUME UNCHANGED <<items, tree>>
      PROVE  Contents' = Contents /\ NewPath' = NewPath /\ PositionOfNewest' = PositionOfNewest
  BY <1>3 DEF Contents, Reachable, NewPath, PositionOfNewest
<1>4. ASSUME pc # "down", pc' # "down"
      PROVE  Pending = NoPending /\ Pending' = NoPending
  BY <1>4 DEF Pending
<1>5. CASE \E path \in Path : Insert(path)
  <2>1. PICK path \in Path : Insert(path)
    BY <1>5
  <2>2. /\ pc = "idle" /\ pc' = "down" /\ items' = Append(items, path) /\ outcome' = outcome
        /\ Len(items) < MaxRecords
    BY <2>1 DEF Insert, Goes
  <2>3. Contents' = Contents
    BY <1>1, <2>1, InsertKeeps, MapKept
  <2>4. Len(items') \in 1 .. MaxRecords /\ items'[Len(items')] = path
    BY <1>2, <2>2, TreeAssumption DEF Values
  <2>5. Pending = NoPending /\ Pending' = [path |-> path, value |-> Len(items')]
    BY <2>2, <2>4 DEF Pending, NewPath, PositionOfNewest
  <2>6. Map!Call(path, Len(items'))
    BY <2>2, <2>3, <2>5 DEF Map!Call
  <2> QED BY <2>4, <2>6 DEF Map!Next
<1>6. CASE GoDown
  <2>1. UNCHANGED <<items, tree, outcome>> /\ pc' = pc
    BY <1>6 DEF GoDown
  <2>2. Pending' = Pending
    BY <1>3, <2>1 DEF Pending
  <2> QED BY <1>3, <2>1, <2>2 DEF Map!vars
<1>7. CASE Replace \/ Attach
  <2>1. Puts
    BY <1>1, <1>7, ReplaceKeeps, AttachKeeps
  <2>2. \A m, n \in InUse' : Keys'[m] = Keys'[n] => m = n
    BY DEF TreeInv, Whole, Positions
  <2>3. Contents' = Map!With(Contents, NewPath, PositionOfNewest)
    BY <2>1, <2>2, MapPut
  <2>4. pc = "down" /\ pc' = "up" /\ outcome' = "ok"
    BY <1>7 DEF Replace, Attach, Succeeds, Goes
  <2>5. Pending = [path |-> NewPath, value |-> PositionOfNewest] /\ Pending' = NoPending
    BY <2>4 DEF Pending
  <2>6. PositionOfNewest # Null
    BY <1>1, <2>4, DownFacts DEF Inserting, Null
  <2>7. Pending # NoPending /\ Pending.path = NewPath /\ Pending.value = PositionOfNewest
    BY <2>5, <2>6 DEF NoPending
  <2>8. Map!Return
    BY <2>3, <2>4, <2>5, <2>7 DEF Map!Return
  <2> QED BY <2>8 DEF Map!Next
<1>8. CASE NoNode
  <2>1. pc' = "idle" /\ outcome' = "ENOMEM"
    BY <1>8 DEF NoNode, Goes
  <2>2. Contents' = Contents
    BY <1>1, <1>8, NoNodeKeeps, MapKept
  <2>3. Pending' = NoPending
    BY <2>1 DEF Pending
  <2>4. Map!Refuse
    BY <2>1, <2>2, <2>3 DEF Map!Refuse
  <2> QED BY <2>4 DEF Map!Next
<1>9. CASE Climb
  <2>1. Contents' = Contents
    BY <1>1, <1>9, ClimbKeeps, MapKept
  <2>2. outcome' = outcome /\ pc = "up" /\ pc' = "up"
    BY <1>9 DEF Climb
  <2> QED BY <1>4, <2>1, <2>2 DEF Map!vars
<1>10. CASE Inserted \/ Walk \/ WalkLeft \/ Visit \/ WalkEnds
  <2>1. UNCHANGED insertVars /\ pc # "down" /\ pc' # "down"
    BY <1>10 DEF Inserted, Walk, WalkLeft, Visit, WalkEnds, Goes
  <2>2. UNCHANGED <<items, tree>> /\ outcome' = outcome
    BY <2>1 DEF insertVars
  <2> QED BY <1>3, <1>4, <2>1, <2>2 DEF Map!vars
<1>11. CASE UNCHANGED vars
  <2>1. UNCHANGED <<items, tree>> /\ pc' = pc /\ outcome' = outcome
    BY <1>11 DEF vars, insertVars
  <2>2. Pending' = Pending
    BY <1>3, <2>1 DEF Pending
  <2> QED BY <1>3, <2>1, <2>2 DEF Map!vars
<1> QED BY <1>5, <1>6, <1>7, <1>8, <1>9, <1>10, <1>11 DEF Next

LEMMA MapInit == Init => Map!Init
<1> SUFFICES ASSUME Init PROVE Map!Init
  OBVIOUS
<1>1. InUse = {} /\ pc = "idle" /\ outcome = "none"
  BY DEF Init, InUse
<1>2. Reachable = {}
  <2>1. PICK u \in [Node -> SUBSET Node] : Whole(u)
    BY InitWhole DEF TreeInv
  <2>2. Values /\ SearchTree(tree.link, InUse, u, Keys) /\ tree.link \in [Place -> Node \cup {Null}]
    BY <2>1, Typed DEF Whole, Shape, TypeOK
  <2> QED BY <1>1, <2>2, AllReachable
<1>3. Contents = [p \in {} |-> p]
  <2>1. {items[i] : i \in {tree.index[n] : n \in Reachable}} = {}
    BY <1>2
  <2> QED BY <2>1 DEF Contents
<1>4. Pending = NoPending
  BY <1>1 DEF Pending
<1> QED BY <1>1, <1>3, <1>4 DEF Map!Init

\* Rotations, insertions, failed insertions and walks implement the map from
\* paths to records: an insertion that returns 0 has set its own path's record
\* and no other, and nothing else changes the map.
THEOREM TreeIsMap == Spec => ImplementsPathMap
<1>1. Init => Map!Init
  BY MapInit
<1>2. TreeInv => ContentsFacts
  BY Mapped
<1>3. TreeInv /\ TreeInv' /\ ContentsFacts /\ ContentsFacts' /\ [Next]_vars => [Map!Next]_(Map!vars)
  BY MapStep
<1> QED BY <1>1, <1>2, <1>3, TreeInvariant, PTL DEF Spec, ImplementsPathMap, Map!Spec
=============================================================================
