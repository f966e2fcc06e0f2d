------------------------------ MODULE TreeProofs ------------------------------
(***************************************************************************)
(* The tree of nodes, for any tree, any values and any number of threads   *)
(* and calls.  Some facts of a thread carry the proofs: what is left of    *)
(* its path leads from the node it is at to the one it looks for (Walks);  *)
(* while it changes a map or traverses it holds the mutexes it should      *)
(* (Holds); a look for something to save stays below the node it asks      *)
(* about (Asks); and a traversal has been to all it owes on its way and    *)
(* before it (Finished).  The mutexes a traversal holds are those from its *)
(* base down to where it is: so among those that wait the one that waits   *)
(* deepest waits for nobody who waits (NobodyStuck).                       *)
(***************************************************************************)
EXTENDS Tree, FiniteSetTheorems, WellFoundedInduction, TLAPS

-----------------------------------------------------------------------------
(* Paths *)

Depth(n) == Len(Path[n])

\* The assumption, entry by entry.
LEMMA Paths ==
    ASSUME NEW n \in Node
    PROVE  /\ Depth(n) \in Nat
           /\ \A i \in 1 .. Depth(n) :
                 /\ Path[n][i] \in Node \ {Root}
                 /\ Depth(Path[n][i]) = i
                 /\ \A j \in 1 .. i : Path[Path[n][i]][j] = Path[n][j]
           /\ Depth(n) = 0 <=> n = Root
           /\ n # Root => Path[n][Depth(n)] = n
<1>1. Path[n] \in Seq(Node \ {Root})
      BY TreeAssumption
<1>2. Depth(n) \in Nat /\ \A i \in 1 .. Depth(n) : Path[n][i] \in Node \ {Root}
      BY <1>1 DEF Depth
<1>3. ASSUME NEW i \in 1 .. Depth(n)
      PROVE  /\ Depth(Path[n][i]) = i
             /\ \A j \in 1 .. i : Path[Path[n][i]][j] = Path[n][j]
  <2>1. Path[Path[n][i]] = SubSeq(Path[n], 1, i)
    <3>1. i \in DOMAIN Path[n]
          BY <1>1 DEF Depth
    <3> QED BY <3>1, TreeAssumption
  <2>2. Len(SubSeq(Path[n], 1, i)) = i /\ \A j \in 1 .. i : SubSeq(Path[n], 1, i)[j] = Path[n][j]
        BY <1>1, <1>2 DEF Depth
  <2> QED BY <2>1, <2>2 DEF Depth
<1>4. Depth(n) = 0 <=> n = Root
  <2>1. Path[n] = <<>> <=> n = Root
        BY TreeAssumption
  <2>2. Depth(n) = 0 <=> Path[n] = <<>>
        BY <1>1 DEF Depth
  <2> QED BY <2>1, <2>2
<1>5. n # Root => Path[n][Depth(n)] = n
      BY TreeAssumption DEF Depth, Last
<1> QED BY <1>2, <1>3, <1>4, <1>5

\* A node is below another if its path begins with the other's.
LEMMA BelowBy ==
    ASSUME NEW b \in Node, NEW n \in Node
    PROVE  Below(b, n) <=> Depth(b) <= Depth(n) /\ \A i \in 1 .. Depth(b) : Path[b][i] = Path[n][i]
<1>1. Path[b] \in Seq(Node \ {Root}) /\ Path[n] \in Seq(Node \ {Root})
      BY TreeAssumption
<1>2. Depth(b) \in Nat /\ Depth(n) \in Nat
      BY Paths
<1>3. ASSUME Depth(b) <= Depth(n)
      PROVE  SubSeq(Path[b], 1, Depth(b)) = SubSeq(Path[n], 1, Depth(b))
             <=> \A i \in 1 .. Depth(b) : Path[b][i] = Path[n][i]
  <2> DEFINE s == SubSeq(Path[b], 1, Depth(b))  t == SubSeq(Path[n], 1, Depth(b))
  <2>1. /\ s \in Seq(Node \ {Root}) /\ Len(s) = Depth(b)
        /\ \A i \in 1 .. Depth(b) : s[i] = Path[b][i]
        BY <1>1, <1>2 DEF Depth
  <2>2. /\ t \in Seq(Node \ {Root}) /\ Len(t) = Depth(b)
        /\ \A i \in 1 .. Depth(b) : t[i] = Path[n][i]
        BY <1>1, <1>2, <1>3 DEF Depth
  <2> HIDE DEF s, t
  <2>3. s = t <=> \A i \in 1 .. Depth(b) : s[i] = t[i]
        BY <1>2, <2>1, <2>2
  <2> QED BY <2>1, <2>2, <2>3 DEF s, t
<1> QED BY <1>3 DEF Below, IsPrefix, Depth

\* Below is an order.
LEMMA BelowOrder ==
    ASSUME NEW a \in Node, NEW b \in Node, NEW c \in Node
    PROVE  /\ Below(a, a)
           /\ Below(a, b) /\ Below(b, c) => Below(a, c)
           /\ Below(a, b) /\ Below(b, a) => a = b
           /\ Below(a, c) /\ Below(b, c) /\ Depth(a) <= Depth(b) => Below(a, b)
<1>1. Depth(a) \in Nat /\ Depth(b) \in Nat /\ Depth(c) \in Nat
      BY Paths
<1>2. Below(a, b) /\ Below(b, a) => a = b
  <2> SUFFICES ASSUME Below(a, b), Below(b, a) PROVE a = b
      OBVIOUS
  <2>1. Depth(a) = Depth(b) /\ \A i \in 1 .. Depth(a) : Path[a][i] = Path[b][i]
        BY <1>1, BelowBy
  <2>2. CASE a = Root
        BY <2>1, <2>2, Paths
  <2>3. CASE a # Root
        BY <1>1, <2>1, <2>3, Paths
  <2> QED BY <2>2, <2>3
<1>3. Below(a, a)
      BY <1>1, BelowBy
<1>4. Below(a, b) /\ Below(b, c) => Below(a, c)
      BY <1>1, BelowBy
<1>5. Below(a, c) /\ Below(b, c) /\ Depth(a) <= Depth(b) => Below(a, b)
      BY <1>1, BelowBy
<1> QED BY <1>2, <1>3, <1>4, <1>5

\* What is on a path, and the parent of a node.
LEMMA OnPath ==
    ASSUME NEW n \in Node, NEW i \in 1 .. Depth(n)
    PROVE  /\ Path[n][i] \in Node \ {Root} /\ Depth(Path[n][i]) = i
           /\ Below(Path[n][i], n)
<1>1. Path[n][i] \in Node \ {Root} /\ Depth(Path[n][i]) = i /\ Depth(n) \in Nat
      BY Paths
<1>2. \A j \in 1 .. i : Path[Path[n][i]][j] = Path[n][j]
      BY Paths
<1> QED BY <1>1, <1>2, BelowBy

LEMMA Parents ==
    ASSUME NEW n \in Node, n # Root
    PROVE  /\ Parent[n] \in Node /\ Depth(n) = Depth(Parent[n]) + 1
           /\ Below(Parent[n], n) /\ ~Below(n, Parent[n])
           /\ \A d \in Node : Below(d, n) <=> d = n \/ Below(d, Parent[n])
<1>1. Depth(n) \in Nat \ {0}
      BY Paths
<1>2. Parent[n] \in Node /\ Depth(n) = Depth(Parent[n]) + 1 /\ Below(Parent[n], n)
  <2>1. CASE Depth(n) = 1
    <3>1. Parent[n] = Root /\ Root \in Node
          BY <2>1, TreeAssumption DEF Parent, Depth
    <3>2. Depth(Root) = 0
          BY <3>1, Paths
    <3> QED BY <2>1, <3>1, <3>2, BelowBy
  <2>2. CASE Depth(n) # 1
    <3>1. Parent[n] = Path[n][Depth(n) - 1]
          BY <2>2 DEF Parent, Depth
    <3>2. Depth(n) - 1 \in 1 .. Depth(n)
          BY <1>1, <2>2
    <3>3. Depth(Parent[n]) = Depth(n) - 1 /\ Parent[n] \in Node /\ Below(Parent[n], n)
          BY <3>1, <3>2, OnPath
    <3> QED BY <1>1, <3>3
  <2> QED BY <2>1, <2>2
<1>3. ~Below(n, Parent[n])
      BY <1>1, <1>2, BelowBy, Paths
<1>4. ASSUME NEW d \in Node, Below(d, n) PROVE d = n \/ Below(d, Parent[n])
  <2>1. Depth(d) \in Nat /\ Depth(d) <= Depth(n)
        BY <1>4, BelowBy, Paths
  <2>2. CASE Depth(d) <= Depth(Parent[n])
        BY <1>2, <1>4, <2>2, BelowOrder
  <2>3. CASE Depth(d) = Depth(n)
        BY <1>1, <1>4, <2>3, BelowOrder
  <2> QED BY <1>1, <1>2, <2>1, <2>2, <2>3, Paths
<1>5. \A d \in Node : d = n \/ Below(d, Parent[n]) => Below(d, n)
      BY <1>2, BelowOrder
<1> QED BY <1>2, <1>3, <1>4, <1>5

\* The next node on the way from one to another.
LEMMA NextOnWay ==
    ASSUME NEW b \in Node, NEW n \in Node, Below(b, n), b # n
    PROVE  LET c == Path[n][Depth(b) + 1]
           IN  /\ c \in Node \ {Root} /\ Parent[c] = b /\ Below(c, n)
               /\ Depth(c) = Depth(b) + 1 /\ Depth(b) + 1 \in 1 .. Depth(n)
<1> DEFINE c == Path[n][Depth(b) + 1]
<1>1. Depth(b) \in Nat /\ Depth(n) \in Nat /\ Depth(b) <= Depth(n)
      BY BelowBy, Paths
<1>2. Depth(b) # Depth(n)
  <2>1. ASSUME Depth(b) = Depth(n) PROVE FALSE
    <3>1. Below(n, b)
          BY <1>1, <2>1, BelowBy
    <3> QED BY <3>1, BelowOrder
  <2> QED BY <2>1
<1>3. Depth(b) + 1 \in 1 .. Depth(n)
      BY <1>1, <1>2
<1>4. c \in Node \ {Root} /\ Depth(c) = Depth(b) + 1 /\ Below(c, n)
      BY <1>3, OnPath
<1> HIDE DEF c
<1>5. Below(b, c)
      BY <1>1, <1>4, BelowOrder
<1>6. Parent[c] = b
  <2>1. /\ Parent[c] \in Node /\ Depth(c) = Depth(Parent[c]) + 1
        /\ \A d \in Node : Below(d, c) => d = c \/ Below(d, Parent[c])
        BY <1>4, Parents
  <2>2. b # c
        BY <1>1, <1>4
  <2>3. Below(b, Parent[c]) /\ Depth(Parent[c]) \in Nat
        BY <1>5, <2>1, <2>2, Paths
  <2>4. Depth(b) = Depth(Parent[c])
        BY <1>1, <1>4, <2>1, <2>3
  <2>5. Below(Parent[c], Parent[c])
        BY <2>1, BelowOrder
  <2>6. Below(Parent[c], b)
        BY <1>1, <2>1, <2>3, <2>4, <2>5, BelowOrder
  <2> QED BY <2>1, <2>3, <2>6, BelowOrder
<1> QED BY <1>3, <1>4, <1>6 DEF c

\* The part of a sequence after its first p elements, up to the q-th.
LEMMA Part ==
    ASSUME NEW S, NEW s \in Seq(S), NEW p \in Nat, NEW q \in p .. Len(s)
    PROVE  /\ SubSeq(s, p + 1, q) \in Seq(S) /\ Len(SubSeq(s, p + 1, q)) = q - p
           /\ \A i \in 1 .. (q - p) : SubSeq(s, p + 1, q)[i] = s[p + i]
<1>1. \A i \in (p + 1) .. q : s[i] \in S
      OBVIOUS
<1>2. q \in Nat /\ q - p \in Nat /\ p + 1 \in Nat
      OBVIOUS
<1>3. SubSeq(s, p + 1, q) \in Seq(S)
      BY <1>1, <1>2
<1>4. Len(SubSeq(s, p + 1, q)) = q - p
      BY <1>2
<1>5. ASSUME NEW i \in 1 .. (q - p) PROVE SubSeq(s, p + 1, q)[i] = s[p + i]
  <2>1. (p + 1) + i - 1 = p + i
        BY <1>2
  <2> QED BY <1>2, <2>1
<1> QED BY <1>3, <1>4, <1>5

\* The way from a node to one below it.
LEMMA Ways ==
    ASSUME NEW b \in Node, NEW n \in Node, Below(b, n)
    PROVE  /\ Depth(n) - Depth(b) \in Nat
           /\ Way(b, n) \in Seq(Node \ {Root}) /\ Len(Way(b, n)) = Depth(n) - Depth(b)
           /\ \A i \in 1 .. (Depth(n) - Depth(b)) : Way(b, n)[i] = Path[n][Depth(b) + i]
<1>1. Path[n] \in Seq(Node \ {Root})
      BY TreeAssumption
<1>2. Depth(b) \in Nat /\ Depth(n) \in Nat /\ Depth(b) <= Depth(n)
      BY BelowBy, Paths
<1>3. Way(b, n) = SubSeq(Path[n], Depth(b) + 1, Depth(n))
      BY DEF Way, Depth
<1> DEFINE s == SubSeq(Path[n], Depth(b) + 1, Depth(n))
<1>4. Way(b, n) = s /\ Depth(n) - Depth(b) \in Nat
      BY <1>2, <1>3
<1>5. Depth(b) + 1 \in Nat \ {0} /\ Depth(n) \in Depth(b) .. Len(Path[n])
      BY <1>2 DEF Depth
<1>6. /\ s \in Seq(Node \ {Root}) /\ Len(s) = Depth(n) - Depth(b)
      /\ \A i \in 1 .. (Depth(n) - Depth(b)) : s[i] = Path[n][Depth(b) + i]
      BY <1>1, <1>2, <1>5, Part
<1> HIDE DEF s
<1> QED BY <1>4, <1>6

\* It begins with the next node, and goes on with the way from that.
LEMMA Ahead ==
    ASSUME NEW b \in Node, NEW n \in Node, Below(b, n), b # n
    PROVE  LET c == Path[n][Depth(b) + 1]
           IN  /\ Way(b, n) # <<>> /\ Head(Way(b, n)) = c /\ Tail(Way(b, n)) = Way(c, n)
               /\ Front(Way(b, n)) = <<>> <=> c = n
               /\ c # n => /\ Head(Front(Way(b, n))) = c
                          /\ Tail(Front(Way(b, n))) = Front(Way(c, n))
<1> DEFINE c == Path[n][Depth(b) + 1]
<1>1. c \in Node /\ Below(c, n) /\ Depth(c) = Depth(b) + 1 /\ Depth(c) \in 1 .. Depth(n)
      BY NextOnWay
<1>2. Depth(b) \in Nat /\ Depth(n) \in Nat
      BY Paths
<1> DEFINE w == Way(b, n)  x == Way(c, n)  k == Depth(n) - Depth(b)
<1>3. /\ w \in Seq(Node) /\ Len(w) = k /\ k \in Nat \ {0}
      /\ \A i \in 1 .. k : w[i] = Path[n][Depth(b) + i]
      BY <1>1, <1>2, Ways
<1>4. x \in Seq(Node) /\ Len(x) = k - 1 /\ \A i \in 1 .. (k - 1) : x[i] = Path[n][Depth(c) + i]
      BY <1>1, <1>2, Ways
<1>5. \A i \in 1 .. (k - 1) : x[i] = w[i + 1]
  <2> SUFFICES ASSUME NEW i \in 1 .. (k - 1) PROVE x[i] = w[i + 1]
      OBVIOUS
  <2>1. i + 1 \in 1 .. k /\ Depth(b) + (i + 1) = Depth(c) + i
    <3>1. Depth(c) = Depth(b) + 1 /\ Depth(b) \in Nat
          BY <1>1, <1>2
    <3>2. k \in Nat
          BY <1>3
    <3> HIDE DEF k, c
    <3> QED BY <3>1, <3>2
  <2> HIDE DEF w, x, c, k
  <2>2. w[i + 1] = Path[n][Depth(b) + (i + 1)]
        BY <1>3, <2>1
  <2>3. x[i] = Path[n][Depth(c) + i]
        BY <1>4
  <2> QED BY <2>1, <2>2, <2>3
<1>6. w[1] = c
      BY <1>2, <1>3
<1>7. c = n <=> k = 1
  <2>1. c = n => k = 1
        BY <1>1, <1>2
  <2>2. k = 1 => Below(n, c)
    <3>1. k = 1 => Depth(c) = Depth(n)
          BY <1>1, <1>2
    <3> QED BY <1>1, <3>1, BelowBy
  <2> QED BY <1>1, <2>1, <2>2, BelowOrder
<1> HIDE DEF c, w, x, k
<1>8. w # <<>> /\ Head(w) = c
      BY <1>3, <1>6
<1>9. Tail(w) = x
  <2> DEFINE t == Tail(w)
  <2>1. t \in Seq(Node) /\ Len(t) = k - 1 /\ \A i \in 1 .. (k - 1) : t[i] = w[i + 1]
        BY <1>3
  <2> HIDE DEF t
  <2>2. t = x
        BY <1>3, <1>4, <1>5, <2>1
  <2> QED BY <2>2 DEF t
<1> DEFINE f == Front(w)
<1>10. f \in Seq(Node) /\ Len(f) = k - 1 /\ \A i \in 1 .. (k - 1) : f[i] = w[i]
       BY <1>3 DEF Front
<1> HIDE DEF f
<1>11. f = <<>> <=> k = 1
       BY <1>3, <1>10
<1>12. ASSUME k # 1 PROVE Head(f) = c /\ Tail(f) = Front(x)
  <2>1. Head(f) = c
        BY <1>3, <1>6, <1>10, <1>12
  <2> DEFINE t == Tail(f)  g == Front(x)
  <2>2. t \in Seq(Node) /\ Len(t) = k - 2 /\ \A i \in 1 .. (k - 2) : t[i] = w[i + 1]
        BY <1>3, <1>10, <1>12
  <2>3. g \in Seq(Node) /\ Len(g) = k - 2 /\ \A i \in 1 .. (k - 2) : g[i] = w[i + 1]
        BY <1>3, <1>4, <1>5, <1>12 DEF Front
  <2> HIDE DEF t, g
  <2>4. t = g
        BY <1>3, <1>12, <2>2, <2>3
  <2> QED BY <2>1, <2>4 DEF t, g
<1> QED BY <1>7, <1>8, <1>9, <1>11, <1>12 DEF c, w, x, f

-----------------------------------------------------------------------------
(* The invariant *)

Calls == [kind : {"none", "save", "load"} \cup Walking, base : Node, last : Node \cup Value,
          at : Node, rest : Seq(Node), from : Nat, asked : Node, bare : SUBSET Node,
          visited : SUBSET Node, owed : SUBSET Node]

\* Where a save or a load is; a load that inserts is in one, too.
InTree == {"needed", "save", "folders", "folder", "visit"}
Labels == {"idle", "walk", "descend", "insert", "create", "enter"} \cup InTree

\* No node is made twice.
Types ==
    /\ created \in [Node -> {0, 1}]
    /\ born \in [Value -> Nat]
    /\ mutex \in [Node -> Thread \cup {NoThread}]
    /\ pc \in [Thread -> Labels]
    /\ call \in [Thread -> Calls]
    /\ directories \subseteq Node /\ clash \subseteq Value

\* A node is never there without those above it.
Closed == \A n, d \in Node : There(n) /\ Below(d, n) => There(d)

\* Of threads that are about to create one value, all but one know that they overlap.
ValuesOK ==
    \A v \in Value \ clash :
        /\ born[v] <= 1
        /\ \A t \in AboutTo(v) : born[v] = 0 /\ \A u \in AboutTo(v) : u = t

\* What is left of the path leads to the node of the value, or to the parent of the
\* node that is asked for.
Leads(kind, last, at, rest) ==
    IF kind = "newValue"
    THEN last \in Value /\ Below(at, Where[last]) /\ rest = Way(at, Where[last])
    ELSE /\ last \in Node \ {Root}
         /\ at # last /\ Below(at, last) /\ rest = Front(Way(at, last))

\* It holds all mutexes from its base to the node it is at.
Traversing(t) ==
    \/ pc[t] \in InTree \ {"save"}
    \/ pc[t] = "insert" /\ call[t].kind = "load"

Walks(t) ==
    /\ pc[t] = "idle" => call[t].kind = "none"
    /\ pc[t] \in {"walk", "descend"} => call[t].kind \in Walking
    /\ pc[t] = "create" => call[t].kind = "newValue" /\ call[t].last \in Value
    /\ pc[t] = "insert" => call[t].kind \in {"newChild", "newValue", "load"}
    /\ pc[t] \in {"enter", "visit"} => call[t].kind \in {"save", "load"}
    /\ pc[t] \in InTree \ {"visit"} => call[t].kind = "save"
    /\ pc[t] = "descend" => Rest(t) # <<>>
    /\ call[t].kind \in Walking /\ pc[t] \in {"walk", "descend", "insert"}
           => Leads(call[t].kind, call[t].last, At(t), Rest(t))

\* But for a lookup, whoever has reached a node has found it there.
Stands(t) ==
    pc[t] # "idle" /\ call[t].kind # "child" =>
        There(At(t)) /\ (pc[t] = "descend" => There(Head(Rest(t))))

\* A map is changed under its mutex, and a traversal has all from its base to where it is;
\* nobody has any other.
Holds(t) ==
    /\ pc[t] = "insert" =>
           Target(t) \in Node \ {Root} /\ Parent[Target(t)] = At(t) /\ ~There(Target(t))
    /\ \A n \in Node : mutex[n] = t <=> n \in Held(t)

OwedOK(t) ==
    \A n \in call[t].owed : /\ There(n) /\ Below(call[t].base, n)
                            /\ call[t].kind = "save" => HasValues(n)
                            /\ call[t].kind = "load" => Saved(call[t].base, n)

\* The deepest node a save or a load has to do with but by asking about directories; and
\* it has done there what it does before it goes to the children.
Stop(t) == IF pc[t] = "folder" THEN Parent[call[t].asked] ELSE At(t)
Settled(t) ==
    \/ pc[t] \in {"folders", "folder", "visit", "insert"}
    \/ pc[t] = "needed" /\ call[t].from > 0
OnWay(t, d) == Below(call[t].base, d) /\ Below(d, Stop(t))

\* A node that is asked about is on the way from the base to where the look has come.
Asks(t) ==
    /\ Looking(t) => /\ Below(call[t].base, call[t].asked)
                     /\ Below(call[t].asked, At(t))
                     /\ pc[t] = "folder" => call[t].asked # call[t].base
    /\ pc[t] \in {"folders", "folder"} =>
           \A c \in call[t].bare : c \in Child(Stop(t)) /\ There(c)

\* A traversal has been to all it owes at a node and below it.
Cleared(t, c) == \A n \in call[t].owed : Below(c, n) => n \in call[t].visited

\* So it has at the nodes it is below, and below those before them in their maps.
Finished(t) ==
    /\ pc[t] = "enter" => At(t) = call[t].base
    /\ Traversing(t) \/ pc[t] = "save" =>
           /\ Below(call[t].base, Stop(t))
           /\ \A d \in call[t].owed :
                  OnWay(t, d) /\ (d = Stop(t) => Settled(t)) => d \in call[t].visited
           /\ \A c, d \in Node \ {Root} :
                  /\ OnWay(t, d) /\ d # call[t].base
                  /\ Parent[c] = Parent[d] /\ Rank[c] < Rank[d]
                  => Cleared(t, c)
           /\ pc[t] \in {"needed", "visit", "insert"} =>
                  \A c \in Child(At(t)) : Rank[c] < call[t].from => Cleared(t, c)

ThreadOK(t) == Walks(t) /\ Stands(t) /\ Holds(t) /\ OwedOK(t) /\ Asks(t) /\ Finished(t)

\* The inductive invariant.
IInv == Types /\ Closed /\ ValuesOK /\ \A t \in Thread : ThreadOK(t)

\* What is left leads on from its first node, which is a child of the one it begins at;
\* nothing is left at the node of the value, or the parent of what is asked for.
LEMMA LeadsOn ==
    ASSUME NEW kind, NEW last, NEW at \in Node, NEW rest, Leads(kind, last, at, rest)
    PROVE  /\ rest # <<>> => /\ Head(rest) \in Node \ {Root} /\ Parent[Head(rest)] = at
                             /\ Leads(kind, last, Head(rest), Tail(rest))
                             /\ kind # "newValue" => Below(Head(rest), last)
           /\ rest = <<>> /\ kind # "newValue" => last \in Node \ {Root} /\ Parent[last] = at
<1>1. CASE kind = "newValue"
  <2> DEFINE n == Where[last]
  <2>1. n \in Node /\ Below(at, n) /\ rest = Way(at, n) /\ last \in Value
        BY <1>1, TreeAssumption DEF Leads
  <2> HIDE DEF n
  <2>2. CASE at = n
    <3>1. Len(rest) = 0 /\ rest \in Seq(Node \ {Root})
          BY <2>1, <2>2, Ways, Paths
    <3> QED BY <1>1, <3>1
  <2>3. CASE at # n
    <3>1. /\ Head(rest) \in Node \ {Root} /\ Parent[Head(rest)] = at
          /\ Below(Head(rest), n) /\ Tail(rest) = Way(Head(rest), n) /\ rest # <<>>
          BY <2>1, <2>3, NextOnWay, Ahead
    <3> QED BY <1>1, <2>1, <3>1 DEF Leads, n
  <2> QED BY <2>2, <2>3
<1>2. CASE kind # "newValue"
  <2>1. /\ last \in Node \ {Root} /\ at # last /\ Below(at, last)
        /\ rest = Front(Way(at, last))
        BY <1>2 DEF Leads
  <2> DEFINE c == Path[last][Depth(at) + 1]
  <2>2. /\ c \in Node \ {Root} /\ Parent[c] = at /\ Below(c, last)
        /\ rest = <<>> <=> c = last
        /\ c # last => Head(rest) = c /\ Tail(rest) = Front(Way(c, last))
        BY <2>1, NextOnWay, Ahead
  <2> HIDE DEF c
  <2> QED BY <1>2, <2>1, <2>2 DEF Leads
<1> QED BY <1>1, <1>2

-----------------------------------------------------------------------------
(* Steps *)

\* What a step of t leaves as it was.
Frame(t) ==
    /\ \A u \in Thread \ {t} : /\ pc'[u] = pc[u] /\ call'[u] = call[u]
                               /\ \A n \in Node : mutex'[n] = u <=> mutex[n] = u
    /\ \A n \in Node : There(n) => There(n)'
    /\ \A n \in Node : HasValues(n) => HasValues(n)'
    /\ \A n \in Node : There(n)' => There(n) \/ (pc[t] = "insert" /\ n = Target(t))
    /\ directories \subseteq directories'

\* What a step of t brings about.
Kept(t) == Types' /\ Closed' /\ ValuesOK' /\ Frame(t) /\ ThreadOK(t)'

\* The parts of a call.
LEMMA CallOf ==
    ASSUME Types, NEW t \in Thread
    PROVE  /\ call[t] \in Calls /\ At(t) \in Node /\ call[t].base \in Node
           /\ Rest(t) \in Seq(Node) /\ call[t].last \in Node \cup Value
           /\ call[t].from \in Nat /\ call[t].asked \in Node /\ call[t].bare \subseteq Node
           /\ call[t].visited \subseteq Node /\ call[t].owed \subseteq Node
           /\ mutex \in [Node -> Thread \cup {NoThread}] /\ t # NoThread
BY TreeAssumption DEF Types, Calls, At, Rest

\* Where a thread inserts it holds the mutex, and where a traversal is; elsewhere it
\* holds none.
LEMMA HoldsHere ==
    ASSUME Types, NEW t \in Thread, ThreadOK(t)
    PROVE  /\ pc[t] = "insert" \/ Traversing(t) => mutex[At(t)] = t
           /\ pc[t] \notin InTree \cup {"insert"} => \A n \in Node : mutex[n] # t
           /\ Traversing(t) => \A n \in Node : mutex[n] = t
                                  <=> Below(call[t].base, n) /\ Below(n, At(t))
           /\ pc[t] = "save" => \A n \in Node : mutex[n] = t
                                  <=> Below(call[t].base, n) /\ Below(n, At(t)) /\ n # At(t)
<1>1. /\ Holds(t) /\ Finished(t) /\ Walks(t) /\ Asks(t)
      /\ At(t) \in Node /\ call[t].base \in Node /\ call[t].asked \in Node
      BY CallOf DEF ThreadOK
<1>2. Traversing(t) => Held(t) = {n \in Node : Below(call[t].base, n) /\ Below(n, At(t))}
      BY <1>1 DEF Traversing, Held, Walks, Walking, InTree
<1>3. Traversing(t) => \A n \in Node : mutex[n] = t
                                 <=> Below(call[t].base, n) /\ Below(n, At(t))
      BY <1>1, <1>2 DEF Holds
<1>4. ASSUME pc[t] = "insert" \/ Traversing(t) PROVE mutex[At(t)] = t
  <2>1. CASE Traversing(t)
    <3>1. Below(call[t].base, At(t))
      <4>1. CASE pc[t] = "folder"
            BY <1>1, <4>1, BelowOrder DEF Asks, Looking
      <4>2. CASE pc[t] # "folder"
            BY <1>1, <2>1, <4>2 DEF Finished, Stop
      <4> QED BY <4>1, <4>2
    <3>2. Below(At(t), At(t))
          BY <1>1, BelowOrder
    <3> QED BY <1>1, <1>3, <2>1, <3>1, <3>2
  <2>2. CASE ~Traversing(t)
    <3>1. Held(t) = {At(t)}
          BY <1>1, <1>4, <2>2 DEF Traversing, Held, Walks, Walking
    <3> QED BY <1>1, <3>1 DEF Holds
  <2> QED BY <2>1, <2>2
<1>5. pc[t] \notin InTree \cup {"insert"} => Held(t) = {}
      BY DEF Held, InTree
<1>6. pc[t] = "save" =>
         Held(t) = {n \in Node \ {At(t)} : Below(call[t].base, n) /\ Below(n, At(t))}
      BY DEF Held
<1> QED BY <1>1, <1>3, <1>4, <1>5, <1>6 DEF Holds

\* A thread does not hear of the steps of others.
LEMMA Others ==
    ASSUME IInv, NEW t \in Thread, Frame(t), ThreadOK(t), NEW u \in Thread \ {t}
    PROVE  ThreadOK(u)'
<1>1. pc'[u] = pc[u] /\ call'[u] = call[u] /\ Types /\ ThreadOK(u)
      BY DEF Frame, IInv
<1>2. At(u) \in Node /\ call[u].base \in Node /\ Rest(u) \in Seq(Node) /\ call[u].owed \subseteq Node
      BY <1>1, CallOf
<1>3. /\ At(u)' = At(u) /\ Rest(u)' = Rest(u) /\ Target(u)' = Target(u)
      /\ Traversing(u)' = Traversing(u) /\ Stop(u)' = Stop(u)
      BY <1>1 DEF At, Rest, Target, Traversing, Stop
<1>4. Walks(u)'
      BY <1>1, <1>3 DEF Walks, ThreadOK
<1>5. Stands(u)'
  <2>1. pc[u] = "descend" => Head(Rest(u)) \in Node
        BY <1>1, <1>2 DEF ThreadOK, Walks
  <2>2. \A n \in Node : There(n) => There(n)'
        BY DEF Frame
  <2>3. Stands(u)
        BY <1>1 DEF ThreadOK
  <2>4. Head(Rest(u))' = Head(Rest(u))
        BY <1>3
  <2>5. SUFFICES ASSUME pc[u] # "idle", call[u].kind # "child"
                 PROVE  There(At(u))' /\ (pc[u] = "descend" => There(Head(Rest(u)))')
        BY <1>1 DEF Stands
  <2>6. There(At(u))'
        BY <1>2, <1>3, <2>2, <2>3, <2>5 DEF Stands, There
  <2>7. pc[u] = "descend" => There(Head(Rest(u)))'
        BY <1>3, <2>1, <2>2, <2>3, <2>5 DEF Stands, There
  <2> QED BY <2>6, <2>7
<1>6. Holds(u)'
  <2>1. Holds(u) /\ Holds(t)
        BY <1>1 DEF ThreadOK
  <2>2. \A n \in Node : mutex'[n] = u <=> mutex[n] = u
        BY DEF Frame
  <2>3. ASSUME pc[u] = "insert" PROVE ~There(Target(u))'
    <3>1. Target(u) \in Node /\ ~There(Target(u)) /\ mutex[At(u)] = u /\ Parent[Target(u)] = At(u)
          BY <1>1, <2>1, <2>3, HoldsHere DEF Holds
    <3>2. pc[t] = "insert" => mutex[At(t)] = t /\ Parent[Target(t)] = At(t)
          BY <1>1, <2>1, HoldsHere DEF Holds
    <3>3. There(Target(u))' => pc[t] = "insert" /\ Target(u) = Target(t)
      <4>1. \A n \in Node : created'[n] > 0 => There(n) \/ (pc[t] = "insert" /\ n = Target(t))
            BY DEF Frame, There
      <4> QED BY <1>3, <3>1, <4>1 DEF There
    <3> QED BY <3>1, <3>2, <3>3
  <2>4. pc'[u] = "insert" =>
           Target(u)' \in Node \ {Root} /\ Parent[Target(u)'] = At(u)' /\ ~There(Target(u))'
        BY <1>1, <1>2, <1>3, <2>1, <2>3 DEF Holds
  <2>5. \A n \in Node : mutex'[n] = u <=> n \in Held(u)'
    <3>1. Held(u)' = Held(u)
          BY <1>1, <1>3 DEF Held
    <3> QED BY <2>1, <2>2, <3>1 DEF Holds
  <2> QED BY <2>4, <2>5 DEF Holds
<1>7. OwedOK(u)'
  <2>1. OwedOK(u)
        BY <1>1 DEF ThreadOK
  <2>2. ASSUME NEW n \in call[u].owed
        PROVE  /\ created'[n] > 0 /\ (call[u].kind = "load" => Saved(call[u].base, n)')
               /\ call[u].kind = "save" => HasValues(n)'
    <3>1. /\ n \in Node /\ There(n) /\ (call[u].kind = "load" => Saved(call[u].base, n))
          /\ call[u].kind = "save" => HasValues(n)
          BY <1>2, <2>1 DEF OwedOK
    <3>2. created'[n] > 0 /\ (HasValues(n) => HasValues(n)')
          BY <3>1 DEF Frame, There
    <3>3. Saved(call[u].base, n) => Saved(call[u].base, n)'
          BY <1>1 DEF Frame, Saved
    <3> QED BY <3>1, <3>2, <3>3
  <2> QED BY <1>1, <2>1, <2>2 DEF OwedOK, There, Saved, HasValues
<1>8. Finished(u)'
      BY <1>1, <1>3 DEF Finished, ThreadOK, OnWay, Settled, Cleared
<1>9. Asks(u)'
  <2>1. \A c \in Node : There(c) => created'[c] > 0
        BY DEF Frame, There
  <2>2. \A c \in Child(Stop(u)) : c \in Node
        BY DEF Child
  <2> QED BY <1>1, <1>3, <2>1, <2>2 DEF Asks, ThreadOK, Looking, There
<1> QED BY <1>4, <1>5, <1>6, <1>7, <1>8, <1>9 DEF ThreadOK

\* At the end of a call nothing is left of it.
LEMMA Ended ==
    ASSUME Types, NEW t \in Thread, End(t), \A n \in Node : mutex'[n] # t
    PROVE  /\ pc' \in [Thread -> Labels]
           /\ call' \in [Thread -> Calls]
           /\ pc'[t] = "idle"
           /\ \A u \in Thread \ {t} : pc'[u] = pc[u] /\ call'[u] = call[u]
           /\ ThreadOK(t)'
<1>1. NoCall \in Calls
      BY TreeAssumption DEF NoCall, Calls
<1>2. /\ pc' \in [Thread -> Labels]
      /\ call' \in [Thread -> Calls]
      /\ pc'[t] = "idle" /\ call'[t] = NoCall
      /\ \A u \in Thread \ {t} : pc'[u] = pc[u] /\ call'[u] = call[u]
      BY <1>1 DEF Types, End, Goto, Labels
<1>3. call'[t].owed = {} /\ call'[t].kind = "none" /\ ~Traversing(t)'
      BY <1>2 DEF NoCall, Traversing, InTree
<1>4. Walks(t)' /\ Stands(t)' /\ Holds(t)' /\ Finished(t)' /\ Asks(t)'
      BY <1>2, <1>3 DEF Walks, Walking, Stands, Holds, Held, Finished, Asks, Looking, InTree
<1>5. OwedOK(t)'
      BY <1>3 DEF OwedOK
<1> QED BY <1>2, <1>4, <1>5 DEF ThreadOK

\* Going on with the same call.
LEMMA Continued ==
    ASSUME Types, NEW t \in Thread, NEW label \in {"descend", "insert", "create"},
           Continue(t, label)
    PROVE  /\ pc' \in [Thread -> Labels]
           /\ pc'[t] = label /\ call' = call
           /\ \A u \in Thread \ {t} : pc'[u] = pc[u]
           /\ At(t)' = At(t) /\ Rest(t)' = Rest(t) /\ Target(t)' = Target(t)
BY DEF Types, Continue, Goto, At, Rest, Target, Labels

\* A step that makes no value.
LEMMA NothingBorn ==
    ASSUME Types, ValuesOK, NEW t \in Thread, born' = born, clash' = clash,
           pc'[t] # "create",
           \A u \in Thread \ {t} : pc'[u] = pc[u] /\ call'[u] = call[u]
    PROVE  ValuesOK'
<1>1. ASSUME NEW v \in Value, NEW u \in AboutTo(v)' PROVE u \in AboutTo(v)
      BY DEF AboutTo
<1> QED BY <1>1 DEF ValuesOK

\* What is owed stays so.
LEMMA StillOwed ==
    ASSUME Types, NEW t \in Thread, OwedOK(t),
           call'[t].owed = call[t].owed, call'[t].base = call[t].base, call'[t].kind = call[t].kind,
           \A n \in Node : There(n) => There(n)', \A n \in Node : HasValues(n) => HasValues(n)',
           directories \subseteq directories'
    PROVE  OwedOK(t)'
<1>1. ASSUME NEW n \in call[t].owed
      PROVE  /\ created'[n] > 0 /\ (call[t].kind = "load" => Saved(call[t].base, n)')
             /\ call[t].kind = "save" => HasValues(n)'
  <2>1. /\ n \in Node /\ There(n) /\ (call[t].kind = "load" => Saved(call[t].base, n))
        /\ call[t].kind = "save" => HasValues(n)
        BY CallOf DEF OwedOK
  <2>2. created'[n] > 0
        BY <2>1 DEF There
  <2>3. Saved(call[t].base, n) => Saved(call[t].base, n)'
        BY DEF Saved
  <2> QED BY <2>1, <2>2, <2>3
<1> QED BY <1>1 DEF OwedOK, There, Saved, HasValues

-----------------------------------------------------------------------------
(* The steps, one by one *)

\* A call begins.
LEMMA Begun ==
    ASSUME IInv, NEW t \in Thread, NEW kind \in {"save", "load"} \cup Walking, NEW base \in Node,
           NEW last \in Node \cup Value, NEW way \in Seq(Node),
           kind \in Walking => Leads(kind, last, base, way),
           Begin(t, kind, base, last, way)
    PROVE  Kept(t)
<1>1. Types /\ ValuesOK /\ Closed
      BY DEF IInv
<1> DEFINE owed == {n \in Node : There(n) /\ Below(base, n)
                                 /\ (kind = "save" => HasValues(n))
                                 /\ (kind = "load" => Saved(base, n))}
           new == [kind |-> kind, base |-> base, last |-> last, at |-> base, rest |-> way,
                   from |-> 0, asked |-> base, bare |-> {}, visited |-> {}, owed |-> owed]
<1>2. /\ new \in Calls /\ new.kind = kind /\ new.base = base /\ new.at = base
      /\ new.last = last /\ new.rest = way /\ new.visited = {} /\ new.owed = owed
      BY DEF Calls
<1>3. /\ There(base) /\ call' = [call EXCEPT ![t] = new]
      /\ pc' = [pc EXCEPT ![t] = IF kind \in Walking THEN "walk" ELSE "enter"]
      /\ UNCHANGED <<created, mutex, born, directories, clash>>
      BY DEF Begin, Goto
<1> HIDE DEF new
<1>4. /\ call' \in [Thread -> Calls] /\ call'[t] = new
      /\ pc'[t] = IF kind \in Walking THEN "walk" ELSE "enter"
      /\ pc' \in [Thread -> Labels]
      /\ \A u \in Thread \ {t} : pc'[u] = pc[u] /\ call'[u] = call[u]
      BY <1>1, <1>2, <1>3 DEF Types, Labels
<1>5. Types'
      BY <1>1, <1>3, <1>4 DEF Types
<1>6. Closed'
      BY <1>1, <1>3 DEF Closed, There
<1>7. ValuesOK'
      BY <1>1, <1>3, <1>4, NothingBorn
<1>8. Frame(t)
      BY <1>3, <1>4 DEF Frame, There, HasValues
<1>13. \A n \in Node : mutex'[n] # t
  <2>1. pc[t] = "idle"
        BY DEF Begin
  <2> QED BY <1>1, <1>3, <2>1, HoldsHere DEF IInv, InTree
<1>9. Walks(t)'
      BY <1>2, <1>4 DEF Walks, Walking, At, Rest, InTree
<1>10. Stands(t)'
       BY <1>2, <1>3, <1>4 DEF Stands, At, There
<1>11. Holds(t)' /\ Finished(t)' /\ Asks(t)'
       BY <1>2, <1>4, <1>13 DEF Holds, Held, Finished, Traversing, At, InTree, Asks, Looking
<1>12. OwedOK(t)'
       BY <1>2, <1>3, <1>4 DEF OwedOK, There, Saved, HasValues
<1> QED BY <1>5, <1>6, <1>7, <1>8, <1>9, <1>10, <1>11, <1>12 DEF Kept, ThreadOK

\* Calls of newChild and child, of newBool and its siblings, of save and load.
LEMMA CallsBegin ==
    ASSUME IInv, NEW t \in Thread, CallChild(t) \/ CallNewValue(t) \/ CallSaveOrLoad(t)
    PROVE  Kept(t)
<1>1. CASE CallChild(t)
  <2>1. PICK kind \in {"newChild", "child"}, b \in Node, n \in Node \ {Root} :
           b # n /\ Below(b, n) /\ Begin(t, kind, b, n, Front(Way(b, n)))
        BY <1>1 DEF CallChild
  <2>2. Front(Way(b, n)) \in Seq(Node)
    <3>1. Way(b, n) \in Seq(Node) /\ Len(Way(b, n)) \in Nat \ {0}
      <4>1. Way(b, n) \in Seq(Node \ {Root}) /\ Way(b, n) # <<>>
            BY <2>1, Ways, Ahead
      <4> QED BY <4>1
    <3> HIDE DEF Way
    <3> QED BY <3>1 DEF Front
  <2>3. Leads(kind, n, b, Front(Way(b, n)))
        BY <2>1 DEF Leads
  <2> QED BY <2>1, <2>2, <2>3, Begun DEF Walking
<1>2. CASE CallNewValue(t)
  <2>1. PICK b \in Node, v \in Value :
           Below(b, Where[v]) /\ Begin(t, "newValue", b, v, Way(b, Where[v]))
        BY <1>2 DEF CallNewValue
  <2>2. Way(b, Where[v]) \in Seq(Node)
    <3>1. Where[v] \in Node
          BY TreeAssumption
    <3>2. Way(b, Where[v]) \in Seq(Node \ {Root})
          BY <2>1, <3>1, Ways
    <3> QED BY <3>2
  <2>3. Leads("newValue", v, b, Way(b, Where[v]))
        BY <2>1 DEF Leads
  <2> QED BY <2>1, <2>2, <2>3, Begun DEF Walking
<1>3. CASE CallSaveOrLoad(t)
  <2>1. PICK kind \in {"save", "load"}, b \in Node : Begin(t, kind, b, b, <<>>)
        BY <1>3 DEF CallSaveOrLoad
  <2>2. kind \notin Walking /\ <<>> \in Seq(Node)
        BY DEF Walking
  <2> QED BY <2>1, <2>2, Begun
<1> QED BY <1>1, <1>2, <1>3

\* What a walk is to make or to look for is a child of the node it has reached.
LEMMA ChildToCome ==
    ASSUME IInv, NEW t \in Thread, pc[t] \in {"walk", "descend", "insert"}, call[t].kind \in Walking
    PROVE  /\ Leads(call[t].kind, call[t].last, At(t), Rest(t))
           /\ Rest(t) # <<>> => /\ Target(t) = Head(Rest(t))
                                /\ Leads(call[t].kind, call[t].last, Head(Rest(t)), Tail(Rest(t)))
           /\ Rest(t) # <<>> \/ call[t].kind # "newValue" =>
                 Target(t) \in Node \ {Root} /\ Parent[Target(t)] = At(t)
<1>1. Leads(call[t].kind, call[t].last, At(t), Rest(t))
      BY DEF IInv, ThreadOK, Walks
<1>2. At(t) \in Node
      BY CallOf DEF IInv
<1> QED BY <1>1, <1>2, LeadsOn DEF Target

\* createBranch, or the end of newChild.
LEMMA Creating ==
    ASSUME IInv, NEW t \in Thread, Create(t)
    PROVE  Kept(t)
<1>1. Types /\ ValuesOK /\ Closed /\ ThreadOK(t)
      BY DEF IInv
<1>2. /\ pc[t] = "walk" /\ call[t].kind \in {"newChild", "newValue"}
      /\ call[t].kind = "newValue" => Rest(t) # <<>>
      /\ mutex[At(t)] = NoThread
      /\ UNCHANGED <<created, born, directories, clash>>
      BY DEF Create, Free, GuardOfParent
<1>3. At(t) \in Node /\ Rest(t) \in Seq(Node) /\ call[t] \in Calls
      /\ mutex \in [Node -> Thread \cup {NoThread}]
      BY <1>1, CallOf
<1>4. /\ Target(t) \in Node \ {Root} /\ Parent[Target(t)] = At(t)
      /\ Leads(call[t].kind, call[t].last, At(t), Rest(t))
      /\ Rest(t) # <<>> => Target(t) = Head(Rest(t))
      BY <1>2, ChildToCome DEF Walking
<1>5. There(At(t))
      BY <1>1, <1>2 DEF ThreadOK, Stands
<1>6. Closed'
      BY <1>1, <1>2 DEF Closed, There
<1>10. \A n \in Node : mutex[n] # t
       BY <1>1, <1>2, HoldsHere DEF InTree
<1>7. CASE There(Target(t)) /\ Rest(t) = <<>>
  <2>1. End(t) /\ mutex' = mutex
        BY <1>7 DEF Create
  <2>2. Types' /\ ThreadOK(t)' /\ Frame(t)
        BY <1>1, <1>2, <1>10, <2>1, Ended DEF Types, Frame, There, HasValues
  <2>3. ValuesOK'
        BY <1>1, <1>2, <1>10, <2>1, Ended, NothingBorn
  <2> QED BY <1>6, <2>2, <2>3 DEF Kept
<1>8. CASE There(Target(t)) /\ Rest(t) # <<>>
  <2>1. Continue(t, "descend") /\ mutex' = mutex
        BY <1>8 DEF Create
  <2>2. /\ pc'[t] = "descend" /\ call' = call
        /\ At(t)' = At(t) /\ Rest(t)' = Rest(t)
        BY <1>1, <2>1, Continued
  <2>3. Types' /\ Frame(t)
        BY <1>1, <1>2, <2>1, Continued DEF Types, Frame, There, HasValues
  <2>4. ValuesOK'
        BY <1>1, <1>2, <2>1, <2>2, Continued, NothingBorn
  <2>5. Walks(t)'
        BY <1>2, <1>4, <1>8, <2>2 DEF Walks, Walking, InTree
  <2>6. Stands(t)'
        BY <1>2, <1>4, <1>5, <1>8, <2>2 DEF Stands, There
  <2>7. Holds(t)' /\ Finished(t)' /\ Asks(t)'
        BY <1>10, <2>1, <2>2 DEF Holds, Held, Finished, Traversing, Asks, Looking, InTree
  <2>8. OwedOK(t)'
        BY <1>1, <1>2, <2>2 DEF OwedOK, ThreadOK, There, Saved, HasValues
  <2> QED BY <1>6, <2>3, <2>4, <2>5, <2>6, <2>7, <2>8 DEF Kept, ThreadOK
<1>9. CASE ~There(Target(t))
  <2>1. Continue(t, "insert") /\ mutex' = [mutex EXCEPT ![At(t)] = t]
        BY <1>9 DEF Create, GuardOfParent
  <2>2. /\ pc'[t] = "insert" /\ call' = call
        /\ At(t)' = At(t) /\ Rest(t)' = Rest(t) /\ Target(t)' = Target(t)
        BY <1>1, <2>1, Continued
  <2>3. /\ \A n \in Node, u \in Thread \ {t} : mutex'[n] = u <=> mutex[n] = u
        /\ \A n \in Node : mutex'[n] = t <=> n = At(t)
        BY <1>2, <1>3, <1>10, <2>1, TreeAssumption
  <2>4. Types'
        BY <1>1, <1>2, <1>3, <2>1, Continued DEF Types
  <2>5. Frame(t)
        BY <1>1, <1>2, <2>1, <2>3, Continued DEF Frame, There, HasValues
  <2>6. ValuesOK'
        BY <1>1, <1>2, <2>1, <2>2, Continued, NothingBorn
  <2>7. Walks(t)'
        BY <1>2, <1>4, <2>2 DEF Walks, Walking, InTree
  <2>8. Stands(t)'
        BY <1>2, <1>5, <2>2 DEF Stands, There
  <2>9. Holds(t)'
    <3>1. Held(t)' = {At(t)}
          BY <1>2, <2>2 DEF Held, Walking
    <3> QED BY <1>2, <1>3, <1>4, <1>9, <2>2, <2>3, <3>1 DEF Holds, There
  <2>10. Finished(t)' /\ Asks(t)'
         BY <1>2, <2>2 DEF Finished, Traversing, Asks, Looking, InTree
  <2>11. OwedOK(t)'
         BY <1>1, <1>2, <2>2 DEF OwedOK, ThreadOK, There, Saved, HasValues
  <2> QED BY <1>6, <2>4, <2>5, <2>6, <2>7, <2>8, <2>9, <2>10, <2>11 DEF Kept, ThreadOK
<1> QED BY <1>7, <1>8, <1>9

\* A child is made, in a map whose mutex is held.
LEMMA Inserted ==
    ASSUME IInv, NEW t \in Thread, Insert(t)
    PROVE  Kept(t)
<1>1. Types /\ ValuesOK /\ Closed /\ ThreadOK(t)
      BY DEF IInv
<1>2. /\ pc[t] = "insert" /\ created' = [created EXCEPT ![Target(t)] = @ + 1]
      /\ UNCHANGED <<born, directories, clash>>
      /\ call[t].kind \in {"newChild", "newValue", "load"}
      BY <1>1 DEF Insert, ThreadOK, Walks
<1>3. At(t) \in Node /\ Rest(t) \in Seq(Node) /\ call[t] \in Calls /\ call[t].base \in Node
      /\ mutex \in [Node -> Thread \cup {NoThread}]
      BY <1>1, CallOf
<1>4. /\ Target(t) \in Node \ {Root} /\ Parent[Target(t)] = At(t)
      /\ ~There(Target(t)) /\ mutex[At(t)] = t /\ There(At(t))
      BY <1>1, <1>2, HoldsHere DEF ThreadOK, Holds, Stands, InTree
<1>5. /\ created' \in [Node -> {0, 1}] /\ created'[Target(t)] = 1
      /\ \A n \in Node \ {Target(t)} : created'[n] = created[n]
      BY <1>1, <1>2, <1>4 DEF Types, There
<1>6. \A n \in Node : There(n)' <=> There(n) \/ n = Target(t)
      BY <1>5 DEF There
<1>12. \A n \in Node : HasValues(n) => HasValues(n)'
       BY <1>2 DEF HasValues
<1>7. Closed'
  <2>1. ASSUME NEW n \in Node, NEW d \in Node, There(n)', Below(d, n)
        PROVE  There(d)'
    <3>1. CASE There(n)
          BY <1>1, <1>6, <2>1, <3>1 DEF Closed
    <3>2. CASE n = Target(t)
      <4>1. d = n \/ Below(d, At(t))
            BY <1>4, <2>1, <3>2, Parents
      <4> QED BY <1>1, <1>3, <1>4, <1>6, <3>2, <4>1 DEF Closed
    <3> QED BY <1>6, <2>1, <3>1, <3>2
  <2> QED BY <2>1 DEF Closed, There
<1>8. CASE call[t].kind = "load"
  <2>1. /\ Goto(t, "visit") /\ call' = [call EXCEPT ![t].rest = <<>>] /\ mutex' = mutex
        BY <1>8 DEF Insert
  <2>2. /\ pc' \in [Thread -> Labels]
        /\ pc'[t] = "visit"
        /\ \A u \in Thread \ {t} : pc'[u] = pc[u] /\ call'[u] = call[u]
        BY <1>1, <2>1 DEF Goto, Types, Labels, InTree
  <2>3. /\ call'[t] \in Calls /\ call' \in [Thread -> Calls]
        /\ call'[t].kind = call[t].kind /\ call'[t].base = call[t].base
        /\ call'[t].at = call[t].at /\ call'[t].visited = call[t].visited
        /\ call'[t].owed = call[t].owed /\ call'[t].from = call[t].from
    <3> DEFINE new == [call[t] EXCEPT !.rest = <<>>]
    <3>1. /\ new \in Calls /\ new.kind = call[t].kind /\ new.base = call[t].base
          /\ new.at = call[t].at /\ new.visited = call[t].visited /\ new.owed = call[t].owed
          /\ new.from = call[t].from
      <4>1. <<>> \in Seq(Node)
            OBVIOUS
      <4> QED BY <1>3, <4>1 DEF Calls
    <3>2. call' = [call EXCEPT ![t] = new]
          BY <1>1, <2>1 DEF Types
    <3> HIDE DEF new
    <3>3. call'[t] = new /\ call' \in [Thread -> Calls]
          BY <1>1, <3>1, <3>2 DEF Types
    <3> QED BY <3>1, <3>3
  <2>4. At(t)' = At(t)
        BY <2>3 DEF At
  <2>5. Types'
        BY <1>1, <1>2, <1>5, <2>1, <2>2, <2>3 DEF Types
  <2>6. Frame(t)
        BY <1>2, <1>6, <2>1, <2>2 DEF Frame, HasValues
  <2>7. ValuesOK'
        BY <1>1, <1>2, <2>2, NothingBorn
  <2>8. Walks(t)'
        BY <1>8, <2>2, <2>3 DEF Walks, Walking, InTree
  <2>9. Stands(t)'
        BY <1>3, <1>4, <1>6, <2>2, <2>4 DEF Stands, There
  <2>10. Holds(t)' /\ Finished(t)' /\ Asks(t)'
    <3>1. Held(t)' = Held(t)
          BY <1>2, <1>8, <2>2, <2>3, <2>4 DEF Held, Walking
    <3>2. Holds(t)'
          BY <1>1, <2>1, <2>2, <3>1 DEF ThreadOK, Holds
    <3>3. Stop(t)' = Stop(t) /\ Asks(t)'
          BY <1>2, <2>2, <2>4 DEF Stop, Asks, Looking
    <3>4. Finished(t)'
          BY <1>1, <1>2, <1>8, <2>2, <2>3, <2>4, <3>3
             DEF ThreadOK, Finished, Traversing, InTree, OnWay, Settled, Cleared
    <3> QED BY <3>2, <3>3, <3>4
  <2>11. OwedOK(t)'
         BY <1>1, <1>2, <1>6, <1>12, <2>3, StillOwed DEF ThreadOK
  <2> QED BY <1>7, <2>5, <2>6, <2>7, <2>8, <2>9, <2>10, <2>11 DEF Kept, ThreadOK
<1>9. CASE call[t].kind # "load"
  <2>1. /\ IF Rest(t) = <<>> THEN End(t) ELSE Continue(t, "descend")
        /\ mutex' = [mutex EXCEPT ![At(t)] = NoThread]
        BY <1>9 DEF Insert, GivenBack, GuardOfParent
  <2>2. /\ \A n \in Node, u \in Thread \ {t} : mutex'[n] = u <=> mutex[n] = u
        /\ \A n \in Node : mutex'[n] # t
    <3>1. Held(t) = {At(t)}
          BY <1>2, <1>9 DEF Held, Walking
    <3>2. \A n \in Node : mutex[n] = t <=> n = At(t)
          BY <1>1, <3>1 DEF ThreadOK, Holds
    <3> QED BY <1>3, <1>4, <2>1, <3>2, TreeAssumption
  <2>3. mutex' \in [Node -> Thread \cup {NoThread}]
        BY <1>3, <2>1
  <2>4. CASE Rest(t) = <<>>
    <3>1. Types' /\ ThreadOK(t)'
          BY <1>1, <1>2, <1>5, <2>1, <2>2, <2>3, <2>4, Ended DEF Types
    <3>2. Frame(t)
          BY <1>1, <1>2, <1>6, <2>1, <2>2, <2>4, Ended DEF Frame, HasValues
    <3>3. ValuesOK'
          BY <1>1, <1>2, <2>1, <2>2, <2>4, Ended, NothingBorn
    <3> QED BY <1>7, <3>1, <3>2, <3>3 DEF Kept
  <2>5. CASE Rest(t) # <<>>
    <3>1. Continue(t, "descend")
          BY <2>1, <2>5
    <3>2. /\ pc'[t] = "descend" /\ call' = call
          /\ At(t)' = At(t) /\ Rest(t)' = Rest(t)
          BY <1>1, <3>1, Continued
    <3>3. Types'
          BY <1>1, <1>2, <1>5, <2>3, <3>1, Continued DEF Types
    <3>4. Frame(t)
          BY <1>1, <1>2, <1>6, <2>2, <3>1, Continued DEF Frame, HasValues
    <3>5. ValuesOK'
          BY <1>1, <1>2, <3>1, <3>2, Continued, NothingBorn
    <3>6. Walks(t)'
      <4>1. Leads(call[t].kind, call[t].last, At(t), Rest(t))
            BY <1>2, <1>9, ChildToCome DEF Walking
      <4> QED BY <1>2, <1>9, <2>5, <3>2, <4>1 DEF Walks, Walking, InTree
    <3>7. Stands(t)'
      <4>1. Head(Rest(t)) = Target(t)
            BY <2>5 DEF Target
      <4> QED BY <1>3, <1>4, <1>6, <3>2, <4>1 DEF Stands, There
    <3>8. Holds(t)' /\ Finished(t)' /\ Asks(t)'
          BY <2>2, <3>2 DEF Holds, Held, Finished, Traversing, Asks, Looking, InTree
    <3>9. OwedOK(t)'
          BY <1>1, <1>2, <1>6, <1>12, <3>2, StillOwed DEF ThreadOK
    <3> QED BY <1>7, <3>3, <3>4, <3>5, <3>6, <3>7, <3>8, <3>9 DEF Kept, ThreadOK
  <2> QED BY <2>4, <2>5
<1> QED BY <1>8, <1>9

\* A call ends, or goes on as it is.
LEMMA EndOrOn ==
    ASSUME IInv, NEW t \in Thread, End(t) \/ (Continue(t, "descend") /\ Rest(t) # <<>>),
           pc[t] \in {"walk", "descend"}, call[t].kind = "child" \/ End(t),
           UNCHANGED <<created, mutex, born, directories, clash>>
    PROVE  Kept(t)
<1>1. Types /\ ValuesOK /\ Closed /\ ThreadOK(t)
      BY DEF IInv
<1>2. Closed'
      BY <1>1 DEF Closed, There
<1>5. \A n \in Node : mutex'[n] # t
      BY <1>1, HoldsHere DEF InTree
<1>3. CASE End(t)
  <2>1. Types' /\ ThreadOK(t)' /\ Frame(t)
        BY <1>1, <1>3, <1>5, Ended DEF Types, Frame, There, HasValues
  <2>2. ValuesOK'
        BY <1>1, <1>3, <1>5, Ended, NothingBorn
  <2> QED BY <1>2, <2>1, <2>2 DEF Kept
<1>4. CASE Continue(t, "descend") /\ Rest(t) # <<>> /\ call[t].kind = "child"
  <2>1. /\ pc'[t] = "descend" /\ call' = call
        /\ At(t)' = At(t) /\ Rest(t)' = Rest(t)
        BY <1>1, <1>4, Continued
  <2>2. Types' /\ Frame(t)
        BY <1>1, <1>4, Continued DEF Types, Frame, There, HasValues
  <2>3. ValuesOK'
        BY <1>1, <1>4, <2>1, Continued, NothingBorn
  <2>4. Leads(call[t].kind, call[t].last, At(t), Rest(t))
        BY <1>4, ChildToCome DEF Walking
  <2>5. Walks(t)' /\ Stands(t)' /\ Holds(t)' /\ Finished(t)' /\ Asks(t)'
        BY <1>4, <1>5, <2>1, <2>4
           DEF Walks, Walking, Stands, Holds, Held, Finished, Traversing, Asks, Looking, InTree
  <2>6. OwedOK(t)'
        BY <1>1, <2>1 DEF OwedOK, ThreadOK, There, Saved, HasValues
  <2> QED BY <1>2, <2>2, <2>3, <2>5, <2>6 DEF Kept, ThreadOK
<1> QED BY <1>3, <1>4

\* A lookup of the next node, and the end of one.
LEMMA LookedUp ==
    ASSUME IInv, NEW t \in Thread, LookUp(t) \/ EndChild(t)
    PROVE  Kept(t)
<1>1. CASE LookUp(t)
  <2>1. PICK found \in Answers(t) : IF found THEN Continue(t, "descend") ELSE End(t)
        BY <1>1 DEF LookUp
  <2>2. /\ pc[t] = "walk" /\ call[t].kind = "child" /\ Rest(t) # <<>>
        /\ UNCHANGED <<created, mutex, born, directories, clash>>
        BY <1>1 DEF LookUp
  <2>3. End(t) \/ Continue(t, "descend")
        BY <2>1
  <2> QED BY <2>2, <2>3, EndOrOn
<1>2. CASE EndChild(t)
      BY <1>2, EndOrOn DEF EndChild
<1> QED BY <1>1, <1>2

\* Going down to the next node.
LEMMA Descended ==
    ASSUME IInv, NEW t \in Thread, Descend(t)
    PROVE  Kept(t)
<1>1. Types /\ ValuesOK /\ Closed /\ ThreadOK(t)
      BY DEF IInv
<1>2. /\ pc[t] = "descend" /\ call[t].kind \in Walking /\ Rest(t) # <<>>
      /\ UNCHANGED <<created, mutex, born, directories, clash>>
      BY <1>1 DEF Descend, ThreadOK, Walks
<1>3. PICK found \in Answers(t) :
         IF found
         THEN /\ Goto(t, "walk")
              /\ call' = [call EXCEPT ![t].at = Head(Rest(t)), ![t].rest = Tail(@)]
         ELSE End(t)
      BY DEF Descend
<1>4. CASE ~found
      BY <1>2, <1>3, <1>4, EndOrOn
<1>5. CASE found
  <2> DEFINE c == Head(Rest(t))
  <2>1. /\ c \in Node \ {Root} /\ Leads(call[t].kind, call[t].last, c, Tail(Rest(t)))
        BY <1>2, ChildToCome
  <2>2. At(t) \in Node /\ Rest(t) \in Seq(Node) /\ call[t] \in Calls
        BY <1>1, CallOf
  <2>3. Tail(Rest(t)) \in Seq(Node)
        BY <1>2, <2>2
  <2>4. /\ pc' = [pc EXCEPT ![t] = "walk"]
        /\ call' = [call EXCEPT ![t].at = c, ![t].rest = Tail(@)]
        BY <1>3, <1>5 DEF Goto
  <2> HIDE DEF c
  <2>5. /\ pc' \in [Thread -> Labels]
        /\ pc'[t] = "walk"
        /\ \A u \in Thread \ {t} : pc'[u] = pc[u] /\ call'[u] = call[u]
        BY <1>1, <2>4 DEF Types, Labels, InTree
  <2>6. call' = [call EXCEPT ![t] = [call[t] EXCEPT !.at = c, !.rest = Tail(Rest(t))]]
        BY <1>1, <2>4 DEF Types, Rest
  <2>7. /\ call' \in [Thread -> Calls]
        /\ call'[t].kind = call[t].kind /\ call'[t].base = call[t].base
        /\ call'[t].last = call[t].last /\ call'[t].owed = call[t].owed
        /\ At(t)' = c /\ Rest(t)' = Tail(Rest(t))
        BY <1>1, <2>1, <2>2, <2>3, <2>6 DEF Types, Calls, At, Rest
  <2>8. Types'
        BY <1>1, <1>2, <2>5, <2>7 DEF Types
  <2>9. Frame(t)
        BY <1>2, <2>5 DEF Frame, There, HasValues
  <2>10. ValuesOK'
         BY <1>1, <1>2, <2>5, NothingBorn
  <2>11. Closed'
         BY <1>1, <1>2 DEF Closed, There
  <2>12. Walks(t)'
         BY <1>2, <2>1, <2>5, <2>7 DEF Walks, InTree
  <2>13. call[t].kind # "child" => There(c)
         BY <1>1, <1>2 DEF ThreadOK, Stands, c
  <2>14. Stands(t)'
         BY <1>2, <2>5, <2>7, <2>13 DEF Stands, There
  <2>17. \A n \in Node : mutex'[n] # t
         BY <1>1, <1>2, HoldsHere DEF InTree
  <2>15. Holds(t)' /\ Finished(t)' /\ Asks(t)'
         BY <2>5, <2>17 DEF Holds, Held, Finished, Traversing, Asks, Looking, InTree
  <2>16. OwedOK(t)'
         BY <1>1, <1>2, <2>7 DEF OwedOK, ThreadOK, There, Saved, HasValues
  <2> QED BY <2>8, <2>9, <2>10, <2>11, <2>12, <2>14, <2>15, <2>16 DEF Kept, ThreadOK
<1> QED BY <1>4, <1>5

\* getValueType: who finds a value unknown while another is about to create it knows.
LEMMA TypeChecked ==
    ASSUME IInv, NEW t \in Thread, CheckType(t)
    PROVE  Kept(t)
<1>1. Types /\ ValuesOK /\ Closed /\ ThreadOK(t)
      BY DEF IInv
<1> DEFINE v == call[t].last
<1>2. /\ pc[t] = "walk" /\ call[t].kind = "newValue" /\ Rest(t) = <<>>
      /\ IF Unknown(v) THEN Continue(t, "create") ELSE End(t)
      /\ clash' = IF AboutTo(v) # {} THEN clash \cup {v} ELSE clash
      /\ UNCHANGED <<created, mutex, born, directories>>
      BY DEF CheckType
<1>3. v \in Value
  <2>1. Leads(call[t].kind, call[t].last, At(t), Rest(t))
        BY <1>2, ChildToCome DEF Walking
  <2> QED BY <1>2, <2>1 DEF Leads
<1> HIDE DEF v
<1>4. clash' \subseteq Value /\ clash \subseteq clash'
      BY <1>1, <1>2, <1>3 DEF Types
<1>5. Closed'
      BY <1>1, <1>2 DEF Closed, There
<1>8. \A n \in Node : mutex'[n] # t
      BY <1>1, <1>2, HoldsHere DEF InTree
<1>6. CASE Unknown(v)
  <2>1. Continue(t, "create")
        BY <1>2, <1>6
  <2>2. /\ pc'[t] = "create" /\ call' = call
        /\ At(t)' = At(t) /\ Rest(t)' = Rest(t)
        BY <1>1, <2>1, Continued
  <2>3. Types' /\ Frame(t)
        BY <1>1, <1>2, <1>4, <2>1, Continued DEF Types, Frame, There, HasValues
  <2>4. ASSUME NEW x \in Value \ clash'
        PROVE  /\ born'[x] <= 1
               /\ \A u \in AboutTo(x)' : born'[x] = 0 /\ \A w \in AboutTo(x)' : w = u
    <3>1. AboutTo(x)' \subseteq AboutTo(x) \cup {u \in {t} : x = v}
          BY <1>1, <2>1, <2>2, Continued DEF AboutTo, v
    <3>2. CASE x # v
          BY <1>1, <1>2, <1>4, <3>1, <3>2 DEF ValuesOK
    <3>3. CASE x = v
      <4>1. AboutTo(v) = {} /\ born[v] = 0
            BY <1>2, <1>6, <3>3 DEF Unknown
      <4> QED BY <1>2, <3>1, <3>3, <4>1
    <3> QED BY <3>2, <3>3
  <2>5. ValuesOK'
        BY <2>4 DEF ValuesOK
  <2>6. Walks(t)' /\ Holds(t)' /\ Finished(t)' /\ Asks(t)'
        BY <1>2, <1>3, <1>8, <2>2 DEF Walks, Holds, Held, Finished, Traversing, Asks, Looking, InTree, v
  <2>7. Stands(t)'
        BY <1>1, <1>2, <2>2 DEF Stands, ThreadOK, There
  <2>8. OwedOK(t)'
        BY <1>1, <1>2, <2>2 DEF OwedOK, ThreadOK, There, Saved, HasValues
  <2> QED BY <1>5, <2>3, <2>5, <2>6, <2>7, <2>8 DEF Kept, ThreadOK
<1>7. CASE ~Unknown(v)
  <2>1. End(t)
        BY <1>2, <1>7
  <2>2. Types' /\ ThreadOK(t)' /\ Frame(t)
        BY <1>1, <1>2, <1>4, <1>8, <2>1, Ended DEF Types, Frame, There, HasValues
  <2>3. ValuesOK'
    <3>1. ASSUME NEW x \in Value PROVE AboutTo(x)' \subseteq AboutTo(x)
          BY <1>1, <1>8, <2>1, Ended DEF AboutTo
    <3> QED BY <1>1, <1>2, <1>4, <3>1 DEF ValuesOK
  <2> QED BY <1>5, <2>2, <2>3 DEF Kept
<1> QED BY <1>6, <1>7

\* The value is created, after its mutex was given back.
LEMMA ValueCreated ==
    ASSUME IInv, NEW t \in Thread, CreateValue(t)
    PROVE  Kept(t)
<1>1. Types /\ ValuesOK /\ Closed /\ ThreadOK(t)
      BY DEF IInv
<1> DEFINE v == call[t].last
<1>2. /\ pc[t] = "create" /\ v \in Value
      /\ born' = [born EXCEPT ![v] = @ + 1] /\ End(t)
      /\ UNCHANGED <<created, mutex, directories, clash>>
      BY <1>1 DEF CreateValue, ThreadOK, Walks
<1>3. t \in AboutTo(v)
      BY <1>2 DEF AboutTo
<1> HIDE DEF v
<1>4. /\ born' \in [Value -> Nat] /\ born'[v] = born[v] + 1
      /\ \A x \in Value \ {v} : born'[x] = born[x]
      BY <1>1, <1>2 DEF Types
<1>5. Closed'
      BY <1>1, <1>2 DEF Closed, There
<1>8. \A n \in Node : mutex'[n] # t
      BY <1>1, <1>2, HoldsHere DEF InTree
<1>6. Types' /\ ThreadOK(t)' /\ Frame(t)
      BY <1>1, <1>2, <1>4, <1>8, Ended DEF Types, Frame, There, HasValues
<1>7. ValuesOK'
  <2>1. ASSUME NEW x \in Value \ clash
        PROVE  /\ born'[x] <= 1
               /\ \A u \in AboutTo(x)' : born'[x] = 0 /\ \A w \in AboutTo(x)' : w = u
    <3>1. AboutTo(x)' \subseteq AboutTo(x) \ {t}
          BY <1>1, <1>2, <1>8, Ended DEF AboutTo
    <3>2. CASE x # v
          BY <1>1, <1>4, <3>1, <3>2 DEF ValuesOK
    <3>3. CASE x = v
      <4>1. born[v] = 0 /\ \A u \in AboutTo(v) : u = t
            BY <1>1, <1>3, <2>1, <3>3 DEF ValuesOK
      <4> QED BY <1>4, <3>1, <3>3, <4>1
    <3> QED BY <3>2, <3>3
  <2> QED BY <1>2, <2>1 DEF ValuesOK
<1> QED BY <1>5, <1>6, <1>7 DEF Kept

-----------------------------------------------------------------------------
(* Saves and loads *)

\* Natural numbers have a smallest one.
LEMMA Smallest ==
    ASSUME NEW S, S \subseteq Nat, S # {}
    PROVE  \E m \in S : \A k \in S : m <= k
<1> DEFINE R == OpToRel(<, Nat)
<1>1. IsWellFoundedOn(R, Nat)
      BY NatLessThanWellFounded
<1>2. \A k, m \in Nat : k < m => <<k, m>> \in R
      BY DEF OpToRel
<1> HIDE DEF R
<1>3. PICK m \in S : \A k \in S : ~(<<k, m>> \in R)
      BY <1>1, WFMin
<1>4. ASSUME NEW k \in S PROVE m <= k
  <2>1. k \in Nat /\ m \in Nat
        OBVIOUS
  <2>2. ~(k < m)
        BY <1>2, <1>3, <2>1
  <2> QED BY <2>1, <2>2
<1> QED BY <1>4

\* So some nodes have a first one.
LEMMA Firsts ==
    ASSUME NEW S, S \subseteq Node, S # {}
    PROVE  First(S) \in S /\ \A d \in S : Rank[First(S)] <= Rank[d]
<1> DEFINE ranks == {Rank[c] : c \in S}
<1>1. \A c \in S : Rank[c] \in Nat
      BY TreeAssumption
<1>2. ranks \subseteq Nat /\ ranks # {}
      BY <1>1
<1>3. PICK m \in ranks : \A k \in ranks : m <= k
  <2> HIDE DEF ranks
  <2> QED BY <1>2, Smallest
<1>4. \E c \in S : \A d \in S : Rank[c] <= Rank[d]
      BY <1>3
<1> QED BY <1>4 DEF First

\* What is below a node and not that node is not the root.
LEMMA NotRoot ==
    ASSUME NEW b \in Node, NEW n \in Node, Below(b, n), n # b
    PROVE  n # Root
<1>1. Depth(b) \in Nat /\ Depth(n) \in Nat /\ Depth(b) <= Depth(n)
      BY BelowBy, Paths
<1>2. ASSUME n = Root PROVE FALSE
  <2>1. Depth(n) = 0
        BY <1>2, Paths
  <2>2. Depth(b) = 0
        BY <1>1, <2>1
  <2>3. b = Root
        BY <2>2, Paths
  <2> QED BY <1>2, <2>3
<1> QED BY <1>2

\* A traversal is at or below its base.
LEMMA Inside ==
    ASSUME IInv, NEW t \in Thread, Traversing(t) \/ pc[t] = "save"
    PROVE  /\ At(t) \in Node /\ call[t].base \in Node /\ Stop(t) \in Node
           /\ Below(call[t].base, At(t)) /\ Below(call[t].base, Stop(t)) /\ Below(Stop(t), At(t))
           /\ At(t) # call[t].base => At(t) # Root /\ Parent[At(t)] \in Node
<1>1. /\ Types /\ Asks(t) /\ Finished(t) /\ At(t) \in Node /\ call[t].base \in Node
      /\ call[t].asked \in Node
      BY CallOf DEF IInv, ThreadOK
<1>2. Below(call[t].base, Stop(t))
      BY <1>1 DEF Finished
<1>3. Stop(t) \in Node /\ Below(Stop(t), At(t))
  <2>1. CASE pc[t] = "folder"
    <3>1. /\ Below(call[t].base, call[t].asked) /\ Below(call[t].asked, At(t))
          /\ call[t].asked # call[t].base
          BY <1>1, <2>1 DEF Asks, Looking
    <3>2. call[t].asked # Root
          BY <1>1, <3>1, NotRoot
    <3>3. Parent[call[t].asked] \in Node /\ Below(Parent[call[t].asked], call[t].asked)
          BY <1>1, <3>2, Parents
    <3>4. Below(Parent[call[t].asked], At(t))
          BY <1>1, <3>1, <3>3, BelowOrder
    <3> QED BY <2>1, <3>3, <3>4 DEF Stop
  <2>2. CASE pc[t] # "folder"
        BY <1>1, <2>2, BelowOrder DEF Stop
  <2> QED BY <2>1, <2>2
<1>4. Below(call[t].base, At(t))
      BY <1>1, <1>2, <1>3, BelowOrder
<1>5. At(t) # call[t].base => At(t) # Root /\ Parent[At(t)] \in Node
      BY <1>1, <1>4, NotRoot, Parents
<1> QED BY <1>1, <1>2, <1>3, <1>4, <1>5

\* A step of a save or a load within its call.
LEMMA Moved ==
    ASSUME IInv, NEW t \in Thread, NEW label \in InTree \cup {"insert"}, NEW new \in Calls,
           pc' = [pc EXCEPT ![t] = label], call' = [call EXCEPT ![t] = new],
           new.kind = call[t].kind, new.base = call[t].base, new.owed = call[t].owed,
           UNCHANGED <<created, born, clash>>,
           directories \subseteq directories', directories' \subseteq Node,
           mutex' \in [Node -> Thread \cup {NoThread}],
           \A n \in Node, u \in Thread \ {t} : mutex'[n] = u <=> mutex[n] = u
    PROVE  /\ Types' /\ Closed' /\ ValuesOK' /\ Frame(t) /\ OwedOK(t)'
           /\ pc'[t] = label /\ call'[t] = new /\ At(t)' = new.at
           /\ \A n \in Node : There(n)' <=> There(n)
<1>1. Types /\ Closed /\ ValuesOK /\ OwedOK(t)
      BY DEF IInv, ThreadOK
<1>2. /\ pc' \in [Thread -> Labels] /\ call' \in [Thread -> Calls]
      /\ pc'[t] = label /\ call'[t] = new
      /\ \A u \in Thread \ {t} : pc'[u] = pc[u] /\ call'[u] = call[u]
      BY <1>1 DEF Types, Labels
<1>3. Types' /\ Closed'
      BY <1>1, <1>2 DEF Types, Closed, There
<1>4. ValuesOK'
      BY <1>1, <1>2, NothingBorn DEF InTree
<1>5. /\ \A n \in Node : There(n)' <=> There(n)
      /\ \A n \in Node : HasValues(n)' <=> HasValues(n)
      BY DEF There, HasValues
<1>6. Frame(t)
      BY <1>2, <1>5 DEF Frame
<1>7. OwedOK(t)'
      BY <1>1, <1>2, <1>5, StillOwed
<1> QED BY <1>2, <1>3, <1>4, <1>5, <1>6, <1>7 DEF At

\* It takes the mutex of its base, or of a child of the node it is at; or again that of the
\* node it is to save.
LEMMA Locked ==
    ASSUME IInv, NEW t \in Thread, NEW n \in Node, Lock(t, n),
           \/ pc[t] = "enter" /\ n = call[t].base
           \/ pc[t] = "save" /\ n = At(t)
           \/ Traversing(t) /\ n \in Child(At(t))
    PROVE  /\ mutex' \in [Node -> Thread \cup {NoThread}]
           /\ \A m \in Node, u \in Thread \ {t} : mutex'[m] = u <=> mutex[m] = u
           /\ Below(call[t].base, n)
           /\ \A m \in Node : mutex'[m] = t <=> Below(call[t].base, m) /\ Below(m, n)
<1>1. Types /\ ThreadOK(t) /\ call[t].base \in Node /\ At(t) \in Node
      BY CallOf DEF IInv, ThreadOK
<1>2. /\ mutex' \in [Node -> Thread \cup {NoThread}]
      /\ \A m \in Node, u \in Thread \ {t} : mutex'[m] = u <=> mutex[m] = u
      /\ \A m \in Node : mutex'[m] = t <=> m = n \/ mutex[m] = t
      BY <1>1, TreeAssumption DEF Types, Lock, Free
<1>3. Below(n, n)
      BY BelowOrder
<1>4. CASE pc[t] = "enter" /\ n = call[t].base
  <2>1. \A m \in Node : mutex[m] # t
        BY <1>1, <1>4, HoldsHere DEF InTree
  <2>2. \A m \in Node : Below(n, m) /\ Below(m, n) => m = n
        BY BelowOrder
  <2> QED BY <1>2, <1>3, <1>4, <2>1, <2>2
<1>5. CASE pc[t] = "save" /\ n = At(t)
  <2>1. \A m \in Node : mutex[m] = t <=> Below(call[t].base, m) /\ Below(m, n) /\ m # n
        BY <1>1, <1>5, HoldsHere
  <2>2. Below(call[t].base, n)
        BY <1>5, Inside
  <2> QED BY <1>2, <1>3, <2>1, <2>2
<1>6. CASE Traversing(t) /\ n \in Child(At(t))
  <2>1. \A m \in Node : mutex[m] = t <=> Below(call[t].base, m) /\ Below(m, At(t))
        BY <1>1, <1>6, HoldsHere
  <2>2. /\ Below(At(t), n)
        /\ \A m \in Node : Below(m, n) <=> m = n \/ Below(m, At(t))
        BY <1>6, Parents DEF Child
  <2>3. Below(call[t].base, n)
    <3>1. Below(call[t].base, At(t))
          BY <1>6, Inside
    <3> QED BY <1>1, <2>2, <3>1
  <2> QED BY <1>2, <2>1, <2>2, <2>3
<1> QED BY <1>4, <1>5, <1>6

\* It gives back the mutexes of a node and those it has gone down to from there.
LEMMA Given ==
    ASSUME IInv, NEW t \in Thread, NEW n \in Node, GiveBack(t, n), Traversing(t),
           Below(call[t].base, n), Below(n, At(t))
    PROVE  /\ mutex' \in [Node -> Thread \cup {NoThread}]
           /\ \A m \in Node, u \in Thread \ {t} : mutex'[m] = u <=> mutex[m] = u
           /\ \A m \in Node : mutex'[m] = t <=> Below(call[t].base, m) /\ Below(m, n) /\ m # n
           /\ n = call[t].base => \A m \in Node : mutex'[m] # t
           /\ n # call[t].base =>
                 /\ n \in Node \ {Root} /\ Parent[n] \in Node /\ Below(call[t].base, Parent[n])
                 /\ \A m \in Node : mutex'[m] = t
                        <=> Below(call[t].base, m) /\ Below(m, Parent[n])
<1>1. Types /\ ThreadOK(t) /\ call[t].base \in Node /\ At(t) \in Node
      BY CallOf DEF IInv, ThreadOK
<1>2. \A m \in Node : mutex[m] = t <=> Below(call[t].base, m) /\ Below(m, At(t))
      BY <1>1, HoldsHere
<1>3. /\ mutex' \in [Node -> Thread \cup {NoThread}]
      /\ \A m \in Node, u \in Thread \ {t} : mutex'[m] = u <=> mutex[m] = u
      /\ \A m \in Node : mutex'[m] = t <=> mutex[m] = t /\ ~Below(n, m)
      BY <1>1, TreeAssumption DEF Types, GiveBack
<1>4. ASSUME NEW m \in Node
      PROVE  Below(m, At(t)) /\ ~Below(n, m) <=> Below(m, n) /\ m # n
  <2>1. ASSUME Below(m, At(t)), ~Below(n, m) PROVE Below(m, n) /\ m # n
    <3>1. Depth(n) \in Nat /\ Depth(m) \in Nat
          BY Paths
    <3>2. ~(Depth(n) <= Depth(m))
          BY <1>1, <2>1, BelowOrder
    <3>3. Depth(m) <= Depth(n)
          BY <3>1, <3>2
    <3> QED BY <1>1, <2>1, <3>3, BelowOrder
  <2>2. ASSUME Below(m, n), m # n PROVE Below(m, At(t)) /\ ~Below(n, m)
        BY <1>1, <2>2, BelowOrder
  <2> QED BY <2>1, <2>2
<1>5. \A m \in Node : mutex'[m] = t <=> Below(call[t].base, m) /\ Below(m, n) /\ m # n
      BY <1>2, <1>3, <1>4
<1>6. n = call[t].base => \A m \in Node : mutex'[m] # t
      BY <1>5, BelowOrder
<1>7. ASSUME n # call[t].base
      PROVE  /\ n \in Node \ {Root} /\ Parent[n] \in Node /\ Below(call[t].base, Parent[n])
             /\ \A m \in Node : mutex'[m] = t
                    <=> Below(call[t].base, m) /\ Below(m, Parent[n])
  <2>1. n # Root
        BY <1>1, <1>7, NotRoot
  <2>2. /\ Parent[n] \in Node /\ ~Below(n, Parent[n])
        /\ \A m \in Node : Below(m, n) <=> m = n \/ Below(m, Parent[n])
        BY <2>1, Parents
  <2>3. Below(call[t].base, Parent[n])
        BY <1>1, <1>7, <2>2
  <2> QED BY <1>5, <2>1, <2>2, <2>3
<1> QED BY <1>3, <1>5, <1>6, <1>7

\* The next child to come.
LEMMA Coming ==
    ASSUME IInv, NEW t \in Thread, ToCome(t) # {}
    PROVE  LET n == First(ToCome(t))
           IN  /\ n \in Child(At(t)) /\ n \in Node \ {Root} /\ Parent[n] = At(t) /\ There(n)
               /\ call[t].from <= Rank[n]
               /\ \A c \in Child(At(t)) : There(c) /\ Rank[c] < Rank[n] => Rank[c] < call[t].from
<1> DEFINE n == First(ToCome(t))
<1>1. ToCome(t) \subseteq Node
      BY DEF ToCome, Child
<1>2. n \in ToCome(t) /\ \A d \in ToCome(t) : Rank[n] <= Rank[d]
      BY <1>1, Firsts
<1> HIDE DEF n
<1>3. call[t].from \in Nat /\ \A c \in Node : Rank[c] \in Nat
      BY CallOf, TreeAssumption DEF IInv
<1>4. /\ n \in Child(At(t)) /\ n \in Node \ {Root} /\ Parent[n] = At(t) /\ There(n)
      /\ call[t].from <= Rank[n]
      BY <1>2 DEF ToCome, Child
<1>5. ASSUME NEW c \in Child(At(t)), There(c), Rank[c] < Rank[n] PROVE Rank[c] < call[t].from
  <2>1. c \in Node
        BY DEF Child
  <2>2. c \notin ToCome(t)
        BY <1>2, <1>3, <1>4, <1>5, <2>1
  <2> QED BY <1>3, <1>5, <2>1, <2>2 DEF ToCome
<1> QED BY <1>4, <1>5 DEF n

\* Nothing is owed below a node that is not there.
LEMMA NothingBelow ==
    ASSUME IInv, NEW t \in Thread, NEW c \in Node, ~There(c)
    PROVE  Cleared(t, c)
<1>1. \A n \in call[t].owed : n \in Node /\ There(n)
      BY CallOf DEF IInv, ThreadOK, OwedOK
<1> QED BY <1>1 DEF IInv, Closed, Cleared

\* Nothing is left to do at the node itself.
LEMMA AtDone ==
    ASSUME IInv, NEW t \in Thread, pc[t] \in {"needed", "visit"}, ~(Looking(t) /\ Here(t))
    PROVE  At(t) \in call[t].owed => At(t) \in call[t].visited
<1>1. Types /\ ThreadOK(t) /\ call[t].from \in Nat
      BY CallOf DEF IInv
<1>2. Traversing(t) /\ Stop(t) = At(t)
      BY DEF Traversing, InTree, Stop
<1>3. Below(call[t].base, At(t)) /\ Below(At(t), At(t))
      BY <1>2, Inside, BelowOrder
<1>4. CASE Settled(t)
      BY <1>1, <1>2, <1>3, <1>4 DEF ThreadOK, Finished, OnWay
<1>5. CASE ~Settled(t)
  <2>1. pc[t] = "needed" /\ call[t].from = 0 /\ call[t].kind = "save"
        BY <1>1, <1>5 DEF Settled, ThreadOK, Walks, InTree
  <2>2. ~HasValues(At(t))
        BY <2>1 DEF Looking, Here
  <2> QED BY <1>1, <2>1, <2>2 DEF ThreadOK, OwedOK
<1> QED BY <1>4, <1>5

\* Where a traversal leaves a node it has been to all it owes at it and below it.
LEMMA Complete ==
    ASSUME IInv, NEW t \in Thread, pc[t] \in {"needed", "visit"}, ~(Looking(t) /\ Here(t)),
           pc[t] = "needed" \/ Ready(t) => ToCome(t) = {},
           pc[t] = "visit" => Missing(At(t)) = {}
    PROVE  Cleared(t, At(t))
<1>1. /\ Types /\ Closed /\ ThreadOK(t) /\ call[t].from \in Nat
      /\ call[t].owed \subseteq Node
      BY CallOf DEF IInv
<1>2. Traversing(t)
      BY DEF Traversing, InTree
<1>3. At(t) \in Node /\ call[t].base \in Node /\ Below(call[t].base, At(t))
      BY <1>2, Inside
<1>4. SUFFICES ASSUME NEW n \in call[t].owed, Below(At(t), n) PROVE n \in call[t].visited
      BY DEF Cleared
<1>5. CASE n = At(t)
      BY <1>5, AtDone
<1>6. CASE n # At(t)
  <2> DEFINE c == Path[n][Depth(At(t)) + 1]
  <2>1. c \in Node \ {Root} /\ Parent[c] = At(t) /\ Below(c, n)
        BY <1>1, <1>3, <1>4, <1>6, NextOnWay
  <2> HIDE DEF c
  <2>2. There(n) /\ (call[t].kind = "load" => Saved(call[t].base, n))
        BY <1>1 DEF ThreadOK, OwedOK
  <2>3. There(c)
        BY <1>1, <1>3, <2>1, <2>2 DEF Closed
  <2>4. ToCome(t) = {}
    <3>1. pc[t] = "visit" => Ready(t)
          BY <1>3, <1>4, <1>6, <2>2 DEF Ready, Saved
    <3> QED BY <3>1
  <2>5. c \in Child(At(t)) /\ Rank[c] \in Nat
        BY <2>1, TreeAssumption DEF Child
  <2>6. Rank[c] < call[t].from
    <3>1. ~(call[t].from <= Rank[c])
          BY <2>3, <2>4, <2>5 DEF ToCome
    <3> QED BY <1>1, <2>5, <3>1
  <2>7. Cleared(t, c)
        BY <1>1, <1>2, <2>5, <2>6 DEF ThreadOK, Finished
  <2> QED BY <2>1, <2>7 DEF Cleared
<1> QED BY <1>5, <1>6

\* It goes down to the next child.
LEMMA WentDown ==
    ASSUME IInv, NEW t \in Thread, pc[t] \in {"needed", "visit"}, ~(Looking(t) /\ Here(t)),
           ToCome(t) # {},
           call'[t].at = First(ToCome(t)), call'[t].from = 0, call'[t].base = call[t].base,
           call'[t].owed = call[t].owed, call[t].visited \subseteq call'[t].visited,
           \/ pc'[t] = "needed"
           \/ pc'[t] = "visit" /\ First(ToCome(t)) \in call'[t].visited
    PROVE  Finished(t)'
<1> DEFINE n == First(ToCome(t))
<1>1. /\ n \in Child(At(t)) /\ n \in Node \ {Root} /\ Parent[n] = At(t)
      /\ \A c \in Child(At(t)) : There(c) /\ Rank[c] < Rank[n] => Rank[c] < call[t].from
      BY Coming
<1>2. ThreadOK(t) /\ Traversing(t) /\ Stop(t) = At(t)
      BY DEF IInv, Traversing, InTree, Stop
<1>3. At(t) \in Node /\ call[t].base \in Node /\ Below(call[t].base, At(t))
      BY <1>2, Inside
<1>4. \A d \in Node : Below(d, n) <=> d = n \/ Below(d, At(t))
      BY <1>1, Parents
<1>5. call'[t].at = n
      OBVIOUS
<1> HIDE DEF n
<1>6. Stop(t)' = n /\ (Settled(t)' <=> pc'[t] = "visit") /\ ~(pc'[t] = "enter")
      BY <1>5 DEF Stop, Settled, At
<1>7. Below(call[t].base, n)
      BY <1>3, <1>4
<1>8. ASSUME NEW d \in call[t].owed, Below(call[t].base, d), Below(d, n),
             d = n => pc'[t] = "visit"
      PROVE  d \in call'[t].visited
  <2>1. d \in Node
        BY CallOf DEF IInv
  <2>2. CASE d = n
        BY <1>8, <2>2 DEF n
  <2>3. CASE d # n
    <3>1. Below(d, At(t))
          BY <1>4, <1>8, <2>1, <2>3
    <3>2. CASE d = At(t)
          BY <3>2, AtDone
    <3>3. CASE d # At(t)
          BY <1>2, <1>8, <3>1, <3>3 DEF ThreadOK, Finished, OnWay
    <3> QED BY <3>2, <3>3
  <2> QED BY <2>2, <2>3
<1>9. \A c \in Node : Cleared(t, c) => Cleared(t, c)'
      BY DEF Cleared
<1>10. ASSUME NEW c \in Node \ {Root}, NEW d \in Node \ {Root},
              Below(call[t].base, d), Below(d, n), d # call[t].base,
              Parent[c] = Parent[d], Rank[c] < Rank[d]
       PROVE  Cleared(t, c)
  <2>1. CASE d = n
    <3>1. c \in Child(At(t))
          BY <1>1, <1>10, <2>1 DEF Child
    <3>2. CASE There(c)
          BY <1>1, <1>2, <1>10, <2>1, <3>1, <3>2 DEF ThreadOK, Finished
    <3>3. CASE ~There(c)
          BY <3>3, NothingBelow
    <3> QED BY <3>2, <3>3
  <2>2. CASE d # n
    <3>1. Below(d, At(t))
          BY <1>4, <1>10, <2>2
    <3> QED BY <1>2, <1>10, <3>1 DEF ThreadOK, Finished, OnWay
  <2> QED BY <2>1, <2>2
<1>11. \A c \in Node : Rank[c] \in Nat
       BY TreeAssumption
<1>12. \A c \in Child(n) : c \in Node
       BY DEF Child
<1>13. At(t)' = n /\ \A c \in Child(n) : ~(Rank[c] < call'[t].from)
       BY <1>5, <1>11, <1>12 DEF At
<1> QED BY <1>6, <1>7, <1>8, <1>9, <1>10, <1>13 DEF Finished, OnWay

\* It comes back from a node.
LEMMA CameBack ==
    ASSUME IInv, NEW t \in Thread, pc[t] \in {"needed", "visit"}, At(t) # call[t].base,
           Cleared(t, At(t)),
           call'[t].at = Parent[At(t)], call'[t].from = Rank[At(t)] + 1,
           call'[t].base = call[t].base, call'[t].owed = call[t].owed,
           call'[t].visited = call[t].visited, pc'[t] \in {"needed", "visit"}
    PROVE  Finished(t)'
<1> DEFINE p == Parent[At(t)]
<1>1. ThreadOK(t) /\ Traversing(t) /\ Stop(t) = At(t)
      BY DEF IInv, Traversing, InTree, Stop
<1>2. /\ At(t) \in Node \ {Root} /\ call[t].base \in Node /\ Below(call[t].base, At(t))
      /\ p \in Node
      BY <1>1, Inside
<1>3. /\ ~Below(At(t), p) /\ \A d \in Node : Below(d, At(t)) <=> d = At(t) \/ Below(d, p)
      BY <1>2, Parents
<1>4. call'[t].at = p
      OBVIOUS
<1>5. \A c \in Node : Rank[c] \in Nat
      BY TreeAssumption
<1>6. \A c \in Node \ {Root} : Parent[c] = p /\ Rank[c] = Rank[At(t)] => c = At(t)
      BY <1>2, TreeAssumption
<1> HIDE DEF p
<1>7. Stop(t)' = p /\ At(t)' = p /\ pc'[t] # "enter"
      BY <1>4 DEF Stop, At
<1>8. Below(call[t].base, p)
      BY <1>2, <1>3
<1>9. ASSUME NEW d \in call[t].owed, Below(call[t].base, d), Below(d, p)
      PROVE  d \in call[t].visited
  <2>1. d \in Node /\ d # At(t) /\ Below(d, At(t))
        BY <1>2, <1>3, <1>9, CallOf DEF IInv
  <2> QED BY <1>1, <1>9, <2>1 DEF ThreadOK, Finished, OnWay
<1>10. ASSUME NEW c \in Node \ {Root}, NEW d \in Node \ {Root},
              Below(call[t].base, d), Below(d, p), d # call[t].base,
              Parent[c] = Parent[d], Rank[c] < Rank[d]
       PROVE  Cleared(t, c)
  <2>1. Below(d, At(t))
        BY <1>3, <1>10
  <2> QED BY <1>1, <1>10, <2>1 DEF ThreadOK, Finished, OnWay
<1>11. ASSUME NEW c \in Child(p), Rank[c] < Rank[At(t)] + 1 PROVE Cleared(t, c)
  <2>1. c \in Node \ {Root} /\ Parent[c] = p
        BY DEF Child
  <2>2. Rank[c] < Rank[At(t)] \/ Rank[c] = Rank[At(t)]
    <3>1. Rank[c] \in Nat /\ Rank[At(t)] \in Nat
          BY <1>2, <1>5, <2>1
    <3> QED BY <1>11, <3>1
  <2>3. CASE Rank[c] = Rank[At(t)]
        BY <1>6, <2>1, <2>3
  <2>4. CASE Rank[c] < Rank[At(t)]
    <3>1. Below(At(t), At(t)) /\ Parent[c] = Parent[At(t)]
          BY <1>2, <2>1, BelowOrder DEF p
    <3> QED BY <1>1, <1>2, <2>1, <2>4, <3>1 DEF ThreadOK, Finished, OnWay
  <2> QED BY <2>2, <2>3, <2>4
<1>12. \A c \in Node : Cleared(t, c)' <=> Cleared(t, c)
       BY DEF Cleared
<1>13. \A c \in Child(p) : c \in Node
       BY DEF Child
<1> QED BY <1>7, <1>8, <1>9, <1>10, <1>11, <1>12, <1>13 DEF Finished, OnWay

\* A save or a load comes to its base, or to a child.
LEMMA Visited ==
    ASSUME IInv, NEW t \in Thread, NEW n \in Node, Visit(t, n),
           \/ pc[t] = "enter" /\ n = call[t].base
           \/ pc[t] = "visit" /\ ToCome(t) # {} /\ n = First(ToCome(t))
    PROVE  Kept(t)
<1>1. /\ Types /\ ThreadOK(t) /\ call[t] \in Calls /\ At(t) \in Node /\ call[t].base \in Node
      /\ call[t].visited \subseteq Node /\ call[t].kind \in {"save", "load"}
      BY CallOf DEF IInv, ThreadOK, Walks
<1>2. There(n) /\ (pc[t] = "visit" => Traversing(t) /\ n \in Child(At(t)))
  <2>1. pc[t] = "enter" => n = At(t)
        BY <1>1 DEF ThreadOK, Finished
  <2>2. There(At(t))
        BY <1>1 DEF ThreadOK, Stands
  <2> QED BY <2>1, <2>2, Coming DEF Traversing, InTree
<1>3. /\ Lock(t, n) /\ UNCHANGED <<created, born, directories, clash>>
      BY DEF Visit
<1>4. /\ mutex' \in [Node -> Thread \cup {NoThread}]
      /\ \A m \in Node, u \in Thread \ {t} : mutex'[m] = u <=> mutex[m] = u
      /\ Below(call[t].base, n)
      /\ \A m \in Node : mutex'[m] = t <=> Below(call[t].base, m) /\ Below(m, n)
      BY <1>2, <1>3, Locked
<1>5. PICK new \in Calls, label \in {"needed", "visit"} :
         /\ pc' = [pc EXCEPT ![t] = label] /\ call' = [call EXCEPT ![t] = new]
         /\ new.kind = call[t].kind /\ new.base = call[t].base /\ new.owed = call[t].owed
         /\ new.at = n /\ new.from = 0 /\ call[t].visited \subseteq new.visited
         /\ \/ label = "needed" /\ call[t].kind = "save" /\ new.asked = n
            \/ label = "visit" /\ call[t].kind = "load" /\ n \in new.visited
  <2>1. CASE call[t].kind = "load"
    <3> DEFINE new == [call[t] EXCEPT !.at = n, !.from = 0, !.visited = @ \cup {n}]
    <3>1. /\ new \in Calls /\ new.kind = call[t].kind /\ new.base = call[t].base
          /\ new.owed = call[t].owed /\ new.at = n /\ new.from = 0
          /\ new.visited = call[t].visited \cup {n}
          BY <1>1 DEF Calls
    <3>2. call' = [call EXCEPT ![t] = new]
          BY <1>1, <2>1 DEF Visit, Types
    <3>3. pc' = [pc EXCEPT ![t] = "visit"]
          BY <2>1 DEF Visit, Goto
    <3> HIDE DEF new
    <3> QED BY <2>1, <3>1, <3>2, <3>3
  <2>2. CASE call[t].kind = "save"
    <3> DEFINE new == [call[t] EXCEPT !.at = n, !.from = 0, !.asked = n]
    <3>1. /\ new \in Calls /\ new.kind = call[t].kind /\ new.base = call[t].base
          /\ new.owed = call[t].owed /\ new.at = n /\ new.from = 0 /\ new.asked = n
          /\ new.visited = call[t].visited
          BY <1>1 DEF Calls
    <3>2. call' = [call EXCEPT ![t] = new]
          BY <1>1, <2>2 DEF Visit, Types
    <3>3. pc' = [pc EXCEPT ![t] = "needed"]
          BY <2>2 DEF Visit, Goto
    <3> HIDE DEF new
    <3> QED BY <2>2, <3>1, <3>2, <3>3
  <2> QED BY <1>1, <2>1, <2>2
<1>6. /\ Types' /\ Closed' /\ ValuesOK' /\ Frame(t) /\ OwedOK(t)'
      /\ pc'[t] = label /\ call'[t] = new /\ At(t)' = n
      /\ \A m \in Node : There(m)' <=> There(m)
  <2>1. label \in InTree \cup {"insert"} /\ directories' \subseteq Node
        BY <1>1, <1>3 DEF InTree, Types
  <2>2. UNCHANGED <<created, born, clash>> /\ directories \subseteq directories'
        BY <1>3
  <2>3. /\ pc' = [pc EXCEPT ![t] = label] /\ call' = [call EXCEPT ![t] = new]
        /\ new.kind = call[t].kind /\ new.base = call[t].base /\ new.owed = call[t].owed
        /\ new.at = n
        BY <1>5
  <2>4. /\ Types' /\ Closed' /\ ValuesOK' /\ Frame(t) /\ OwedOK(t)'
        /\ pc'[t] = label /\ call'[t] = new /\ At(t)' = new.at
        /\ \A m \in Node : There(m)' <=> There(m)
        BY <1>4, <2>1, <2>2, <2>3, Moved, Zenon
  <2> QED BY <2>3, <2>4
<1>7. Walks(t)'
      BY <1>1, <1>5, <1>6 DEF Walks, Walking, InTree
<1>8. Stands(t)'
      BY <1>2, <1>6 DEF Stands, There
<1>9. Holds(t)'
  <2>1. Held(t)' = {m \in Node : Below(call[t].base, m) /\ Below(m, n)}
        BY <1>5, <1>6 DEF Held
  <2> QED BY <1>4, <1>5, <1>6, <2>1 DEF Holds
<1>10. Asks(t)'
  <2>1. Below(n, n)
        BY BelowOrder
  <2> QED BY <1>4, <1>5, <1>6, <2>1 DEF Asks, Looking
<1>11. Finished(t)'
  <2>1. CASE pc[t] = "enter"
    <3>1. /\ n = call[t].base /\ \A d \in Node : Below(n, d) /\ Below(d, n) => d = n
          BY <2>1, BelowOrder
    <3>2. Stop(t)' = n /\ (Settled(t)' => n \in call'[t].visited)
          BY <1>5, <1>6 DEF Stop, Settled
    <3>3. \A c \in Child(n) : ~(Rank[c] < call'[t].from)
      <4>1. \A c \in Child(n) : Rank[c] \in Nat
            BY TreeAssumption DEF Child
      <4> QED BY <1>5, <1>6, <4>1
    <3>4. \A d \in call'[t].owed : d \in Node
          BY <1>1, <1>5, <1>6, CallOf
    <3> QED BY <1>4, <1>5, <1>6, <3>1, <3>2, <3>3, <3>4 DEF Finished, OnWay
  <2>2. CASE pc[t] = "visit"
        BY <1>5, <1>6, <2>2, WentDown DEF Looking
  <2> QED BY <2>1, <2>2
<1> QED BY <1>6, <1>7, <1>8, <1>9, <1>10, <1>11 DEF Kept, ThreadOK

\* It does so at its beginning, and from node to node.
LEMMA Entered ==
    ASSUME IInv, NEW t \in Thread, Enter(t) \/ VisitChild(t)
    PROVE  Kept(t)
<1>1. call[t].base \in Node /\ (ToCome(t) # {} => First(ToCome(t)) \in Node)
      BY CallOf, Coming DEF IInv
<1>2. CASE Enter(t)
      BY <1>1, <1>2, Visited DEF Enter
<1>3. CASE VisitChild(t)
      BY <1>1, <1>3, Visited DEF VisitChild
<1> QED BY <1>2, <1>3

\* A look goes down to a child.
LEMMA LookedDown ==
    ASSUME IInv, NEW t \in Thread, LookDown(t)
    PROVE  Kept(t)
<1>1. /\ Types /\ ThreadOK(t) /\ call[t] \in Calls /\ At(t) \in Node /\ call[t].base \in Node
      /\ call[t].asked \in Node
      BY CallOf DEF IInv
<1> DEFINE n == First(ToCome(t))
           new == [call[t] EXCEPT !.at = n, !.from = 0]
<1>2. /\ pc[t] \in {"needed", "folder"} /\ ~Here(t) /\ ToCome(t) # {}
      /\ Lock(t, n) /\ call' = [call EXCEPT ![t].at = n, ![t].from = 0]
      /\ UNCHANGED <<created, born, pc, directories, clash>>
      BY DEF LookDown, Looking
<1>3. /\ n \in Node /\ n \in Child(At(t)) /\ There(n) /\ Traversing(t)
      /\ call[t].kind = "save"
      BY <1>1, <1>2, Coming DEF Traversing, InTree, ThreadOK, Walks
<1>4. Below(At(t), n)
      BY <1>3, Parents DEF Child
<1>5. /\ new \in Calls /\ new.kind = call[t].kind /\ new.base = call[t].base
      /\ new.owed = call[t].owed /\ new.at = n /\ new.from = 0 /\ new.asked = call[t].asked
      /\ new.visited = call[t].visited /\ new.bare = call[t].bare
      BY <1>1, <1>3 DEF Calls
<1>6. call' = [call EXCEPT ![t] = new] /\ pc' = [pc EXCEPT ![t] = pc[t]]
      BY <1>1, <1>2 DEF Types
<1>14. new.at = First(ToCome(t))
       OBVIOUS
<1> HIDE DEF n, new
<1>7. /\ mutex' \in [Node -> Thread \cup {NoThread}]
      /\ \A m \in Node, u \in Thread \ {t} : mutex'[m] = u <=> mutex[m] = u
      /\ Below(call[t].base, n)
      /\ \A m \in Node : mutex'[m] = t <=> Below(call[t].base, m) /\ Below(m, n)
      BY <1>2, <1>3, Locked
<1>8. /\ Types' /\ Closed' /\ ValuesOK' /\ Frame(t) /\ OwedOK(t)'
      /\ pc'[t] = pc[t] /\ call'[t] = new /\ At(t)' = n
      /\ \A m \in Node : There(m)' <=> There(m)
  <2>1. pc[t] \in InTree \cup {"insert"} /\ directories' \subseteq Node
        BY <1>1, <1>2 DEF InTree, Types
  <2>2. UNCHANGED <<created, born, clash>> /\ directories \subseteq directories'
        BY <1>2
  <2> QED BY <1>5, <1>6, <1>7, <2>1, <2>2, Moved, Zenon
<1>9. Walks(t)' /\ Stands(t)'
      BY <1>2, <1>3, <1>5, <1>8 DEF Walks, Walking, InTree, Stands, There
<1>10. Holds(t)'
  <2>1. Held(t)' = {m \in Node : Below(call[t].base, m) /\ Below(m, n)}
        BY <1>2, <1>5, <1>8 DEF Held
  <2> QED BY <1>2, <1>7, <1>8, <2>1 DEF Holds
<1>11. Asks(t)'
  <2>1. Asks(t) /\ Below(call[t].asked, At(t))
        BY <1>1, <1>2 DEF ThreadOK, Asks, Looking
  <2>2. Below(call[t].asked, n)
        BY <1>1, <1>3, <1>4, <2>1, BelowOrder
  <2>3. pc[t] = "folder" => Stop(t)' = Stop(t)
        BY <1>5, <1>8 DEF Stop
  <2>4. \A c \in Child(Stop(t)) : There(c) => There(c)'
        BY <1>8 DEF Child
  <2> QED BY <1>2, <1>5, <1>8, <2>1, <2>2, <2>3, <2>4 DEF Asks, Looking
<1>12. CASE pc[t] = "needed"
  <2>1. Finished(t)'
        BY <1>2, <1>5, <1>8, <1>12, <1>14, WentDown
  <2> QED BY <1>8, <1>9, <1>10, <1>11, <2>1 DEF Kept, ThreadOK
<1>13. CASE pc[t] = "folder"
  <2>1. Finished(t)'
    <3>1. Stop(t)' = Stop(t) /\ (Settled(t)' <=> Settled(t))
          BY <1>5, <1>8, <1>13 DEF Stop, Settled
    <3>2. \A c \in Node : Cleared(t, c)' <=> Cleared(t, c)
          BY <1>5, <1>8 DEF Cleared
    <3>3. \A d \in Node : OnWay(t, d)' <=> OnWay(t, d)
          BY <1>5, <1>8, <3>1 DEF OnWay
    <3>4. call[t].owed \subseteq Node
          BY <1>1, CallOf
    <3> QED BY <1>1, <1>3, <1>5, <1>8, <1>13, <3>1, <3>2, <3>3, <3>4
               DEF ThreadOK, Finished
  <2> QED BY <1>8, <1>9, <1>10, <1>11, <2>1 DEF Kept, ThreadOK
<1> QED BY <1>2, <1>12, <1>13

\* Asking about directories does not take it from the node it saves.
LEMMA StopStays ==
    ASSUME IInv, NEW t \in Thread, pc[t] \in {"folders", "folder"},
           pc'[t] \in {"folders", "folder"}, Stop(t)' = Stop(t),
           call'[t].base = call[t].base, call'[t].owed = call[t].owed,
           call'[t].visited = call[t].visited
    PROVE  Finished(t)'
<1>1. Finished(t) /\ call[t].owed \subseteq Node /\ (Traversing(t) \/ pc[t] = "save")
      BY CallOf DEF IInv, ThreadOK, Traversing, InTree
<1>2. Settled(t) /\ Settled(t)'
      BY DEF Settled
<1>3. \A c \in Node : Cleared(t, c)' <=> Cleared(t, c)
      BY DEF Cleared
<1>4. \A d \in Node : OnWay(t, d)' <=> OnWay(t, d)
      BY DEF OnWay
<1> QED BY <1>1, <1>2, <1>3, <1>4 DEF Finished

\* A look comes back from a node where there is nothing to save.
LEMMA LookedBack ==
    ASSUME IInv, NEW t \in Thread, LookBack(t)
    PROVE  Kept(t)
<1>1. /\ Types /\ Closed /\ ThreadOK(t) /\ call[t] \in Calls /\ At(t) \in Node
      /\ call[t].base \in Node /\ call[t].asked \in Node
      BY CallOf DEF IInv
<1>2. /\ pc[t] \in {"needed", "folder"} /\ ~Here(t) /\ ToCome(t) = {}
      /\ GiveBack(t, At(t))
      /\ UNCHANGED <<created, born, directories, clash>>
      BY DEF LookBack, Looking
<1>3. /\ Traversing(t) /\ call[t].kind = "save"
      /\ Below(call[t].base, call[t].asked) /\ Below(call[t].asked, At(t))
      /\ pc[t] = "folder" => call[t].asked # call[t].base
      BY <1>1, <1>2 DEF Traversing, InTree, ThreadOK, Walks, Asks, Looking
<1>4. Below(call[t].base, At(t)) /\ Below(At(t), At(t))
      BY <1>1, <1>3, BelowOrder
<1> DEFINE p == Parent[At(t)]
<1>5. /\ mutex' \in [Node -> Thread \cup {NoThread}]
      /\ \A m \in Node, u \in Thread \ {t} : mutex'[m] = u <=> mutex[m] = u
      /\ At(t) = call[t].base => \A m \in Node : mutex'[m] # t
      /\ At(t) # call[t].base =>
            /\ At(t) \in Node \ {Root} /\ p \in Node /\ Below(call[t].base, p)
            /\ \A m \in Node : mutex'[m] = t <=> Below(call[t].base, m) /\ Below(m, p)
      BY <1>1, <1>2, <1>3, <1>4, Given
<1>6. CASE At(t) = call[t].asked /\ pc[t] = "needed" /\ At(t) = call[t].base
  <2>1. End(t)
        BY <1>6 DEF LookBack
  <2>2. Types' /\ ThreadOK(t)' /\ Frame(t)
        BY <1>1, <1>2, <1>5, <1>6, <2>1, Ended DEF Types, Frame, There, HasValues
  <2>3. ValuesOK' /\ Closed'
        BY <1>1, <1>2, <1>5, <1>6, <2>1, Ended, NothingBorn DEF IInv, Closed, There
  <2> QED BY <2>2, <2>3 DEF Kept
<1>7. CASE ~(At(t) = call[t].asked /\ pc[t] = "needed" /\ At(t) = call[t].base)
  <2>1. At(t) # call[t].base
        BY <1>1, <1>2, <1>3, <1>7, BelowOrder
  <2>2. /\ At(t) \in Node \ {Root} /\ p \in Node /\ Below(call[t].base, p)
        /\ \A m \in Node : mutex'[m] = t <=> Below(call[t].base, m) /\ Below(m, p)
        BY <1>5, <2>1
  <2> DEFINE new == [call[t] EXCEPT !.at = p, !.from = Rank[At(t)] + 1]
  <2>3. /\ new \in Calls /\ new.kind = call[t].kind /\ new.base = call[t].base
        /\ new.owed = call[t].owed /\ new.at = p /\ new.from = Rank[At(t)] + 1
        /\ new.asked = call[t].asked
        /\ new.visited = call[t].visited /\ new.bare = call[t].bare
    <3>1. Rank[At(t)] + 1 \in Nat
      <4>1. Rank[At(t)] \in Nat
            BY <1>1, TreeAssumption
      <4> QED BY <4>1
    <3> QED BY <1>1, <2>2, <3>1 DEF Calls
  <2>4. call' = [call EXCEPT ![t] = new]
    <3>1. call' = [call EXCEPT ![t].at = Parent[At(t)], ![t].from = Rank[At(t)] + 1]
          BY <1>2, <1>7, <2>1 DEF LookBack, Back
    <3> QED BY <1>1, <3>1 DEF Types
  <2>13. new.at = Parent[At(t)]
        OBVIOUS
  <2>5. PICK label \in {"needed", "folder", "folders", "visit"} :
           /\ pc' = [pc EXCEPT ![t] = label]
           /\ \/ label = pc[t] /\ At(t) # call[t].asked
              \/ label = "folders" /\ pc[t] = "folder" /\ At(t) = call[t].asked
              \/ label = "visit" /\ pc[t] = "needed"
    <3>1. CASE At(t) # call[t].asked
      <4>1. pc' = [pc EXCEPT ![t] = pc[t]]
            BY <1>1, <3>1 DEF LookBack, Types
      <4> QED BY <1>2, <3>1, <4>1
    <3>2. CASE At(t) = call[t].asked /\ pc[t] = "folder"
          BY <3>2 DEF LookBack, Goto
    <3>3. CASE At(t) = call[t].asked /\ pc[t] = "needed"
          BY <2>1, <3>3 DEF LookBack, Goto
    <3> QED BY <1>2, <3>1, <3>2, <3>3
  <2> HIDE DEF new, p
  <2>6. /\ Types' /\ Closed' /\ ValuesOK' /\ Frame(t) /\ OwedOK(t)'
        /\ pc'[t] = label /\ call'[t] = new /\ At(t)' = new.at
        /\ \A m \in Node : There(m)' <=> There(m)
    <3>1. label \in InTree \cup {"insert"} /\ directories' \subseteq Node
          BY <1>1, <1>2 DEF InTree, Types
    <3>2. UNCHANGED <<created, born, clash>> /\ directories \subseteq directories'
          BY <1>2
    <3>3. pc' = [pc EXCEPT ![t] = label]
          BY <2>5
    <3> QED BY <1>5, <2>3, <2>4, <3>1, <3>2, <3>3, Moved, Zenon
  <2>7. Walks(t)'
        BY <1>3, <2>3, <2>6 DEF Walks, Walking, InTree
  <2>8. Stands(t)'
    <3>1. There(At(t)) /\ Below(p, At(t))
          BY <1>1, <1>2, <1>3, <2>2, Parents DEF ThreadOK, Stands, p
    <3>2. There(p)
          BY <1>1, <2>2, <3>1 DEF Closed
    <3> QED BY <2>2, <2>3, <2>6, <3>2 DEF Stands, There
  <2>9. Holds(t)'
    <3>1. Held(t)' = {m \in Node : Below(call[t].base, m) /\ Below(m, p)}
          BY <2>3, <2>6 DEF Held
    <3> QED BY <2>2, <2>6, <3>1 DEF Holds
  <2>10. pc[t] = "folder" => Stop(t)' = Stop(t)
    <3>1. pc[t] = "folder" /\ label = "folder" => Stop(t)' = Stop(t)
          BY <2>3, <2>6 DEF Stop
    <3>2. pc[t] = "folder" /\ label = "folders" => Stop(t)' = Stop(t)
          BY <2>3, <2>5, <2>6 DEF Stop, p
    <3> QED BY <2>5, <3>1, <3>2
  <2>11. Asks(t)'
    <3>1. At(t) # call[t].asked => Below(call[t].asked, p)
          BY <1>1, <1>3, <2>2, Parents DEF p
    <3>2. /\ Looking(t)' => At(t) # call[t].asked /\ pc'[t] = pc[t]
          /\ pc'[t] \in {"folders", "folder"} => pc[t] = "folder"
          BY <1>2, <2>5, <2>6 DEF Looking
    <3>3. pc[t] = "folder" => \A c \in call[t].bare : c \in Child(Stop(t)) /\ There(c)
          BY <1>1 DEF ThreadOK, Asks
    <3>4. \A c \in Child(Stop(t)) : There(c) => There(c)'
          BY <2>6 DEF Child
    <3> QED BY <1>3, <2>3, <2>6, <2>10, <3>1, <3>2, <3>3, <3>4 DEF Asks
  <2>12. Finished(t)'
    <3>1. CASE pc[t] = "needed"
      <4>1. Cleared(t, At(t))
            BY <1>2, <3>1, Complete
      <4>2. pc'[t] \in {"needed", "visit"}
            BY <2>5, <2>6, <3>1
      <4> QED BY <2>1, <2>3, <2>6, <2>13, <3>1, <4>1, <4>2, CameBack
    <3>2. CASE pc[t] = "folder"
      <4>1. pc'[t] \in {"folders", "folder"}
            BY <2>5, <2>6, <3>2
      <4> QED BY <2>3, <2>6, <2>10, <3>2, <4>1, StopStays
    <3> QED BY <1>2, <3>1, <3>2
  <2> QED BY <2>6, <2>7, <2>8, <2>9, <2>11, <2>12 DEF Kept, ThreadOK
<1> QED BY <1>6, <1>7

\* A look has found a value, and all its mutexes are given back.
LEMMA LookedUpFound ==
    ASSUME IInv, NEW t \in Thread, LookFound(t)
    PROVE  Kept(t)
<1> DEFINE n == call[t].asked
<1>1. /\ Types /\ Closed /\ ThreadOK(t) /\ call[t] \in Calls /\ At(t) \in Node
      /\ call[t].base \in Node /\ n \in Node
      BY CallOf DEF IInv
<1>2. /\ pc[t] \in {"needed", "folder"} /\ GiveBack(t, n)
      /\ UNCHANGED <<created, born, clash>>
      BY DEF LookFound, Looking
<1>3. /\ Traversing(t) /\ call[t].kind = "save"
      /\ Below(call[t].base, n) /\ Below(n, At(t))
      /\ pc[t] = "folder" => n # call[t].base
      BY <1>1, <1>2 DEF Traversing, InTree, ThreadOK, Walks, Asks, Looking
<1>4. /\ mutex' \in [Node -> Thread \cup {NoThread}]
      /\ \A m \in Node, u \in Thread \ {t} : mutex'[m] = u <=> mutex[m] = u
      /\ \A m \in Node : mutex'[m] = t <=> Below(call[t].base, m) /\ Below(m, n) /\ m # n
      /\ n # call[t].base =>
            /\ n \in Node \ {Root} /\ Parent[n] \in Node /\ Below(call[t].base, Parent[n])
            /\ \A m \in Node : mutex'[m] = t
                   <=> Below(call[t].base, m) /\ Below(m, Parent[n])
      BY <1>1, <1>2, <1>3, Given
<1>5. There(n)
      BY <1>1, <1>2, <1>3 DEF ThreadOK, Stands, Closed
<1>6. CASE pc[t] = "folder"
  <2> DEFINE p == Parent[n]
             new == [call[t] EXCEPT !.at = p, !.from = Rank[n] + 1]
  <2>1. /\ p \in Node /\ Below(call[t].base, p) /\ Below(p, n)
        /\ \A m \in Node : mutex'[m] = t <=> Below(call[t].base, m) /\ Below(m, p)
        BY <1>3, <1>4, <1>6, Parents
  <2>2. /\ new \in Calls /\ new.kind = call[t].kind /\ new.base = call[t].base
        /\ new.owed = call[t].owed /\ new.at = p
        /\ new.visited = call[t].visited /\ new.bare = call[t].bare
    <3>1. Rank[n] + 1 \in Nat
      <4>1. Rank[n] \in Nat
            BY <1>1, TreeAssumption
      <4> QED BY <4>1
    <3> QED BY <1>1, <2>1, <3>1 DEF Calls
  <2>3. /\ call' = [call EXCEPT ![t].at = Parent[n], ![t].from = Rank[n] + 1]
        /\ pc' = [pc EXCEPT ![t] = "folders"] /\ directories' = directories \cup {n}
        BY <1>6 DEF LookFound, Back, Goto
  <2>4. call' = [call EXCEPT ![t] = new]
        BY <1>1, <2>3 DEF Types
  <2>5. Stop(t) = p
        BY <1>6 DEF Stop
  <2> HIDE DEF new, p
  <2>6. /\ Types' /\ Closed' /\ ValuesOK' /\ Frame(t) /\ OwedOK(t)'
        /\ pc'[t] = "folders" /\ call'[t] = new /\ At(t)' = new.at
        /\ \A m \in Node : There(m)' <=> There(m)
    <3>1. /\ "folders" \in InTree \cup {"insert"}
          /\ directories' \subseteq Node /\ directories \subseteq directories'
          BY <1>1, <2>3 DEF InTree, Types
    <3>2. pc' = [pc EXCEPT ![t] = "folders"]
          BY <2>3
    <3> HIDE DEF n
    <3> QED BY <1>2, <1>4, <2>2, <2>4, <3>1, <3>2, Moved, Zenon
  <2>7. Walks(t)'
        BY <1>3, <2>2, <2>6 DEF Walks, Walking, InTree
  <2>8. Stands(t)'
    <3>1. There(p)
          BY <1>1, <1>5, <2>1 DEF Closed
    <3> QED BY <2>1, <2>2, <2>6, <3>1 DEF Stands, There
  <2>9. Holds(t)'
    <3>1. Held(t)' = {m \in Node : Below(call[t].base, m) /\ Below(m, p)}
          BY <2>2, <2>6 DEF Held
    <3> QED BY <2>1, <2>6, <3>1 DEF Holds
  <2>10. Stop(t)' = Stop(t)
         BY <2>2, <2>5, <2>6 DEF Stop
  <2>11. Asks(t)'
    <3>1. \A c \in call[t].bare : c \in Child(Stop(t)) /\ There(c)
          BY <1>1, <1>6 DEF ThreadOK, Asks
    <3>2. \A c \in Child(Stop(t)) : There(c) => There(c)'
          BY <2>6 DEF Child
    <3> QED BY <2>2, <2>6, <2>10, <3>1, <3>2 DEF Asks, Looking
  <2>12. Finished(t)'
         BY <1>6, <2>2, <2>6, <2>10, StopStays
  <2> QED BY <2>6, <2>7, <2>8, <2>9, <2>11, <2>12 DEF Kept, ThreadOK
<1>7. CASE pc[t] = "needed"
  <2> DEFINE new == [call[t] EXCEPT !.at = n]
  <2>2. /\ new \in Calls /\ new.kind = call[t].kind /\ new.base = call[t].base
        /\ new.owed = call[t].owed /\ new.at = n /\ new.visited = call[t].visited
        BY <1>1 DEF Calls
  <2>3. /\ call' = [call EXCEPT ![t].at = n] /\ pc' = [pc EXCEPT ![t] = "save"]
        /\ directories' = directories
        BY <1>7 DEF LookFound, Goto
  <2>4. call' = [call EXCEPT ![t] = new]
        BY <1>1, <2>3 DEF Types
  <2> HIDE DEF new, n
  <2>6. /\ Types' /\ Closed' /\ ValuesOK' /\ Frame(t) /\ OwedOK(t)'
        /\ pc'[t] = "save" /\ call'[t] = new /\ At(t)' = new.at
        /\ \A m \in Node : There(m)' <=> There(m)
    <3>1. /\ "save" \in InTree \cup {"insert"}
          /\ directories' \subseteq Node /\ directories \subseteq directories'
          BY <1>1, <2>3 DEF InTree, Types
    <3>2. pc' = [pc EXCEPT ![t] = "save"]
          BY <2>3
    <3> QED BY <1>2, <1>4, <2>2, <2>4, <3>1, <3>2, Moved, Zenon
  <2>7. Walks(t)'
        BY <1>3, <2>2, <2>6 DEF Walks, Walking, InTree
  <2>8. Stands(t)'
        BY <1>1, <1>5, <2>2, <2>6 DEF Stands, There
  <2>9. Holds(t)'
    <3>1. Held(t)' = {m \in Node \ {n} : Below(call[t].base, m) /\ Below(m, n)}
          BY <2>2, <2>6 DEF Held
    <3> QED BY <1>4, <2>6, <3>1 DEF Holds
  <2>10. Stop(t)' = n /\ ~Settled(t)'
         BY <2>2, <2>6 DEF Stop, Settled
  <2>11. Asks(t)'
         BY <2>6 DEF Asks, Looking
  <2>12. Finished(t)'
    <3>1. /\ Finished(t) /\ Stop(t) = At(t) /\ call[t].owed \subseteq Node
          BY <1>1, <1>7, CallOf DEF Stop, ThreadOK
    <3>2. ASSUME NEW d \in Node, Below(d, n) PROVE Below(d, At(t)) /\ (d # n => d # At(t))
          BY <1>1, <1>3, <3>2, BelowOrder
    <3>3. \A c \in Node : Cleared(t, c)' <=> Cleared(t, c)
          BY <2>2, <2>6 DEF Cleared
    <3> QED BY <1>3, <2>2, <2>6, <2>10, <3>1, <3>2, <3>3 DEF Finished, OnWay
  <2> QED BY <2>6, <2>7, <2>8, <2>9, <2>11, <2>12 DEF Kept, ThreadOK
<1> QED BY <1>2, <1>6, <1>7


\* A save is at a node with values, or values below, and lists the directories there.
LEMMA NodeSaved ==
    ASSUME IInv, NEW t \in Thread, SaveNode(t)
    PROVE  Kept(t)
<1> DEFINE bare == {c \in Child(At(t)) \ directories : There(c)}
           new == [call[t] EXCEPT !.visited = @ \cup {At(t)}, !.bare = bare]
<1>1. /\ Types /\ ThreadOK(t) /\ call[t] \in Calls /\ At(t) \in Node /\ call[t].base \in Node
      /\ call[t].visited \subseteq Node
      BY CallOf DEF IInv
<1>2. /\ pc[t] = "save" /\ Lock(t, At(t)) /\ call[t].kind = "save"
      /\ UNCHANGED <<created, born, clash>>
      BY <1>1 DEF SaveNode, ThreadOK, Walks, InTree
<1>3. /\ bare \subseteq Node /\ \A c \in bare : c \in Child(At(t)) /\ There(c)
      BY DEF Child
<1>4. /\ new \in Calls /\ new.kind = call[t].kind /\ new.base = call[t].base
      /\ new.owed = call[t].owed /\ new.at = At(t) /\ new.bare = bare
      /\ new.visited = call[t].visited \cup {At(t)}
      BY <1>1, <1>3 DEF Calls, At
<1>5. /\ call' = [call EXCEPT ![t] = new]
      /\ directories \subseteq directories' /\ directories' \subseteq Node
      /\ pc' = [pc EXCEPT ![t] = "folders"]
  <2>1. call' = [call EXCEPT ![t].visited = @ \cup {At(t)},
                             ![t].bare = {c \in Child(At(t)) \ directories : There(c)}]
        BY DEF SaveNode
  <2>2. call' = [call EXCEPT ![t] = new]
        BY <1>1, <2>1 DEF Types
  <2>3. directories' = directories \cup {n \in Node : Below(n, At(t))}
        BY DEF SaveNode
  <2>4. pc' = [pc EXCEPT ![t] = "folders"]
        BY DEF SaveNode, Goto
  <2> QED BY <1>1, <2>2, <2>3, <2>4 DEF Types
<1> HIDE DEF new, bare
<1>6. /\ mutex' \in [Node -> Thread \cup {NoThread}]
      /\ \A m \in Node, u \in Thread \ {t} : mutex'[m] = u <=> mutex[m] = u
      /\ Below(call[t].base, At(t))
      /\ \A m \in Node : mutex'[m] = t <=> Below(call[t].base, m) /\ Below(m, At(t))
      BY <1>1, <1>2, Locked
<1>7. /\ Types' /\ Closed' /\ ValuesOK' /\ Frame(t) /\ OwedOK(t)'
      /\ pc'[t] = "folders" /\ call'[t] = new /\ At(t)' = new.at
      /\ \A m \in Node : There(m)' <=> There(m)
  <2>1. "folders" \in InTree \cup {"insert"}
        BY DEF InTree
  <2> QED BY <1>2, <1>4, <1>5, <1>6, <2>1, Moved, Zenon
<1>8. Walks(t)'
      BY <1>2, <1>4, <1>7 DEF Walks, Walking, InTree
<1>9. Stands(t)'
      BY <1>1, <1>2, <1>4, <1>7 DEF ThreadOK, Stands, There
<1>10. Holds(t)'
  <2>1. Held(t)' = {m \in Node : Below(call[t].base, m) /\ Below(m, At(t))}
        BY <1>4, <1>7 DEF Held
  <2> QED BY <1>6, <1>7, <2>1 DEF Holds
<1>11. Stop(t) = At(t) /\ Stop(t)' = At(t) /\ At(t)' = At(t)
       BY <1>2, <1>4, <1>7 DEF Stop
<1>12. Asks(t)'
  <2>1. \A c \in bare : c \in Child(At(t)) /\ There(c)'
        BY <1>3, <1>7 DEF Child
  <2> QED BY <1>4, <1>7, <1>11, <2>1 DEF Asks, Looking
<1>13. Finished(t)'
  <2>1. Finished(t)
        BY <1>1 DEF ThreadOK
  <2>2. \A c \in Node : Cleared(t, c) => Cleared(t, c)'
        BY <1>4, <1>7 DEF Cleared
  <2>3. \A d \in Node : OnWay(t, d)' <=> OnWay(t, d)
        BY <1>4, <1>7, <1>11 DEF OnWay
  <2>4. \A d \in call[t].owed : OnWay(t, d) => d \in new.visited
    <3>1. \A d \in call[t].owed : OnWay(t, d) /\ d # At(t) => d \in call[t].visited
          BY <1>2, <1>11, <2>1 DEF Finished
    <3> QED BY <1>4, <3>1
  <2>5. call[t].owed \subseteq Node
        BY <1>1, CallOf
  <2> QED BY <1>2, <1>4, <1>6, <1>7, <1>11, <2>1, <2>2, <2>3, <2>4, <2>5 DEF Finished
<1> QED BY <1>7, <1>8, <1>9, <1>10, <1>12, <1>13 DEF Kept, ThreadOK

\* A save throws.
LEMMA Thrown ==
    ASSUME IInv, NEW t \in Thread, SaveThrows(t)
    PROVE  Kept(t)
<1>1. Types /\ ValuesOK /\ Closed /\ call[t].base \in Node
      BY CallOf DEF IInv
<1>2. /\ pc[t] = "folders" /\ GiveBack(t, call[t].base) /\ End(t)
      /\ UNCHANGED <<created, born, directories, clash>>
      BY DEF SaveThrows
<1>3. /\ mutex' \in [Node -> Thread \cup {NoThread}]
      /\ \A n \in Node, u \in Thread \ {t} : mutex'[n] = u <=> mutex[n] = u
      /\ \A n \in Node : mutex'[n] # t
  <2>1. Traversing(t)
        BY <1>2 DEF Traversing, InTree
  <2>2. Below(call[t].base, call[t].base) /\ Below(call[t].base, At(t))
        BY <1>1, <2>1, Inside, BelowOrder
  <2> QED BY <1>1, <1>2, <2>1, <2>2, Given
<1>4. Types' /\ ThreadOK(t)' /\ Frame(t)
      BY <1>1, <1>2, <1>3, Ended DEF Types, Frame, There, HasValues
<1>5. ValuesOK' /\ Closed'
      BY <1>1, <1>2, <1>3, Ended, NothingBorn DEF Closed, There
<1> QED BY <1>4, <1>5 DEF Kept

\* A save asks whether a child gets a directory.
LEMMA FolderAsked ==
    ASSUME IInv, NEW t \in Thread, AskFolder(t)
    PROVE  Kept(t)
<1> DEFINE n == First(call[t].bare)
           new == [call[t] EXCEPT !.at = n, !.from = 0, !.asked = n, !.bare = @ \ {n}]
<1>1. /\ Types /\ ThreadOK(t) /\ call[t] \in Calls /\ At(t) \in Node /\ call[t].base \in Node
      /\ call[t].bare \subseteq Node
      BY CallOf DEF IInv
<1>2. /\ pc[t] = "folders" /\ call[t].bare # {} /\ Lock(t, n)
      /\ call' = [call EXCEPT ![t].at = n, ![t].from = 0, ![t].asked = n, ![t].bare = @ \ {n}]
      /\ pc' = [pc EXCEPT ![t] = "folder"]
      /\ UNCHANGED <<created, born, directories, clash>>
      BY DEF AskFolder, Goto
<1>3. /\ Traversing(t) /\ Stop(t) = At(t) /\ call[t].kind = "save"
      /\ \A c \in call[t].bare : c \in Child(At(t)) /\ There(c)
      BY <1>1, <1>2 DEF Traversing, InTree, Stop, ThreadOK, Walks, Asks
<1>4. n \in call[t].bare
      BY <1>1, <1>2, Firsts
<1>5. /\ n \in Node \ {Root} /\ n \in Child(At(t)) /\ There(n) /\ Parent[n] = At(t)
      BY <1>3, <1>4 DEF Child
<1>6. /\ new \in Calls /\ new.kind = call[t].kind /\ new.base = call[t].base
      /\ new.owed = call[t].owed /\ new.at = n /\ new.asked = n
      /\ new.visited = call[t].visited /\ new.bare \subseteq call[t].bare
      BY <1>1, <1>5 DEF Calls
<1>7. call' = [call EXCEPT ![t] = new]
      BY <1>1, <1>2 DEF Types
<1> HIDE DEF new, n
<1>8. /\ mutex' \in [Node -> Thread \cup {NoThread}]
      /\ \A m \in Node, u \in Thread \ {t} : mutex'[m] = u <=> mutex[m] = u
      /\ Below(call[t].base, n)
      /\ \A m \in Node : mutex'[m] = t <=> Below(call[t].base, m) /\ Below(m, n)
      BY <1>2, <1>3, <1>5, Locked
<1>9. /\ Types' /\ Closed' /\ ValuesOK' /\ Frame(t) /\ OwedOK(t)'
      /\ pc'[t] = "folder" /\ call'[t] = new /\ At(t)' = new.at
      /\ \A m \in Node : There(m)' <=> There(m)
  <2>1. "folder" \in InTree \cup {"insert"} /\ directories' \subseteq Node
        BY <1>1, <1>2 DEF InTree, Types
  <2>2. UNCHANGED <<created, born, clash>> /\ directories \subseteq directories'
        BY <1>2
  <2>3. pc' = [pc EXCEPT ![t] = "folder"]
        BY <1>2
  <2> QED BY <1>6, <1>7, <1>8, <2>1, <2>2, <2>3, Moved, Zenon
<1>10. Walks(t)' /\ Stands(t)'
       BY <1>3, <1>5, <1>6, <1>9 DEF Walks, Walking, InTree, Stands, There
<1>11. Holds(t)'
  <2>1. Held(t)' = {m \in Node : Below(call[t].base, m) /\ Below(m, n)}
        BY <1>6, <1>9 DEF Held
  <2> QED BY <1>8, <1>9, <2>1 DEF Holds
<1>12. Stop(t)' = Stop(t)
       BY <1>3, <1>5, <1>6, <1>9 DEF Stop
<1>13. Asks(t)'
  <2>1. Below(n, n)
        BY <1>5, BelowOrder
  <2>2. n # call[t].base
    <3>1. Below(call[t].base, At(t)) /\ ~Below(n, At(t))
          BY <1>3, <1>5, Inside, Parents
    <3> QED BY <3>1
  <2>3. \A c \in call[t].bare : c \in Child(Stop(t)) /\ There(c)'
        BY <1>3, <1>9 DEF Child
  <2> QED BY <1>6, <1>8, <1>9, <1>12, <2>1, <2>2, <2>3 DEF Asks, Looking
<1>14. Finished(t)'
       BY <1>2, <1>6, <1>9, <1>12, StopStays
<1> QED BY <1>9, <1>10, <1>11, <1>13, <1>14 DEF Kept, ThreadOK

\* A save writes the values, and goes on to the children.
LEMMA ValuesSaved ==
    ASSUME IInv, NEW t \in Thread, SaveValues(t)
    PROVE  Kept(t)
<1> DEFINE new == [call[t] EXCEPT !.from = 0]
<1>1. /\ Types /\ ThreadOK(t) /\ call[t] \in Calls /\ At(t) \in Node /\ call[t].base \in Node
      /\ call[t].owed \subseteq Node
      BY CallOf DEF IInv
<1>2. /\ pc[t] = "folders" /\ call' = [call EXCEPT ![t].from = 0]
      /\ pc' = [pc EXCEPT ![t] = "visit"]
      /\ UNCHANGED <<created, mutex, born, directories, clash>>
      BY DEF SaveValues, Goto
<1>3. Traversing(t) /\ Stop(t) = At(t) /\ call[t].kind = "save" /\ Settled(t)
      BY <1>1, <1>2 DEF Traversing, InTree, Stop, ThreadOK, Walks, Settled
<1>4. /\ new \in Calls /\ new.kind = call[t].kind /\ new.base = call[t].base
      /\ new.owed = call[t].owed /\ new.at = At(t) /\ new.from = 0
      /\ new.visited = call[t].visited
      BY <1>1 DEF Calls, At
<1>5. call' = [call EXCEPT ![t] = new]
      BY <1>1, <1>2 DEF Types
<1> HIDE DEF new
<1>6. /\ Types' /\ Closed' /\ ValuesOK' /\ Frame(t) /\ OwedOK(t)'
      /\ pc'[t] = "visit" /\ call'[t] = new /\ At(t)' = new.at
      /\ \A m \in Node : There(m)' <=> There(m)
  <2>1. /\ "visit" \in InTree \cup {"insert"} /\ directories' \subseteq Node
        /\ mutex' \in [Node -> Thread \cup {NoThread}]
        BY <1>1, <1>2 DEF InTree, Types
  <2>2. UNCHANGED <<created, born, clash>> /\ directories \subseteq directories'
        BY <1>2
  <2>3. pc' = [pc EXCEPT ![t] = "visit"]
        BY <1>2
  <2>4. \A m \in Node, u \in Thread \ {t} : mutex'[m] = u <=> mutex[m] = u
        BY <1>2
  <2> QED BY <1>4, <1>5, <2>1, <2>2, <2>3, <2>4, Moved, Zenon
<1>7. Walks(t)' /\ Stands(t)'
      BY <1>1, <1>2, <1>3, <1>4, <1>6 DEF ThreadOK, Walks, Walking, InTree, Stands, There
<1>8. Holds(t)'
  <2>1. Held(t)' = Held(t)
        BY <1>2, <1>4, <1>6 DEF Held
  <2> QED BY <1>1, <1>2, <1>6, <2>1 DEF ThreadOK, Holds
<1>9. Asks(t)'
      BY <1>6 DEF Asks, Looking
<1>10. Finished(t)'
  <2>1. Stop(t)' = Stop(t)
        BY <1>3, <1>4, <1>6 DEF Stop
  <2>2. \A c \in Node : Cleared(t, c)' <=> Cleared(t, c)
        BY <1>4, <1>6 DEF Cleared
  <2>3. \A d \in Node : OnWay(t, d)' <=> OnWay(t, d)
        BY <1>4, <1>6, <2>1 DEF OnWay
  <2>4. \A c \in Node : Rank[c] \in Nat
        BY TreeAssumption
  <2>5. \A c \in Child(At(t)') : ~(Rank[c] < call'[t].from)
        BY <1>4, <1>6, <2>4 DEF Child
  <2> QED BY <1>1, <1>3, <1>4, <1>6, <2>1, <2>2, <2>3, <2>5 DEF ThreadOK, Finished
<1> QED BY <1>6, <1>7, <1>8, <1>9, <1>10 DEF Kept, ThreadOK

\* A load is about to make a child that has a directory.
LEMMA ChildLoaded ==
    ASSUME IInv, NEW t \in Thread, LoadChild(t)
    PROVE  Kept(t)
<1>1. /\ Types /\ ThreadOK(t) /\ call[t] \in Calls /\ At(t) \in Node /\ call[t].base \in Node
      BY CallOf DEF IInv
<1>2. PICK d \in Missing(At(t)) : call' = [call EXCEPT ![t].rest = <<d>>]
      BY DEF LoadChild
<1>3. /\ pc[t] = "visit" /\ call[t].kind = "load" /\ pc' = [pc EXCEPT ![t] = "insert"]
      /\ UNCHANGED <<created, mutex, born, directories, clash>>
      BY DEF LoadChild, Goto
<1>4. Traversing(t) /\ Stop(t) = At(t) /\ Settled(t)
      BY <1>3 DEF Traversing, InTree, Stop, Settled
<1>5. d \in Node \ {Root} /\ Parent[d] = At(t) /\ ~There(d)
      BY DEF Missing, Child
<1> DEFINE new == [call[t] EXCEPT !.rest = <<d>>]
<1>6. /\ new \in Calls /\ new.kind = call[t].kind /\ new.base = call[t].base
      /\ new.at = At(t) /\ new.visited = call[t].visited /\ new.owed = call[t].owed
      /\ new.rest = <<d>> /\ new.from = call[t].from
  <2>1. <<d>> \in Seq(Node)
        BY <1>5
  <2> QED BY <1>1, <2>1 DEF Calls, At
<1>7. call' = [call EXCEPT ![t] = new]
      BY <1>1, <1>2 DEF Types
<1> HIDE DEF new
<1>8. /\ Types' /\ Closed' /\ ValuesOK' /\ Frame(t) /\ OwedOK(t)'
      /\ pc'[t] = "insert" /\ call'[t] = new /\ At(t)' = new.at
      /\ \A m \in Node : There(m)' <=> There(m)
  <2>1. /\ "insert" \in InTree \cup {"insert"} /\ directories' \subseteq Node
        /\ mutex' \in [Node -> Thread \cup {NoThread}]
        BY <1>1, <1>3 DEF Types
  <2>2. UNCHANGED <<created, born, clash>> /\ directories \subseteq directories'
        BY <1>3
  <2>3. pc' = [pc EXCEPT ![t] = "insert"]
        BY <1>3
  <2>4. \A m \in Node, u \in Thread \ {t} : mutex'[m] = u <=> mutex[m] = u
        BY <1>3
  <2> QED BY <1>6, <1>7, <2>1, <2>2, <2>3, <2>4, Moved, Zenon
<1>9. Target(t)' = d
  <2>1. Rest(t)' = <<d>>
        BY <1>6, <1>8 DEF Rest
  <2>2. Head(<<d>>) = d /\ <<d>> # <<>>
        OBVIOUS
  <2> QED BY <2>1, <2>2 DEF Target
<1>10. Walks(t)' /\ Stands(t)'
       BY <1>1, <1>3, <1>6, <1>8 DEF ThreadOK, Walks, Walking, InTree, Stands, There
<1>11. Holds(t)'
  <2>1. Held(t)' = Held(t)
        BY <1>3, <1>6, <1>8 DEF Held, Walking
  <2>2. \A n \in Node : mutex[n] = t <=> n \in Held(t)
        BY <1>1 DEF ThreadOK, Holds
  <2> QED BY <1>3, <1>5, <1>6, <1>8, <1>9, <2>1, <2>2 DEF Holds, There
<1>12. Asks(t)'
       BY <1>8 DEF Asks, Looking
<1>13. Finished(t)'
  <2>1. Stop(t)' = Stop(t) /\ At(t)' = At(t)
        BY <1>4, <1>6, <1>8 DEF Stop
  <2>2. \A c \in Node : Cleared(t, c)' <=> Cleared(t, c)
        BY <1>6, <1>8 DEF Cleared
  <2>3. \A n \in Node : OnWay(t, n)' <=> OnWay(t, n)
        BY <1>6, <1>8, <2>1 DEF OnWay
  <2>4. call[t].owed \subseteq Node /\ \A c \in Child(At(t)) : c \in Node
        BY <1>1, CallOf DEF Child
  <2> QED BY <1>1, <1>3, <1>4, <1>6, <1>8, <2>1, <2>2, <2>3, <2>4 DEF ThreadOK, Finished
<1> QED BY <1>8, <1>10, <1>11, <1>12, <1>13 DEF Kept, ThreadOK

\* A save or a load leaves a node, and gives its mutex back.
LEMMA Left ==
    ASSUME IInv, NEW t \in Thread, Leave(t)
    PROVE  Kept(t)
<1>1. /\ Types /\ Closed /\ ValuesOK /\ ThreadOK(t) /\ call[t] \in Calls /\ At(t) \in Node
      /\ call[t].base \in Node
      BY CallOf DEF IInv
<1>2. /\ pc[t] = "visit" /\ Missing(At(t)) = {} /\ (Ready(t) => ToCome(t) = {})
      /\ GiveBack(t, At(t))
      /\ UNCHANGED <<created, born, directories, clash>>
      BY DEF Leave
<1>3. Traversing(t) /\ call[t].kind \in {"save", "load"} /\ ~(Looking(t) /\ Here(t))
      BY <1>1, <1>2 DEF Traversing, InTree, ThreadOK, Walks, Looking
<1>4. Below(call[t].base, At(t)) /\ Below(At(t), At(t))
      BY <1>1, <1>3, Inside, BelowOrder
<1>5. /\ mutex' \in [Node -> Thread \cup {NoThread}]
      /\ \A m \in Node, u \in Thread \ {t} : mutex'[m] = u <=> mutex[m] = u
      /\ At(t) = call[t].base => \A m \in Node : mutex'[m] # t
      /\ At(t) # call[t].base =>
            /\ At(t) \in Node \ {Root} /\ Parent[At(t)] \in Node
            /\ Below(call[t].base, Parent[At(t)])
            /\ \A m \in Node : mutex'[m] = t
                   <=> Below(call[t].base, m) /\ Below(m, Parent[At(t)])
      BY <1>1, <1>2, <1>3, <1>4, Given
<1>6. CASE At(t) = call[t].base
  <2>1. End(t)
        BY <1>6 DEF Leave
  <2>2. Types' /\ ThreadOK(t)' /\ Frame(t)
        BY <1>1, <1>2, <1>5, <1>6, <2>1, Ended DEF Types, Frame, There, HasValues
  <2>3. ValuesOK' /\ Closed'
        BY <1>1, <1>2, <1>5, <1>6, <2>1, Ended, NothingBorn DEF Closed, There
  <2> QED BY <2>2, <2>3 DEF Kept
<1>7. CASE At(t) # call[t].base
  <2> DEFINE p == Parent[At(t)]
             new == [call[t] EXCEPT !.at = p, !.from = Rank[At(t)] + 1]
  <2>1. /\ At(t) \in Node \ {Root} /\ p \in Node /\ Below(call[t].base, p)
        /\ \A m \in Node : mutex'[m] = t <=> Below(call[t].base, m) /\ Below(m, p)
        BY <1>5, <1>7
  <2>2. /\ new \in Calls /\ new.kind = call[t].kind /\ new.base = call[t].base
        /\ new.owed = call[t].owed /\ new.at = p /\ new.from = Rank[At(t)] + 1
        /\ new.visited = call[t].visited
    <3>1. Rank[At(t)] + 1 \in Nat
      <4>1. Rank[At(t)] \in Nat
            BY <1>1, TreeAssumption
      <4> QED BY <4>1
    <3> QED BY <1>1, <2>1, <3>1 DEF Calls
  <2>3. call' = [call EXCEPT ![t] = new] /\ pc' = [pc EXCEPT ![t] = "visit"]
    <3>1. /\ call' = [call EXCEPT ![t].at = Parent[At(t)], ![t].from = Rank[At(t)] + 1]
          /\ pc' = pc
          BY <1>7 DEF Leave, Back
    <3> QED BY <1>1, <1>2, <3>1 DEF Types
  <2>4. new.at = Parent[At(t)]
        OBVIOUS
  <2> HIDE DEF new, p
  <2>5. /\ Types' /\ Closed' /\ ValuesOK' /\ Frame(t) /\ OwedOK(t)'
        /\ pc'[t] = "visit" /\ call'[t] = new /\ At(t)' = new.at
        /\ \A m \in Node : There(m)' <=> There(m)
    <3>1. "visit" \in InTree \cup {"insert"} /\ directories' \subseteq Node
          BY <1>1, <1>2 DEF InTree, Types
    <3>2. UNCHANGED <<created, born, clash>> /\ directories \subseteq directories'
          BY <1>2
    <3> QED BY <1>5, <2>2, <2>3, <3>1, <3>2, Moved, Zenon
  <2>6. Walks(t)'
        BY <1>3, <2>2, <2>5 DEF Walks, Walking, InTree
  <2>7. Stands(t)'
    <3>1. There(At(t)) /\ Below(p, At(t))
          BY <1>1, <1>2, <1>3, <2>1, Parents DEF ThreadOK, Stands, p
    <3>2. There(p)
          BY <1>1, <2>1, <3>1 DEF Closed
    <3> QED BY <2>1, <2>2, <2>5, <3>2 DEF Stands, There
  <2>8. Holds(t)'
    <3>1. Held(t)' = {m \in Node : Below(call[t].base, m) /\ Below(m, p)}
          BY <2>2, <2>5 DEF Held
    <3> QED BY <2>1, <2>5, <3>1 DEF Holds
  <2>9. Asks(t)'
        BY <2>5 DEF Asks, Looking
  <2>10. Finished(t)'
    <3>1. Cleared(t, At(t))
          BY <1>2, <1>3, Complete
    <3> QED BY <1>2, <1>7, <2>2, <2>4, <2>5, <3>1, CameBack
  <2> QED BY <2>5, <2>6, <2>7, <2>8, <2>9, <2>10 DEF Kept, ThreadOK
<1> QED BY <1>6, <1>7

-----------------------------------------------------------------------------
(* The theorems *)

\* A step of any thread.
LEMMA StepKeeps ==
    ASSUME IInv, NEW t \in Thread,
           CallChild(t) \/ CallNewValue(t) \/ CallSaveOrLoad(t) \/ Step(t)
    PROVE  Kept(t)
<1>1. CASE CallChild(t) \/ CallNewValue(t) \/ CallSaveOrLoad(t)
      BY <1>1, CallsBegin
<1>2. CASE Create(t) \/ Insert(t) \/ LookUp(t) \/ Descend(t) \/ EndChild(t)
      BY <1>2, Creating, Inserted, LookedUp, Descended
<1>3. CASE CheckType(t) \/ CreateValue(t)
      BY <1>3, TypeChecked, ValueCreated
<1>4. CASE LookDown(t) \/ LookBack(t) \/ LookFound(t)
      BY <1>4, LookedDown, LookedBack, LookedUpFound
<1>5. CASE SaveNode(t) \/ SaveThrows(t) \/ AskFolder(t) \/ SaveValues(t)
      BY <1>5, NodeSaved, Thrown, FolderAsked, ValuesSaved
<1>6. CASE Enter(t) \/ LoadChild(t) \/ VisitChild(t) \/ Leave(t)
      BY <1>6, Entered, ChildLoaded, Left
<1> QED BY <1>1, <1>2, <1>3, <1>4, <1>5, <1>6 DEF Step

\* The invariant holds at the start.
LEMMA InitIInv == Init => IInv
<1> SUFFICES ASSUME Init PROVE IInv
    OBVIOUS
<1>1. NoCall \in Calls
      BY TreeAssumption DEF NoCall, Calls
<1>2. PICK known \in SUBSET Node :
         /\ \A n \in known, d \in Node : Below(d, n) => d \in known
         /\ created = [n \in Node |-> IF n \in known THEN 1 ELSE 0]
         /\ born \in [Value -> {0, 1}]
      BY DEF Init
<1>3. \A n \in Node : created[n] \in {0, 1} /\ (There(n) <=> n \in known)
      BY <1>2 DEF There
<1>4. Types
  <2>1. created \in [Node -> {0, 1}] /\ born \in [Value -> Nat]
        BY <1>2, <1>3
  <2>2. mutex \in [Node -> Thread \cup {NoThread}] /\ directories \subseteq Node
        BY TreeAssumption DEF Init
  <2>3. pc \in [Thread -> Labels] /\ call \in [Thread -> Calls] /\ clash \subseteq Value
        BY <1>1 DEF Init, Labels
  <2> QED BY <2>1, <2>2, <2>3 DEF Types
<1>5. Closed
      BY <1>2, <1>3 DEF Closed
<1>6. ValuesOK
  <2>1. \A v \in Value : AboutTo(v) = {} /\ born[v] \in {0, 1}
        BY <1>2 DEF AboutTo, Init
  <2> QED BY <2>1 DEF ValuesOK
<1>7. ASSUME NEW t \in Thread PROVE ThreadOK(t)
  <2>1. pc[t] = "idle" /\ call[t].owed = {} /\ call[t].kind = "none" /\ \A n \in Node : mutex[n] # t
        BY TreeAssumption DEF Init, NoCall
  <2>2. Walks(t) /\ Stands(t) /\ Holds(t) /\ OwedOK(t)
        BY <2>1 DEF Walks, Stands, Holds, Held, OwedOK, InTree
  <2>3. Asks(t) /\ Finished(t)
        BY <2>1 DEF Asks, Looking, Finished, Traversing, InTree
  <2> QED BY <2>2, <2>3 DEF ThreadOK
<1> QED BY <1>4, <1>5, <1>6, <1>7 DEF IInv

\* It is inductive.
LEMMA NextIInv == IInv /\ [Next]_vars => IInv'
<1> SUFFICES ASSUME IInv, [Next]_vars PROVE IInv'
    OBVIOUS
<1>1. ASSUME NEW t \in Thread, CallChild(t) \/ CallNewValue(t) \/ CallSaveOrLoad(t) \/ Step(t)
      PROVE  IInv'
  <2>1. Kept(t) /\ ThreadOK(t)
        BY <1>1, StepKeeps DEF IInv
  <2>2. \A u \in Thread \ {t} : ThreadOK(u)'
        BY <2>1, Others DEF Kept
  <2> QED BY <2>1, <2>2 DEF Kept, IInv
<1>2. ASSUME UNCHANGED vars PROVE IInv'
  <2>1. Types' /\ Closed' /\ ValuesOK'
        BY <1>2 DEF vars, IInv, Types, Closed, ValuesOK, AboutTo, There
  <2>2. ASSUME NEW t \in Thread PROVE ThreadOK(t)'
    <3>1. ThreadOK(t)
          BY DEF IInv
    <3>2. Walks(t)' /\ Stands(t)' /\ Finished(t)'
          BY <1>2, <3>1 DEF vars, ThreadOK, Walks, Stands, Finished, Traversing, OnWay, Settled,
                            Cleared, Stop, There, At, Rest
    <3>3. Holds(t)'
          BY <1>2, <3>1 DEF vars, ThreadOK, Holds, Held, There, At, Rest, Target
    <3>4. OwedOK(t)'
          BY <1>2, <3>1 DEF vars, ThreadOK, OwedOK, Saved, There, HasValues
    <3>5. Asks(t)'
          BY <1>2, <3>1 DEF vars, ThreadOK, Asks, Looking, Stop, There, At
    <3> QED BY <3>2, <3>3, <3>4, <3>5 DEF ThreadOK
  <2> QED BY <2>1, <2>2 DEF IInv
<1> QED BY <1>1, <1>2 DEF Next

LEMMA InductiveInvariant == Spec => []IInv
BY InitIInv, NextIInv, PTL DEF Spec

\* However many threads create overlapping branches, by newChild, newBool and the like or
\* by a load, no node is made twice, so that none is replaced with its values; and a value is
\* made twice only by declarations that overlapped.
THEOREM Creation == Spec => []CreatedOnce
<1>1. IInv => CreatedOnce
  <2> SUFFICES ASSUME IInv PROVE CreatedOnce
      OBVIOUS
  <2>1. \A n \in Node : created[n] <= 1
        BY DEF IInv, Types
  <2>2. ASSUME NEW v \in Value, born[v] > 1 PROVE v \in clash
        BY <2>2 DEF IInv, Types, ValuesOK
  <2> QED BY <2>1, <2>2 DEF CreatedOnce
<1> QED BY <1>1, InductiveInvariant, PTL

\* What VisitsAll says of a step.
VisitsAllStep ==
    \A t \in Thread :
        /\ call[t].kind \in {"save", "load"} /\ pc'[t] = "idle"
        /\ ~(pc[t] = "folders" /\ Missing(At(t)) # {})
        => call[t].owed \subseteq call[t].visited

\* A save that does not throw, and a load, end when they have been to all they owed: whatever
\* order the maps have, whatever is created around them, and however the looks that a save
\* takes before it goes to a node come out.
THEOREM Visiting == Spec => VisitsAll
<1>1. IInv /\ [Next]_vars => VisitsAllStep
  <2> SUFFICES ASSUME IInv, [Next]_vars, NEW t \in Thread,
                      call[t].kind \in {"save", "load"}, pc'[t] = "idle",
                      ~(pc[t] = "folders" /\ Missing(At(t)) # {})
               PROVE  call[t].owed \subseteq call[t].visited
      BY DEF VisitsAllStep
  <2>1. Types /\ ThreadOK(t) /\ call[t] \in Calls
        BY CallOf DEF IInv
  <2>2. CASE pc[t] = "idle"
        BY <2>1, <2>2 DEF ThreadOK, Walks
  <2>3. CASE pc[t] # "idle"
    <3>1. PICK u \in Thread : CallChild(u) \/ CallNewValue(u) \/ CallSaveOrLoad(u) \/ Step(u)
          BY <2>3 DEF Next, vars
    <3>2. u = t
          BY <2>3, <3>1, StepKeeps DEF Kept, Frame
    <3>3. LookBack(t) \/ Leave(t)
      <4>1. ~(CallChild(t) \/ CallNewValue(t) \/ CallSaveOrLoad(t))
            BY <2>3 DEF CallChild, CallNewValue, CallSaveOrLoad, Begin
      <4>2. pc[t] \notin {"walk", "descend", "create"}
            BY <2>1 DEF ThreadOK, Walks, Walking
      <4>3. ~(Create(t) \/ LookUp(t) \/ Descend(t) \/ EndChild(t) \/ CheckType(t)
              \/ CreateValue(t))
            BY <4>2 DEF Create, LookUp, Descend, EndChild, CheckType, CreateValue
      <4>4. \A label : Goto(t, label) => label = "idle"
            BY <2>1 DEF Goto, Types
      <4>5. ~Insert(t)
            BY <2>1, <4>4 DEF Insert, ThreadOK, Walks
      <4>6. ~(Enter(t) \/ VisitChild(t) \/ LookFound(t))
            BY <4>4 DEF Enter, VisitChild, Visit, LookFound
      <4>7. ~(SaveNode(t) \/ SaveThrows(t) \/ AskFolder(t) \/ SaveValues(t) \/ LoadChild(t))
            BY <4>4 DEF SaveNode, SaveThrows, AskFolder, SaveValues, LoadChild
      <4>8. ~LookDown(t)
            BY <2>3 DEF LookDown
      <4> QED BY <3>1, <3>2, <4>1, <4>3, <4>5, <4>6, <4>7, <4>8 DEF Step
    <3>4. /\ pc[t] \in {"needed", "visit"} /\ At(t) = call[t].base
          /\ ~(Looking(t) /\ Here(t))
          /\ pc[t] = "needed" \/ Ready(t) => ToCome(t) = {}
          /\ pc[t] = "visit" => Missing(At(t)) = {}
      <4>1. \A label : Goto(t, label) => label = "idle"
            BY <2>1 DEF Goto, Types
      <4>2. ASSUME LookBack(t)
            PROVE  pc[t] = "needed" /\ At(t) = call[t].base /\ ~Here(t) /\ ToCome(t) = {}
            BY <2>3, <4>1, <4>2 DEF LookBack, Looking
      <4>3. ASSUME Leave(t)
            PROVE  /\ pc[t] = "visit" /\ At(t) = call[t].base /\ Missing(At(t)) = {}
                   /\ Ready(t) => ToCome(t) = {}
            BY <2>3, <4>3 DEF Leave
      <4> QED BY <3>3, <4>2, <4>3 DEF Looking
    <3>5. Cleared(t, At(t))
          BY <3>4, Complete
    <3>6. \A n \in call[t].owed : Below(At(t), n)
          BY <2>1, <3>4 DEF ThreadOK, OwedOK
    <3> QED BY <3>5, <3>6 DEF Cleared
  <2> QED BY <2>2, <2>3
<1> QED BY <1>1, InductiveInvariant, PTL DEF Spec, VisitsAll, VisitsAllStep

\* What FoundUnlessTorn says of a step.
FoundStep ==
    \A t \in Thread :
        Fails(t) /\ call[t].kind = "child" /\ call[t].last \in call[t].owed
            => At(t) # call[t].base /\ Inserting(At(t)) # {}

\* A lookup of a node that was there before it began fails only at a map that another thread
\* is changing at that moment, below the base of the lookup.
THEOREM Finding == Spec => FoundUnlessTorn
<1>1. IInv /\ [Next]_vars => FoundStep
  <2> SUFFICES ASSUME IInv, [Next]_vars, NEW t \in Thread,
                      Fails(t), call[t].kind = "child", call[t].last \in call[t].owed
               PROVE  At(t) # call[t].base /\ Inserting(At(t)) # {}
      BY DEF FoundStep
  <2>1. PICK u \in Thread : CallChild(u) \/ CallNewValue(u) \/ CallSaveOrLoad(u) \/ Step(u)
        BY DEF Next, vars, Fails
  <2>2. u = t
        BY <2>1, StepKeeps DEF Kept, Frame, Fails
  <2>3. Types /\ Closed /\ ThreadOK(t)
        BY DEF IInv
  <2>4. LookUp(t) \/ Descend(t)
    <3>1. pc[t] # "idle" /\ pc'[t] = "idle" /\ ~(pc[t] = "walk" /\ Rest(t) = <<>>)
          BY DEF Fails
    <3>2. pc[t] \notin {"insert", "create", "enter"} \cup InTree
          BY <2>3 DEF ThreadOK, Walks
    <3>3. ~(CallChild(t) \/ CallNewValue(t) \/ CallSaveOrLoad(t))
          BY <3>1 DEF CallChild, CallNewValue, CallSaveOrLoad, Begin
    <3>4. ~(Create(t) \/ Insert(t) \/ EndChild(t))
          BY <3>1, <3>2 DEF Create, Insert, EndChild
    <3>5. ~(CheckType(t) \/ CreateValue(t))
          BY <3>2 DEF CheckType, CreateValue
    <3>6. ~(Enter(t) \/ LoadChild(t) \/ VisitChild(t) \/ Leave(t))
          BY <3>2 DEF Enter, LoadChild, VisitChild, Leave, InTree
    <3>7. ~(LookDown(t) \/ LookBack(t) \/ LookFound(t))
          BY <3>2 DEF LookDown, LookBack, LookFound, Looking, InTree
    <3>8. ~(SaveNode(t) \/ SaveThrows(t) \/ AskFolder(t) \/ SaveValues(t))
          BY <3>2 DEF SaveNode, SaveThrows, AskFolder, SaveValues, InTree
    <3> QED BY <2>1, <2>2, <3>3, <3>4, <3>5, <3>6, <3>7, <3>8 DEF Step
  <2>5. /\ pc[t] \in {"walk", "descend"} /\ Rest(t) # <<>> /\ Free(call[t].base)
        BY <2>3, <2>4 DEF LookUp, Descend, ThreadOK, Walks
  <2>6. PICK found \in Answers(t) : ~found
    <3>1. pc'[t] # "descend" /\ pc'[t] # "walk"
          BY DEF Fails
    <3>2. CASE LookUp(t)
      <4>1. PICK found \in Answers(t) : IF found THEN Continue(t, "descend") ELSE End(t)
            BY <3>2 DEF LookUp
      <4>2. ~found
            BY <2>3, <3>1, <4>1, Continued
      <4> QED BY <4>2
    <3>3. CASE Descend(t)
      <4>1. PICK found \in Answers(t) : found => Goto(t, "walk")
            BY <3>3 DEF Descend
      <4>2. Goto(t, "walk") => pc'[t] = "walk"
            BY <2>3 DEF Goto, Types
      <4>3. ~found
            BY <3>1, <4>1, <4>2
      <4> QED BY <4>3
    <3> QED BY <2>4, <3>2, <3>3
  <2>7. There(Head(Rest(t)))
    <3>1. /\ Head(Rest(t)) \in Node /\ call[t].last \in Node
          /\ Below(Head(Rest(t)), call[t].last) /\ There(call[t].last)
      <4>1. Leads(call[t].kind, call[t].last, At(t), Rest(t)) /\ At(t) \in Node
            BY <2>3, <2>5, ChildToCome, CallOf DEF Walking
      <4>2. There(call[t].last) /\ call[t].last \in Node
            BY <2>3, CallOf DEF ThreadOK, OwedOK
      <4> QED BY <2>5, <4>1, <4>2, LeadsOn
    <3> QED BY <2>3, <3>1 DEF Closed
  <2>8. PICK w \in Inserting(At(t)) : TRUE
    <3>1. Inserting(At(t)) = {} => found = There(Head(Rest(t)))
          BY <2>6 DEF Answers
    <3> QED BY <2>6, <2>7, <3>1
  <2>9. mutex[At(t)] = w /\ w \in Thread
        BY <2>3, <2>8, HoldsHere DEF Inserting, IInv
  <2>10. At(t) # call[t].base
         BY <2>5, <2>9, TreeAssumption DEF Free
  <2> QED BY <2>8, <2>10
<1> QED BY <1>1, InductiveInvariant, PTL DEF Spec, FoundUnlessTorn, FoundStep

\* The depth of the node whose mutex a save or a load may have to wait for next.
Reach(t) == IF pc[t] = "save" THEN Depth(At(t)) ELSE Depth(At(t)) + 1

\* Mutexes are waited for downwards: who holds one is inserting, and then waits for nothing,
\* or is saving or loading, and then waits at a deeper node than any save or load that waits
\* for it, if it waits at all.
WaitsDown ==
    \A t, u \in Thread : \A n \in Needs(t) : mutex[n] = u =>
        /\ pc[u] \in {"insert"} \cup InTree
        /\ pc[t] \in InTree /\ pc[u] \in InTree => Reach(t) < Reach(u)

\* What a thread needs.
LEMMA NeedsBelow ==
    ASSUME IInv, NEW t \in Thread, NEW n \in Needs(t)
    PROVE  n \in Node /\ (pc[t] \in InTree => Depth(n) = Reach(t)) /\ Reach(t) \in Nat
<1>1. /\ Types /\ ThreadOK(t) /\ At(t) \in Node /\ call[t].base \in Node
      /\ call[t].bare \subseteq Node /\ Depth(At(t)) \in Nat
      BY CallOf, Paths DEF IInv
<1>2. Reach(t) \in Nat
      BY <1>1 DEF Reach
<1>3. CASE pc[t] \notin InTree
  <2>1. n \in {call[t].base, At(t)}
        BY <1>3 DEF Needs, Looking, InTree
  <2> QED BY <1>1, <1>2, <1>3, <2>1
<1>4. CASE pc[t] = "save"
  <2>1. n = At(t)
        BY <1>4 DEF Needs, Looking
  <2> QED BY <1>1, <1>2, <1>4, <2>1 DEF Reach
<1>5. CASE pc[t] \in InTree \ {"save"}
  <2>1. n \in Child(At(t))
    <3>1. CASE pc[t] = "folders"
      <4>1. call[t].bare # {} /\ n = First(call[t].bare)
            BY <3>1 DEF Needs, Looking
      <4>2. n \in call[t].bare
            BY <1>1, <4>1, Firsts
      <4> QED BY <1>1, <3>1, <4>2 DEF ThreadOK, Asks, Stop
    <3>2. CASE pc[t] \in {"needed", "folder", "visit"}
      <4>1. ToCome(t) # {} /\ n = First(ToCome(t))
            BY <3>2 DEF Needs, Looking
      <4> QED BY <4>1, Coming
    <3> QED BY <1>5, <3>1, <3>2 DEF InTree
  <2>2. n \in Node \ {Root} /\ Depth(n) = Depth(At(t)) + 1
        BY <2>1, Parents DEF Child
  <2> QED BY <1>2, <1>5, <2>2 DEF Reach
<1> QED BY <1>3, <1>4, <1>5

\* What a save or a load holds.
LEMMA HeldAbove ==
    ASSUME IInv, NEW u \in Thread, NEW n \in Node, mutex[n] = u
    PROVE  /\ pc[u] \in {"insert"} \cup InTree
           /\ pc[u] \in InTree => Depth(n) < Reach(u)
<1>1. Types /\ ThreadOK(u) /\ At(u) \in Node /\ call[u].base \in Node
      BY CallOf DEF IInv
<1>2. pc[u] \in {"insert"} \cup InTree
      BY <1>1, HoldsHere
<1>3. ASSUME pc[u] \in InTree PROVE Depth(n) < Reach(u)
  <2>1. Below(n, At(u)) /\ (pc[u] = "save" => n # At(u))
        BY <1>1, <1>3, HoldsHere DEF Traversing
  <2>2. /\ Depth(n) \in Nat /\ Depth(At(u)) \in Nat /\ Depth(n) <= Depth(At(u))
        BY <1>1, <2>1, BelowBy, Paths
  <2>3. CASE pc[u] = "save"
    <3>1. Parent[At(u)] \in Node /\ At(u) # Root
          BY <1>1, <2>1, <2>3, NotRoot, Parents
    <3>2. Below(n, Parent[At(u)]) /\ Depth(At(u)) = Depth(Parent[At(u)]) + 1
          BY <1>1, <2>1, <2>3, <3>1, Parents
    <3>3. Depth(n) <= Depth(Parent[At(u)]) /\ Depth(Parent[At(u)]) \in Nat
          BY <3>1, <3>2, BelowBy, Paths
    <3>4. Depth(n) < Depth(At(u))
          BY <2>2, <3>2, <3>3
    <3> QED BY <2>3, <3>4 DEF Reach
  <2>4. CASE pc[u] # "save"
    <3>1. Reach(u) = Depth(At(u)) + 1
          BY <2>4 DEF Reach
    <3> QED BY <2>2, <3>1
  <2> QED BY <2>3, <2>4
<1> QED BY <1>2, <1>3

\* So no threads wait for each other in a circle, whatever subtrees are saved, loaded,
\* created and looked up at once: save, load and the looks of a save take the mutexes of
\* children after those of their parents, and forwardChildren never holds one while it waits.
THEOREM LockOrder == Spec => []WaitsDown
<1>1. IInv => WaitsDown
  <2> SUFFICES ASSUME IInv, NEW t \in Thread, NEW u \in Thread, NEW n \in Needs(t), mutex[n] = u
               PROVE  /\ pc[u] \in {"insert"} \cup InTree
                      /\ pc[t] \in InTree /\ pc[u] \in InTree => Reach(t) < Reach(u)
      BY DEF WaitsDown
  <2>1. n \in Node /\ (pc[t] \in InTree => Depth(n) = Reach(t))
        BY NeedsBelow
  <2>2. /\ pc[u] \in {"insert"} \cup InTree
        /\ pc[u] \in InTree => Depth(n) < Reach(u)
        BY <2>1, HeldAbove
  <2> QED BY <2>1, <2>2
<1> QED BY <1>1, InductiveInvariant, PTL

-----------------------------------------------------------------------------
(* Nobody waits forever for a mutex *)

\* Who waits for a mutex, waits for somebody: one who is inserting, or traversing further down.
LEMMA WaitedFor ==
    ASSUME IInv, WaitsDown, NEW t \in Thread, Waiting(t)
    PROVE  \E u \in Thread :
              /\ pc[u] \in {"insert"} \cup InTree
              /\ pc[t] \in InTree /\ pc[u] \in InTree => Reach(t) < Reach(u)
<1>1. PICK n \in Needs(t) : ~Free(n)
      BY DEF Waiting
<1>2. n \in Node
      BY NeedsBelow
<1>3. mutex[n] \in Thread
      BY <1>1, <1>2 DEF IInv, Types, Free
<1> QED BY <1>1, <1>3 DEF WaitsDown

\* Of all that traverse, a deepest one does not wait for another that traverses, and who
\* inserts does not wait: so as long as somebody is inside a call, whatever the calls and
\* however many, somebody inside a call can go on.
THEOREM NobodyStuck == Spec => []NoDeadlock
<1>1. IInv /\ WaitsDown => NoDeadlock
  <2> SUFFICES ASSUME IInv, WaitsDown, NEW t \in Thread, pc[t] # "idle",
                      \A u \in Thread : pc[u] # "idle" => Waiting(u)
               PROVE  FALSE
      BY DEF NoDeadlock
  <2> DEFINE W == {u \in Thread : pc[u] \in InTree}
             Deeper(u) == {w \in W : Reach(u) < Reach(w)}
             S == {Cardinality(Deeper(u)) : u \in W}
  <2>1. \A u \in Thread : pc[u] # "insert"
    <3>1. \A u \in Thread : pc[u] = "insert" => Needs(u) = {}
          BY DEF Needs, Looking
    <3> QED BY <3>1 DEF Waiting
  <2>2. ASSUME NEW u \in Thread, pc[u] # "idle"
        PROVE  \E w \in W : pc[u] \in InTree => Reach(u) < Reach(w)
    <3>1. Waiting(u)
          BY <2>2
    <3>2. PICK w \in Thread :
             /\ pc[w] \in {"insert"} \cup InTree
             /\ pc[u] \in InTree /\ pc[w] \in InTree => Reach(u) < Reach(w)
          <4> HIDE DEF W, Deeper, S
          <4> QED BY <3>1, WaitedFor, Zenon
    <3> QED BY <2>1, <3>2
  <2>3. ASSUME NEW u \in W PROVE \E w \in W : Reach(u) < Reach(w)
        BY <2>2 DEF InTree
  <2>4. W # {}
        BY <2>2
  <2>5. \A u \in W : Reach(u) \in Nat
    <3>1. \A u \in W : Depth(At(u)) \in Nat
          BY CallOf, Paths DEF IInv
    <3> QED BY <3>1 DEF Reach
  <2>6. ASSUME NEW u \in W
        PROVE  IsFiniteSet(Deeper(u)) /\ Cardinality(Deeper(u)) \in Nat
    <3>1. Deeper(u) \subseteq Thread /\ IsFiniteSet(Thread)
          BY TreeAssumption
    <3> HIDE DEF Deeper
    <3> QED BY <3>1, FS_Subset, FS_CardinalityType
  <2>7. ASSUME NEW u \in W, NEW w \in W, Reach(u) < Reach(w)
        PROVE  Cardinality(Deeper(w)) < Cardinality(Deeper(u))
    <3>1. Deeper(w) \subseteq Deeper(u)
          BY <2>5, <2>7
    <3>2. w \in Deeper(u) /\ w \notin Deeper(w)
          BY <2>5, <2>7
    <3>3. /\ IsFiniteSet(Deeper(u)) /\ Cardinality(Deeper(u)) \in Nat
          /\ Cardinality(Deeper(w)) \in Nat
          BY <2>6
    <3> HIDE DEF Deeper
    <3>4. /\ Cardinality(Deeper(w)) <= Cardinality(Deeper(u))
          /\ Cardinality(Deeper(u)) # Cardinality(Deeper(w))
          BY <3>1, <3>2, <3>3, FS_Subset
    <3> QED BY <3>3, <3>4
  <2>8. S \subseteq Nat /\ S # {}
        BY <2>4, <2>6
  <2>9. PICK u \in W : \A w \in W : Cardinality(Deeper(u)) <= Cardinality(Deeper(w))
    <3> HIDE DEF Deeper
    <3>1. PICK m \in S : \A k \in S : m <= k
      <4> HIDE DEF S
      <4> QED BY <2>8, Smallest
    <3> QED BY <3>1
  <2>10. PICK w \in W : Reach(u) < Reach(w)
         BY <2>3
  <2>11. Cardinality(Deeper(w)) < Cardinality(Deeper(u))
         BY <2>7, <2>10
  <2>12. /\ Cardinality(Deeper(u)) <= Cardinality(Deeper(w))
         /\ Cardinality(Deeper(u)) \in Nat /\ Cardinality(Deeper(w)) \in Nat
         BY <2>6, <2>9
  <2> HIDE DEF Deeper
  <2> QED BY <2>11, <2>12
<1> QED BY <1>1, InductiveInvariant, LockOrder, PTL

-----------------------------------------------------------------------------
(* Calls come to an end *)

\* The types of the state; and a mutex is held by exactly the thread that is inserting at
\* its node, or saving or loading there or below.
THEOREM TypeCorrect == Spec => []TypeOK
<1>1. Init => calls \in 0 .. MaxCalls
      BY TreeAssumption DEF Init
<1>2. calls \in 0 .. MaxCalls /\ [Next]_vars => (calls \in 0 .. MaxCalls)'
  <2> SUFFICES ASSUME calls \in 0 .. MaxCalls, [Next]_vars
               PROVE  calls' \in 0 .. MaxCalls
      OBVIOUS
  <2>1. calls' = calls \/ (calls < MaxCalls /\ calls' = calls + 1)
    <3>1. ASSUME NEW t \in Thread, CallChild(t) \/ CallNewValue(t) \/ CallSaveOrLoad(t)
          PROVE  calls < MaxCalls /\ calls' = calls + 1
          BY <3>1 DEF CallChild, CallNewValue, CallSaveOrLoad, Begin
    <3>2. ASSUME NEW t \in Thread, Create(t) \/ Insert(t) \/ LookUp(t) \/ Descend(t) \/ EndChild(t)
          PROVE  calls' = calls
          BY <3>2 DEF Create, Insert, LookUp, Descend, EndChild
    <3>3. ASSUME NEW t \in Thread, CheckType(t) \/ CreateValue(t)
          PROVE  calls' = calls
          BY <3>3 DEF CheckType, CreateValue
    <3>4. ASSUME NEW t \in Thread, Enter(t) \/ LoadChild(t) \/ VisitChild(t) \/ Leave(t)
          PROVE  calls' = calls
          BY <3>4 DEF Enter, LoadChild, VisitChild, Visit, Leave
    <3>5. ASSUME NEW t \in Thread, LookDown(t) \/ LookBack(t) \/ LookFound(t)
          PROVE  calls' = calls
          BY <3>5 DEF LookDown, LookBack, LookFound
    <3>6. ASSUME NEW t \in Thread, SaveNode(t) \/ SaveThrows(t) \/ AskFolder(t) \/ SaveValues(t)
          PROVE  calls' = calls
          BY <3>6 DEF SaveNode, SaveThrows, AskFolder, SaveValues
    <3>7. CASE UNCHANGED vars
          BY <3>7 DEF vars
    <3> QED BY <3>1, <3>2, <3>3, <3>4, <3>5, <3>6, <3>7 DEF Next, Step
  <2>2. MaxCalls \in Nat
        BY TreeAssumption
  <2> QED BY <2>1, <2>2
<1>3. IInv /\ calls \in 0 .. MaxCalls => TypeOK
  <2> SUFFICES ASSUME IInv, calls \in 0 .. MaxCalls PROVE TypeOK
      OBVIOUS
  <2>1. \A t \in Thread :
          /\ call[t].kind \in {"none", "save", "load"} \cup Walking
          /\ {call[t].base, At(t)} \subseteq Node /\ Rest(t) \in Seq(Node)
          /\ call[t].last \in Node \cup Value
          /\ call[t].from \in Nat /\ call[t].asked \in Node /\ call[t].bare \subseteq Node
          /\ call[t].visited \subseteq Node /\ call[t].owed \subseteq Node
        BY CallOf DEF IInv, Types, Calls
  <2>2. \A n \in Node, t \in Thread : mutex[n] = t <=> n \in Held(t)
        BY DEF IInv, ThreadOK, Holds
  <2>3. created \in [Node -> Nat]
        BY DEF IInv, Types
  <2>4. pc \in [Thread -> {"idle", "walk", "descend", "insert", "create", "enter",
                           "needed", "save", "folders", "folder", "visit"}]
    <3>1. Labels = {"idle", "walk", "descend", "insert", "create", "enter",
                    "needed", "save", "folders", "folder", "visit"}
          BY DEF Labels, InTree
    <3> QED BY <3>1 DEF IInv, Types
  <2> QED BY <2>1, <2>2, <2>3, <2>4 DEF IInv, Types, TypeOK
<1> QED BY <1>1, <1>2, <1>3, InductiveInvariant, PTL DEF Spec

\* The steps at one node of a path that is walked down.
Stage == [walk |-> 2, insert |-> 1, descend |-> 0, create |-> 0]

\* What may still come of the tree below b for one that goes through the children of a from
\* rank f on: those, the children behind the ones it is below, and all below them.
Further(b, a, f) ==
    {n \in Node : \E c \in Node \ {Root} :
        /\ Below(c, n)
        /\ \/ Parent[c] = a /\ f <= Rank[c]
           \/ \E d \in Node \ {Root} : /\ Below(b, d) /\ d # b /\ Below(d, a)
                                       /\ Parent[c] = Parent[d] /\ Rank[d] < Rank[c]}

\* Of a save or a load: the node it is to go to, or is at, and what comes after it; and what
\* comes in the look it is taking.
VisitAt(t) == IF pc[t] = "needed" THEN call[t].asked ELSE Stop(t)
VisitFrom(t) == IF pc[t] \in {"visit", "insert"} THEN call[t].from ELSE 0
ToVisit(t) == Further(call[t].base, VisitAt(t), VisitFrom(t))
ToAsk(t) == Further(call[t].asked, At(t), call[t].from)

\* The steps at one node of a save or a load.
Phase == [enter |-> 4, needed |-> 3, save |-> 2, folders |-> 1, folder |-> 1,
          visit |-> 0, insert |-> 0]

\* Less of the tree is to come, or no more of it and from a node nearer to the root.
Less(S, a, T, b) == S \subseteq T /\ (S # T \/ Depth(a) < Depth(b))

\* A call nearer to its end: less of its path is left, or less to do at the node it has
\* reached; a save or a load has less of the tree to go to, or is a step further at one node:
\* it has one directory less to ask about, or less of the tree to look at, or made one of
\* the children of the node that was not there.
Onward(t) ==
    IF call[t].kind \in Walking
    THEN \/ Len(Rest(t)') < Len(Rest(t))
         \/ Rest(t)' = Rest(t) /\ Stage[pc'[t]] < Stage[pc[t]]
    ELSE \/ Less(ToVisit(t)', VisitAt(t)', ToVisit(t), VisitAt(t))
         \/ /\ ToVisit(t)' = ToVisit(t) /\ VisitAt(t)' = VisitAt(t)
            /\ \/ Phase[pc'[t]] < Phase[pc[t]]
               \/ /\ pc[t] = "folders" /\ pc'[t] = "folder"
                  /\ call'[t].bare \subseteq call[t].bare /\ call'[t].bare # call[t].bare
               \/ pc[t] = "folder" /\ pc'[t] = "folders" /\ call'[t].bare = call[t].bare
               \/ /\ pc[t] \in {"needed", "folder"} /\ pc'[t] = pc[t]
                  /\ call'[t].bare = call[t].bare /\ call'[t].asked = call[t].asked
                  /\ Less(ToAsk(t)', At(t)', ToAsk(t), At(t))
               \/ pc[t] = "visit" /\ pc'[t] = "insert"
               \/ /\ pc[t] = "insert" /\ pc'[t] = "visit"
                  /\ \E n \in Child(At(t)) : ~There(n) /\ There(n)'

\* Every step of a thread within a call is one onward, and no node goes away.
StepsOnward ==
    /\ \A t \in Thread : pc[t] # "idle" /\ pc'[t] # "idle" =>
           (pc'[t] = pc[t] /\ call'[t] = call[t]) \/ Onward(t)
    /\ \A n \in Node : There(n) => There(n)'

\* Going down to a child leaves less to come, and coming back from a node no more.
LEMMA FurtherDown ==
    ASSUME NEW b \in Node, NEW a \in Node, NEW f \in Nat, NEW n \in Child(a), f <= Rank[n]
    PROVE  Further(b, n, 0) \subseteq Further(b, a, f) /\ Further(b, n, 0) # Further(b, a, f)
<1>1. n \in Node \ {Root} /\ Parent[n] = a /\ \A c \in Node : Rank[c] \in Nat
      BY TreeAssumption DEF Child
<1>2. Below(n, n) /\ \A d \in Node : Below(d, n) <=> d = n \/ Below(d, a)
      BY <1>1, BelowOrder, Parents
<1>3. ASSUME NEW x \in Further(b, n, 0) PROVE x \in Further(b, a, f)
  <2>1. PICK c \in Node \ {Root} :
           /\ Below(c, x)
           /\ \/ Parent[c] = n /\ 0 <= Rank[c]
              \/ \E d \in Node \ {Root} : /\ Below(b, d) /\ d # b /\ Below(d, n)
                                          /\ Parent[c] = Parent[d] /\ Rank[d] < Rank[c]
        BY DEF Further
  <2>2. x \in Node
        BY DEF Further
  <2>3. CASE Parent[c] = n
    <3>1. Below(n, c)
          BY <1>1, <2>3, Parents
    <3>2. Below(n, x)
          BY <1>1, <2>1, <2>2, <3>1, BelowOrder
    <3> QED BY <1>1, <2>2, <3>2 DEF Further
  <2>4. CASE \E d \in Node \ {Root} : /\ Below(b, d) /\ d # b /\ Below(d, n)
                                      /\ Parent[c] = Parent[d] /\ Rank[d] < Rank[c]
    <3>1. PICK d \in Node \ {Root} : /\ Below(b, d) /\ d # b /\ Below(d, n)
                                     /\ Parent[c] = Parent[d] /\ Rank[d] < Rank[c]
          BY <2>4
    <3>2. CASE d = n
      <4>1. f <= Rank[c]
        <5>1. Rank[c] \in Nat /\ Rank[n] \in Nat /\ Rank[n] < Rank[c]
              BY <1>1, <3>1, <3>2
        <5> QED BY <5>1
      <4> QED BY <1>1, <2>1, <2>2, <3>1, <3>2, <4>1 DEF Further
    <3>3. CASE d # n
      <4>1. Below(d, a)
            BY <1>2, <3>1, <3>3
      <4> QED BY <2>1, <2>2, <3>1, <4>1 DEF Further
    <3> QED BY <3>2, <3>3
  <2> QED BY <2>1, <2>3, <2>4
<1>4. n \in Further(b, a, f)
      BY <1>1, <1>2 DEF Further
<1>5. n \notin Further(b, n, 0)
  <2> SUFFICES ASSUME n \in Further(b, n, 0) PROVE FALSE
      OBVIOUS
  <2>1. PICK c \in Node \ {Root} :
           /\ Below(c, n)
           /\ \/ Parent[c] = n /\ 0 <= Rank[c]
              \/ \E d \in Node \ {Root} : /\ Below(b, d) /\ d # b /\ Below(d, n)
                                          /\ Parent[c] = Parent[d] /\ Rank[d] < Rank[c]
        BY DEF Further
  <2>2. CASE Parent[c] = n
    <3>1. ~Below(c, n)
          BY <2>2, Parents
    <3> QED BY <2>1, <3>1
  <2>3. CASE \E d \in Node \ {Root} : /\ Below(b, d) /\ d # b /\ Below(d, n)
                                      /\ Parent[c] = Parent[d] /\ Rank[d] < Rank[c]
    <3>1. PICK d \in Node \ {Root} : /\ Below(d, n) /\ Parent[c] = Parent[d] /\ Rank[d] < Rank[c]
          BY <2>3
    <3>2. /\ Depth(c) = Depth(Parent[c]) + 1 /\ Depth(d) = Depth(Parent[d]) + 1
          BY Parents
    <3>3. Depth(c) \in Nat /\ Depth(c) = Depth(d)
          BY <3>1, <3>2, Paths
    <3>4. Depth(c) <= Depth(d) /\ Depth(d) <= Depth(c)
          BY <3>3
    <3>5. c = d
          BY <1>1, <2>1, <3>1, <3>4, BelowOrder
    <3>6. Rank[c] \in Nat /\ Rank[c] < Rank[c]
          BY <1>1, <3>1, <3>5
    <3> QED BY <3>6
  <2> QED BY <2>1, <2>2, <2>3
<1> QED BY <1>3, <1>4, <1>5

\* What comes after a node comes after those below it, too; and its parent is less deep.
LEMMA FurtherUp ==
    ASSUME NEW b \in Node, NEW a \in Node, NEW f \in Nat, Below(b, a), a # b
    PROVE  /\ Further(b, Parent[a], Rank[a] + 1) \subseteq Further(b, a, f)
           /\ Depth(Parent[a]) < Depth(a)
<1>1. a \in Node \ {Root} /\ \A c \in Node : Rank[c] \in Nat
      BY NotRoot, TreeAssumption
<1>2. /\ Parent[a] \in Node /\ Depth(a) = Depth(Parent[a]) + 1
      /\ Below(a, a) /\ \A d \in Node : Below(d, a) <=> d = a \/ Below(d, Parent[a])
      BY <1>1, BelowOrder, Parents
<1>3. ASSUME NEW x \in Further(b, Parent[a], Rank[a] + 1) PROVE x \in Further(b, a, f)
  <2>1. PICK c \in Node \ {Root} :
           /\ Below(c, x)
           /\ \/ Parent[c] = Parent[a] /\ Rank[a] + 1 <= Rank[c]
              \/ \E d \in Node \ {Root} : /\ Below(b, d) /\ d # b /\ Below(d, Parent[a])
                                          /\ Parent[c] = Parent[d] /\ Rank[d] < Rank[c]
        BY DEF Further
  <2>2. x \in Node
        BY DEF Further
  <2>3. CASE Parent[c] = Parent[a] /\ Rank[a] + 1 <= Rank[c]
    <3>1. Rank[a] < Rank[c]
      <4>1. Rank[a] \in Nat /\ Rank[c] \in Nat
            BY <1>1
      <4> QED BY <2>3, <4>1
    <3> QED BY <1>1, <1>2, <2>1, <2>2, <2>3, <3>1 DEF Further
  <2>4. CASE \E d \in Node \ {Root} : /\ Below(b, d) /\ d # b /\ Below(d, Parent[a])
                                      /\ Parent[c] = Parent[d] /\ Rank[d] < Rank[c]
        BY <1>2, <2>1, <2>2, <2>4 DEF Further
  <2> QED BY <2>1, <2>3, <2>4
<1>4. Depth(Parent[a]) < Depth(a)
  <2>1. Depth(Parent[a]) \in Nat
        BY <1>2, Paths
  <2> QED BY <1>2, <2>1
<1> QED BY <1>3, <1>4

\* A step of a thread within its call.
LEMMA GoesOnward ==
    ASSUME IInv, NEW t \in Thread, Step(t), pc'[t] # "idle"
    PROVE  Onward(t)
<1>1. Types /\ ThreadOK(t) /\ Walks(t)
      BY DEF IInv, ThreadOK
<1>2. /\ At(t) \in Node /\ call[t].base \in Node /\ Rest(t) \in Seq(Node)
      /\ call[t].from \in Nat /\ call[t].asked \in Node /\ call[t] \in Calls
      BY <1>1, CallOf
<1>3. ASSUME NEW label \in {"descend", "insert", "create"}, Continue(t, label),
             call[t].kind \in Walking,
             pc[t] = "walk" \/ (pc[t] = "insert" /\ label = "descend")
      PROVE  Onward(t)
  <2>1. pc'[t] = label /\ Rest(t)' = Rest(t)
        BY <1>1, <1>3, Continued
  <2>2. Stage[label] < Stage[pc[t]]
        BY <1>3 DEF Stage
  <2> QED BY <1>3, <2>1, <2>2 DEF Onward
<1>4. End(t) => pc'[t] = "idle"
      BY <1>1 DEF End, Goto, Types
<1>5. CASE Create(t)
  <2>1. call[t].kind \in Walking /\ pc[t] = "walk"
        BY <1>5 DEF Create, Walking
  <2>2. Continue(t, "descend") \/ Continue(t, "insert")
        BY <1>4, <1>5 DEF Create
  <2> QED BY <1>3, <2>1, <2>2
<1>6. CASE Insert(t) /\ call[t].kind # "load"
  <2>1. pc[t] = "insert" /\ call[t].kind \in Walking
        BY <1>1, <1>6 DEF Insert, Walks, Walking
  <2>2. Continue(t, "descend")
        BY <1>4, <1>6 DEF Insert
  <2> QED BY <1>3, <2>1, <2>2
<1>7. CASE Insert(t) /\ call[t].kind = "load"
  <2>1. pc[t] = "insert" /\ Goto(t, "visit") /\ call' = [call EXCEPT ![t].rest = <<>>]
        BY <1>7 DEF Insert
  <2>2. PICK g \in Child(At(t)) : g = Target(t) /\ ~There(g)
        BY <1>1, <2>1 DEF ThreadOK, Holds, Child
  <2>3. There(g)'
    <3>1. created' = [created EXCEPT ![g] = @ + 1] /\ g \in Node
          BY <1>7, <2>2 DEF Insert, Child
    <3>2. created \in [Node -> {0, 1}]
          BY <1>1 DEF Types
    <3>3. created'[g] = created[g] + 1 /\ created[g] \in {0, 1}
          BY <3>1, <3>2
    <3> QED BY <3>3 DEF There
  <2>4. /\ pc'[t] = "visit" /\ call'[t].base = call[t].base /\ At(t)' = At(t)
        /\ call'[t].from = call[t].from
        BY <1>1, <2>1 DEF Goto, Types, Calls, At
  <2>5. call[t].kind \notin Walking
        BY <1>7 DEF Walking
  <2>6. VisitAt(t)' = VisitAt(t) /\ ToVisit(t)' = ToVisit(t)
        BY <2>1, <2>4 DEF VisitAt, Stop, VisitFrom, ToVisit
  <2> QED BY <2>1, <2>2, <2>3, <2>4, <2>5, <2>6 DEF Onward
<1>8. CASE LookUp(t)
  <2>1. pc[t] = "walk" /\ call[t].kind \in Walking
        BY <1>8 DEF LookUp, Walking
  <2>2. Continue(t, "descend")
        BY <1>4, <1>8 DEF LookUp
  <2> QED BY <1>3, <2>1, <2>2
<1>9. CASE Descend(t)
  <2>1. /\ call' = [call EXCEPT ![t].at = Head(Rest(t)), ![t].rest = Tail(@)]
        /\ pc[t] = "descend"
        BY <1>4, <1>9 DEF Descend
  <2>2. call[t].kind \in Walking /\ Rest(t) # <<>>
        BY <1>1, <2>1 DEF Walks
  <2>3. Rest(t)' = Tail(Rest(t))
        BY <1>1, <2>1 DEF Rest, Types, Calls
  <2>4. Len(Tail(Rest(t))) < Len(Rest(t))
    <3>1. Len(Tail(Rest(t))) = Len(Rest(t)) - 1 /\ Len(Rest(t)) \in Nat
          BY <1>2, <2>2
    <3> QED BY <3>1
  <2> QED BY <2>2, <2>3, <2>4 DEF Onward
<1>10. CASE EndChild(t) \/ CreateValue(t) \/ SaveThrows(t)
       BY <1>4, <1>10 DEF EndChild, CreateValue, SaveThrows
<1>11. CASE CheckType(t)
  <2>1. pc[t] = "walk" /\ call[t].kind \in Walking
        BY <1>11 DEF CheckType, Walking
  <2>2. Continue(t, "create")
        BY <1>4, <1>11 DEF CheckType
  <2> QED BY <1>3, <2>1, <2>2
<1>12. CASE Enter(t)
  <2>1. pc[t] = "enter" /\ Visit(t, call[t].base) /\ At(t) = call[t].base
        /\ call[t].kind \notin Walking
        BY <1>1, <1>12 DEF Enter, ThreadOK, Finished, Walks, Walking
  <2>2. pc'[t] \in {"needed", "visit"} /\ VisitAt(t)' = At(t) /\ VisitFrom(t)' = 0
        /\ call'[t].base = call[t].base
    <3>1. CASE call[t].kind = "load"
      <4>1. /\ Goto(t, "visit")
            /\ call' = [call EXCEPT ![t].at = call[t].base, ![t].from = 0,
                                    ![t].visited = @ \cup {call[t].base}]
            BY <2>1, <3>1 DEF Visit
      <4>2. /\ pc'[t] = "visit" /\ call'[t].at = call[t].base /\ call'[t].from = 0
            /\ call'[t].base = call[t].base
            BY <1>1, <4>1 DEF Goto, Types, Calls
      <4> QED BY <2>1, <4>2 DEF VisitAt, Stop, VisitFrom, At
    <3>2. CASE call[t].kind # "load"
      <4>1. /\ Goto(t, "needed")
            /\ call' = [call EXCEPT ![t].at = call[t].base, ![t].from = 0,
                                    ![t].asked = call[t].base]
            BY <2>1, <3>2 DEF Visit
      <4>2. pc'[t] = "needed" /\ call'[t].asked = call[t].base /\ call'[t].base = call[t].base
            BY <1>1, <4>1 DEF Goto, Types, Calls
      <4> QED BY <2>1, <4>2 DEF VisitAt, Stop, VisitFrom, At
    <3> QED BY <3>1, <3>2
  <2>3. VisitAt(t) = At(t) /\ VisitFrom(t) = 0
        BY <2>1 DEF VisitAt, Stop, VisitFrom
  <2>4. ToVisit(t)' = ToVisit(t)
        BY <2>2, <2>3 DEF ToVisit
  <2>5. Phase[pc'[t]] < Phase[pc[t]]
        BY <2>1, <2>2 DEF Phase
  <2> QED BY <2>1, <2>2, <2>3, <2>4, <2>5 DEF Onward
<1>13. CASE VisitChild(t)
  <2> DEFINE n == First(ToCome(t))
  <2>1. pc[t] = "visit" /\ ToCome(t) # {} /\ Visit(t, n) /\ call[t].kind \notin Walking
        BY <1>1, <1>13 DEF VisitChild, Walks, Walking
  <2>2. n \in Child(At(t)) /\ call[t].from <= Rank[n]
        BY <2>1, Coming
  <2> HIDE DEF n
  <2>3. VisitAt(t)' = n /\ VisitFrom(t)' = 0 /\ call'[t].base = call[t].base
    <3>1. CASE call[t].kind = "load"
      <4>1. /\ Goto(t, "visit")
            /\ call' = [call EXCEPT ![t].at = n, ![t].from = 0, ![t].visited = @ \cup {n}]
            BY <2>1, <3>1 DEF Visit
      <4>2. /\ pc'[t] = "visit" /\ call'[t].at = n /\ call'[t].from = 0
            /\ call'[t].base = call[t].base
            BY <1>1, <4>1 DEF Goto, Types, Calls
      <4> QED BY <4>2 DEF VisitAt, Stop, VisitFrom, At
    <3>2. CASE call[t].kind # "load"
      <4>1. /\ Goto(t, "needed")
            /\ call' = [call EXCEPT ![t].at = n, ![t].from = 0, ![t].asked = n]
            BY <2>1, <3>2 DEF Visit
      <4>2. pc'[t] = "needed" /\ call'[t].asked = n /\ call'[t].base = call[t].base
            BY <1>1, <4>1 DEF Goto, Types, Calls
      <4> QED BY <4>2 DEF VisitAt, Stop, VisitFrom, At
    <3> QED BY <3>1, <3>2
  <2>4. VisitAt(t) = At(t) /\ VisitFrom(t) = call[t].from
        BY <2>1 DEF VisitAt, Stop, VisitFrom
  <2>5. ToVisit(t)' = Further(call[t].base, n, 0)
        BY <2>3 DEF ToVisit
  <2>6. ToVisit(t) = Further(call[t].base, At(t), call[t].from)
        BY <2>4 DEF ToVisit
  <2>7. ToVisit(t)' \subseteq ToVisit(t) /\ ToVisit(t)' # ToVisit(t)
        BY <1>2, <2>2, <2>5, <2>6, FurtherDown
  <2> QED BY <2>1, <2>7 DEF Onward, Less
<1>14. CASE LookDown(t)
  <2> DEFINE n == First(ToCome(t))
  <2>1. /\ pc[t] \in {"needed", "folder"} /\ pc' = pc /\ ToCome(t) # {}
        /\ call' = [call EXCEPT ![t].at = n, ![t].from = 0] /\ call[t].kind \notin Walking
        BY <1>1, <1>14 DEF LookDown, Looking, Walks, Walking, InTree
  <2>2. n \in Child(At(t)) /\ call[t].from <= Rank[n]
        BY <2>1, Coming
  <2> HIDE DEF n
  <2>3. /\ At(t)' = n /\ call'[t].from = 0 /\ call'[t].base = call[t].base
        /\ call'[t].asked = call[t].asked /\ call'[t].bare = call[t].bare
        BY <1>1, <2>1 DEF Types, Calls, At
  <2>4. VisitAt(t)' = VisitAt(t) /\ ToVisit(t)' = ToVisit(t)
        BY <2>1, <2>3 DEF VisitAt, Stop, VisitFrom, ToVisit
  <2>5. ToAsk(t)' = Further(call[t].asked, n, 0)
        BY <2>3 DEF ToAsk
  <2>6. ToAsk(t)' \subseteq ToAsk(t) /\ ToAsk(t)' # ToAsk(t)
        BY <1>2, <2>2, <2>5, FurtherDown DEF ToAsk
  <2>7. Less(ToAsk(t)', At(t)', ToAsk(t), At(t))
        BY <2>6 DEF Less
  <2> QED BY <2>1, <2>3, <2>4, <2>7 DEF Onward
<1>15. CASE LookBack(t)
  <2>1. /\ pc[t] \in {"needed", "folder"} /\ call[t].kind \notin Walking
        /\ Below(call[t].base, call[t].asked) /\ Below(call[t].asked, At(t))
        /\ pc[t] = "folder" => call[t].asked # call[t].base
        BY <1>1, <1>15 DEF LookBack, Looking, Walks, Walking, InTree, ThreadOK, Asks
  <2>2. /\ Back(t, At(t))
        /\ \/ At(t) # call[t].asked /\ pc' = pc
           \/ At(t) = call[t].asked /\ pc[t] = "folder" /\ Goto(t, "folders")
           \/ /\ At(t) = call[t].asked /\ pc[t] = "needed" /\ At(t) # call[t].base
              /\ Goto(t, "visit")
        BY <1>4, <1>15, <2>1 DEF LookBack
  <2>3. /\ At(t)' = Parent[At(t)] /\ call'[t].from = Rank[At(t)] + 1
        /\ call'[t].base = call[t].base
        /\ call'[t].asked = call[t].asked /\ call'[t].bare = call[t].bare
        BY <1>1, <2>2 DEF Back, Types, Calls, At
  <2>4. CASE At(t) # call[t].asked /\ pc' = pc
    <3>1. VisitAt(t)' = VisitAt(t) /\ ToVisit(t)' = ToVisit(t)
          BY <2>1, <2>3, <2>4 DEF VisitAt, Stop, VisitFrom, ToVisit
    <3>2. ToAsk(t)' = Further(call[t].asked, Parent[At(t)], Rank[At(t)] + 1)
          BY <2>3 DEF ToAsk
    <3>3. ToAsk(t)' \subseteq ToAsk(t) /\ Depth(Parent[At(t)]) < Depth(At(t))
          BY <1>2, <2>1, <2>4, <3>2, FurtherUp DEF ToAsk
    <3>4. Less(ToAsk(t)', At(t)', ToAsk(t), At(t))
          BY <2>3, <3>3 DEF Less
    <3> QED BY <2>1, <2>3, <2>4, <3>1, <3>4 DEF Onward
  <2>5. CASE At(t) = call[t].asked /\ pc[t] = "folder" /\ Goto(t, "folders")
    <3>1. pc'[t] = "folders"
          BY <1>1, <2>5 DEF Goto, Types
    <3>2. VisitAt(t)' = VisitAt(t) /\ ToVisit(t)' = ToVisit(t)
          BY <2>3, <2>5, <3>1 DEF VisitAt, Stop, VisitFrom, ToVisit
    <3> QED BY <2>1, <2>3, <2>5, <3>1, <3>2 DEF Onward
  <2>6. CASE /\ At(t) = call[t].asked /\ pc[t] = "needed" /\ At(t) # call[t].base
             /\ Goto(t, "visit")
    <3>1. pc'[t] = "visit"
          BY <1>1, <2>6 DEF Goto, Types
    <3>2. /\ VisitAt(t) = At(t) /\ VisitAt(t)' = Parent[At(t)]
          /\ ToVisit(t) = Further(call[t].base, At(t), 0)
          /\ ToVisit(t)' = Further(call[t].base, Parent[At(t)], Rank[At(t)] + 1)
          BY <2>3, <2>6, <3>1 DEF VisitAt, Stop, VisitFrom, ToVisit
    <3>3. ToVisit(t)' \subseteq ToVisit(t) /\ Depth(Parent[At(t)]) < Depth(At(t))
          BY <1>2, <2>1, <2>6, <3>2, FurtherUp
    <3> QED BY <2>1, <3>2, <3>3 DEF Onward, Less
  <2> QED BY <2>2, <2>4, <2>5, <2>6
<1>16. CASE LookFound(t)
  <2>1. pc[t] \in {"needed", "folder"} /\ call[t].kind \notin Walking
        BY <1>1, <1>16 DEF LookFound, Looking, Walks, Walking, InTree
  <2>2. CASE pc[t] = "folder"
    <3>1. Back(t, call[t].asked) /\ Goto(t, "folders")
          BY <1>16, <2>2 DEF LookFound
    <3>2. /\ pc'[t] = "folders" /\ At(t)' = Parent[call[t].asked]
          /\ call'[t].base = call[t].base /\ call'[t].bare = call[t].bare
          BY <1>1, <3>1 DEF Back, Goto, Types, Calls, At
    <3>3. VisitAt(t)' = VisitAt(t) /\ ToVisit(t)' = ToVisit(t)
          BY <2>2, <3>2 DEF VisitAt, Stop, VisitFrom, ToVisit
    <3> QED BY <2>1, <2>2, <3>2, <3>3 DEF Onward
  <2>3. CASE pc[t] = "needed"
    <3>1. call' = [call EXCEPT ![t].at = call[t].asked] /\ Goto(t, "save")
          BY <1>16, <2>3 DEF LookFound
    <3>2. pc'[t] = "save" /\ At(t)' = call[t].asked /\ call'[t].base = call[t].base
          BY <1>1, <3>1 DEF Goto, Types, Calls, At
    <3>3. VisitAt(t)' = VisitAt(t) /\ ToVisit(t)' = ToVisit(t)
          BY <2>3, <3>2 DEF VisitAt, Stop, VisitFrom, ToVisit
    <3>4. Phase[pc'[t]] < Phase[pc[t]]
          BY <2>3, <3>2 DEF Phase
    <3> QED BY <2>1, <3>3, <3>4 DEF Onward
  <2> QED BY <2>1, <2>2, <2>3
<1>17. CASE SaveNode(t)
  <2>1. /\ pc[t] = "save" /\ Goto(t, "folders") /\ call[t].kind \notin Walking
        /\ call' = [call EXCEPT ![t].visited = @ \cup {At(t)},
                                ![t].bare = {c \in Child(At(t)) \ directories : There(c)}]
        BY <1>1, <1>17 DEF SaveNode, Walks, Walking, InTree
  <2>2. pc'[t] = "folders" /\ At(t)' = At(t) /\ call'[t].base = call[t].base
        BY <1>1, <2>1 DEF Goto, Types, Calls, At
  <2>3. VisitAt(t)' = VisitAt(t) /\ ToVisit(t)' = ToVisit(t)
        BY <2>1, <2>2 DEF VisitAt, Stop, VisitFrom, ToVisit
  <2>4. Phase[pc'[t]] < Phase[pc[t]]
        BY <2>1, <2>2 DEF Phase
  <2> QED BY <2>1, <2>3, <2>4 DEF Onward
<1>18. CASE AskFolder(t)
  <2> DEFINE n == First(call[t].bare)
  <2>1. /\ pc[t] = "folders" /\ Goto(t, "folder") /\ call[t].kind \notin Walking
        /\ call[t].bare # {} /\ call[t].bare \subseteq Node
        /\ call' = [call EXCEPT ![t].at = n, ![t].from = 0, ![t].asked = n, ![t].bare = @ \ {n}]
        BY <1>1, <1>18, CallOf DEF AskFolder, Walks, Walking, InTree
  <2>2. n \in call[t].bare
        BY <2>1, Firsts
  <2>3. Parent[n] = At(t)
    <3>1. n \in Child(Stop(t)) /\ Stop(t) = At(t)
          BY <1>1, <2>1, <2>2 DEF ThreadOK, Asks, Stop
    <3> QED BY <3>1 DEF Child
  <2> HIDE DEF n
  <2>4. /\ pc'[t] = "folder" /\ call'[t].base = call[t].base /\ call'[t].asked = n
        /\ call'[t].bare = call[t].bare \ {n}
        BY <1>1, <2>1 DEF Goto, Types, Calls
  <2>5. VisitAt(t)' = VisitAt(t) /\ ToVisit(t)' = ToVisit(t)
        BY <2>1, <2>3, <2>4 DEF VisitAt, Stop, VisitFrom, ToVisit
  <2>6. call'[t].bare \subseteq call[t].bare /\ call'[t].bare # call[t].bare
        BY <2>2, <2>4
  <2> QED BY <2>1, <2>4, <2>5, <2>6 DEF Onward
<1>19. CASE SaveValues(t)
  <2>1. /\ pc[t] = "folders" /\ Goto(t, "visit") /\ call[t].kind \notin Walking
        /\ call' = [call EXCEPT ![t].from = 0]
        BY <1>1, <1>19 DEF SaveValues, Walks, Walking, InTree
  <2>2. /\ pc'[t] = "visit" /\ At(t)' = At(t) /\ call'[t].base = call[t].base
        /\ call'[t].from = 0
        BY <1>1, <2>1 DEF Goto, Types, Calls, At
  <2>3. VisitAt(t)' = VisitAt(t) /\ ToVisit(t)' = ToVisit(t)
        BY <2>1, <2>2 DEF VisitAt, Stop, VisitFrom, ToVisit
  <2>4. Phase[pc'[t]] < Phase[pc[t]]
        BY <2>1, <2>2 DEF Phase
  <2> QED BY <2>1, <2>3, <2>4 DEF Onward
<1>20. CASE LoadChild(t)
  <2>1. PICK d \in Missing(At(t)) : call' = [call EXCEPT ![t].rest = <<d>>]
        BY <1>20 DEF LoadChild
  <2>2. pc[t] = "visit" /\ Goto(t, "insert") /\ call[t].kind \notin Walking
        BY <1>20 DEF LoadChild, Walking
  <2>3. /\ pc'[t] = "insert" /\ At(t)' = At(t) /\ call'[t].base = call[t].base
        /\ call'[t].from = call[t].from
        BY <1>1, <2>1, <2>2 DEF Goto, Types, Calls, At
  <2>4. VisitAt(t)' = VisitAt(t) /\ ToVisit(t)' = ToVisit(t)
        BY <2>2, <2>3 DEF VisitAt, Stop, VisitFrom, ToVisit
  <2> QED BY <2>2, <2>3, <2>4 DEF Onward
<1>21. CASE Leave(t)
  <2>1. /\ At(t) # call[t].base /\ Back(t, At(t)) /\ pc[t] = "visit" /\ pc' = pc
        BY <1>4, <1>21 DEF Leave
  <2>2. call[t].kind \notin Walking /\ Below(call[t].base, At(t))
        BY <1>1, <2>1, Inside DEF Walks, Walking, Traversing, InTree
  <2>3. /\ At(t)' = Parent[At(t)] /\ call'[t].from = Rank[At(t)] + 1
        /\ call'[t].base = call[t].base
        BY <1>1, <2>1 DEF Back, Types, Calls, At
  <2>4. /\ VisitAt(t) = At(t) /\ VisitAt(t)' = Parent[At(t)]
        /\ ToVisit(t) = Further(call[t].base, At(t), call[t].from)
        /\ ToVisit(t)' = Further(call[t].base, Parent[At(t)], Rank[At(t)] + 1)
        BY <2>1, <2>3 DEF VisitAt, Stop, VisitFrom, ToVisit
  <2>5. ToVisit(t)' \subseteq ToVisit(t) /\ Depth(Parent[At(t)]) < Depth(At(t))
        BY <1>2, <2>1, <2>2, <2>4, FurtherUp
  <2> QED BY <2>2, <2>4, <2>5 DEF Onward, Less
<1>22. CASE Create(t) \/ Insert(t) \/ LookUp(t) \/ Descend(t) \/ EndChild(t)
            \/ CheckType(t) \/ CreateValue(t)
       BY <1>5, <1>6, <1>7, <1>8, <1>9, <1>10, <1>11, <1>22
<1>23. CASE Enter(t) \/ LookDown(t) \/ LookBack(t) \/ LookFound(t)
            \/ SaveNode(t) \/ SaveThrows(t) \/ AskFolder(t) \/ SaveValues(t)
            \/ LoadChild(t) \/ VisitChild(t) \/ Leave(t)
       BY <1>10, <1>12, <1>13, <1>14, <1>15, <1>16, <1>17, <1>18, <1>19, <1>20, <1>21, <1>23
<1> QED BY <1>22, <1>23 DEF Step

\* In a finite tree every call comes to its end, unless it has to wait for ever, which
\* NobodyStuck excludes for all threads together: whatever other threads create, each of its
\* steps brings it nearer.  Saves and loads do not go to a node twice, nor does a look, and
\* a load does not make children over and over.
THEOREM Ending == Spec => [][StepsOnward]_vars
<1>1. IInv /\ [Next]_vars => StepsOnward
  <2> SUFFICES ASSUME IInv, [Next]_vars PROVE StepsOnward
      OBVIOUS
  <2>1. ASSUME NEW u \in Thread, CallChild(u) \/ CallNewValue(u) \/ CallSaveOrLoad(u) \/ Step(u)
        PROVE  StepsOnward
    <3>1. /\ \A t \in Thread \ {u} : pc'[t] = pc[t] /\ call'[t] = call[t]
          /\ \A n \in Node : There(n) => There(n)'
          BY <2>1, StepKeeps DEF Kept, Frame
    <3>2. pc[u] # "idle" /\ pc'[u] # "idle" => Onward(u)
      <4>1. pc[u] # "idle" => Step(u)
            BY <2>1 DEF CallChild, CallNewValue, CallSaveOrLoad, Begin
      <4> QED BY <4>1, GoesOnward
    <3> QED BY <3>1, <3>2 DEF StepsOnward
  <2>2. CASE UNCHANGED vars
        BY <2>2 DEF vars, StepsOnward, There
  <2> QED BY <2>1, <2>2 DEF Next
<1> QED BY <1>1, InductiveInvariant, PTL DEF Spec
=============================================================================
