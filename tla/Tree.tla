--------------------------------- MODULE Tree ---------------------------------
(***************************************************************************)
(* The tree of nodes (Server/src/IONode.cpp) while several threads create  *)
(* branches and values, look nodes up by path, save it and load it.        *)
(*                                                                         *)
(* Every node has a mutex for its map of children.  A call goes down its   *)
(* path from a base, the node it was made on: a branch is created under    *)
(* the mutex of its parent, and looked up under the mutex of the base.  A  *)
(* save or a load keeps the mutexes of all nodes between the base and the  *)
(* one it is at, goes through the children of each in the order of its     *)
(* map, and a save first looks, with such a chain of mutexes too, whether  *)
(* there is a value to save at a node or below it.                         *)
(***************************************************************************)
EXTENDS Integers, Sequences, SequencesExt, FiniteSets

CONSTANTS Thread, NoThread,
          Node, Root,
          Path,         \* of each node: the nodes from the root to it, the root left out
          Rank,         \* of each node: its place in the map of its parent
          Value, Where, \* the values, and the node of each
          Directories,  \* the nodes that were saved by an earlier program
          MaxCalls      \* bound: calls in all

Parent == [n \in Node \ {Root} |->
              IF Len(Path[n]) = 1 THEN Root ELSE Path[n][Len(Path[n]) - 1]]
Child(n) == {c \in Node \ {Root} : Parent[c] = n}
Below(b, n) == IsPrefix(Path[b], Path[n])
Way(b, n) == SubSeq(Path[n], Len(Path[b]) + 1, Len(Path[n]))
\* Of some children of a node, the first in its map.
First(S) == CHOOSE c \in S : \A d \in S : Rank[c] <= Rank[d]

\* Every beginning of a path is the path of the node it leads to.
ASSUME TreeAssumption ==
    /\ IsFiniteSet(Thread) /\ NoThread \notin Thread
    /\ Root \in Node /\ Path \in [Node -> Seq(Node \ {Root})]
    /\ \A n \in Node : Path[n] = <<>> <=> n = Root
    /\ \A n \in Node \ {Root} : Last(Path[n]) = n
    /\ \A n \in Node : \A i \in DOMAIN Path[n] : Path[Path[n][i]] = SubSeq(Path[n], 1, i)
    /\ Rank \in [Node -> Nat]
    /\ \A n, m \in Node \ {Root} : Parent[n] = Parent[m] /\ Rank[n] = Rank[m] => n = m
    /\ Where \in [Value -> Node]
    /\ Directories \subseteq Node
    /\ \A n \in Directories \ {Root} : Parent[n] \in Directories
    /\ MaxCalls \in Nat

VARIABLES created,  \* per node: the objects made for it; 0 if its parent has no such child
          mutex,    \* per node: the holder of IONode::_mutex
          born,     \* per value: how often it was created
          pc,       \* per thread: its next step
          call,     \* per thread: its call
          calls,    \* their number so far
          directories, \* the nodes that have a directory where the tree is saved
          clash     \* history: the values that two threads were about to create at once

vars == <<created, mutex, born, pc, call, calls, directories, clash>>

There(n) == created[n] > 0
\* isNeededSaveValue: a value is persisted from its creation on.
HasValues(n) == \E v \in Value : Where[v] = n /\ born[v] > 0
\* Every node between b and n, b included, has a directory.
Saved(b, n) == \A d \in Node \ {n} : Below(b, d) /\ Below(d, n) => d \in directories

\* A call: the node it was made on, its last name, the node it has reached and those
\* it still has to go through.  Of a save or a load: the rank from which the children of
\* that node are still to come, the node it is asking about, the children of the one it
\* saves that it has to ask about since they have no directory, the nodes it has been to;
\* and (a history) the nodes below its base that it has to go to: of a save those
\* with values, of a load those whose parents had been saved, when it began.
NoCall == [kind |-> "none", base |-> Root, last |-> Root, at |-> Root, rest |-> <<>>,
           from |-> 0, asked |-> Root, bare |-> {}, visited |-> {}, owed |-> {}]
Walking == {"newChild", "newValue", "child"}

Init ==
    /\ \E known \in SUBSET Node :
          /\ Root \in known /\ \A n \in known, d \in Node : Below(d, n) => d \in known
          /\ created = [n \in Node |-> IF n \in known THEN 1 ELSE 0]
          /\ born \in [Value -> {0, 1}] /\ \A v \in Value : born[v] = 1 => Where[v] \in known
    /\ mutex = [n \in Node |-> NoThread]
    /\ pc = [t \in Thread |-> "idle"]
    /\ call = [t \in Thread |-> NoCall]
    /\ calls = 0
    /\ directories = Directories
    /\ clash = {}

Goto(t, label) == pc' = [pc EXCEPT ![t] = label]
End(t) == Goto(t, "idle") /\ call' = [call EXCEPT ![t] = NoCall]
Continue(t, label) == Goto(t, label) /\ UNCHANGED call
Free(n) == mutex[n] = NoThread

-----------------------------------------------------------------------------
(* Calls *)

Begin(t, kind, base, last, way) ==
    /\ pc[t] = "idle"
    /\ calls < MaxCalls
    /\ There(base)
    /\ calls' = calls + 1
    /\ call' = [call EXCEPT ![t] =
          [kind |-> kind, base |-> base, last |-> last, at |-> base, rest |-> way,
           from |-> 0, asked |-> base, bare |-> {}, visited |-> {},
           owed |-> {n \in Node : There(n) /\ Below(base, n)
                                   /\ (kind = "save" => HasValues(n))
                                   /\ (kind = "load" => Saved(base, n))}]]
    /\ Goto(t, IF kind \in Walking THEN "walk" ELSE "enter")
    /\ UNCHANGED <<created, mutex, born, directories, clash>>

\* newChild; child, childExist, getNode: the last name is left to the node before it.
CallChild(t) ==
    \E kind \in {"newChild", "child"}, b \in Node, n \in Node \ {Root} :
        b # n /\ Below(b, n) /\ Begin(t, kind, b, n, Front(Way(b, n)))

\* newBool, newInt, newFloat, newStr
CallNewValue(t) ==
    \E b \in Node, v \in Value :
        Below(b, Where[v]) /\ Begin(t, "newValue", b, v, Way(b, Where[v]))

CallSaveOrLoad(t) ==
    \E kind \in {"save", "load"}, b \in Node : Begin(t, kind, b, b, <<>>)

-----------------------------------------------------------------------------
(* forwardChildren *)

At(t) == call[t].at
Rest(t) == call[t].rest

\* The node a thread is making or looking for.
Target(t) == IF Rest(t) = <<>> THEN call[t].last ELSE Head(Rest(t))
\* Whoever is changing the map of n right now.
Inserting(n) == {t \in Thread : pc[t] = "insert" /\ At(t) = n}

GuardOfBase(t) == call[t].base
GuardOfParent(t) == At(t)

\* createBranch, and the end of newChild: a missing child is made under the mutex
\* of its parent.
Create(t) ==
    /\ pc[t] = "walk"
    /\ call[t].kind = "newChild" \/ (call[t].kind = "newValue" /\ Rest(t) # <<>>)
    /\ Free(GuardOfParent(t))
    /\ IF There(Target(t))
       THEN /\ IF Rest(t) = <<>> THEN End(t) ELSE Continue(t, "descend")
            /\ UNCHANGED mutex
       ELSE /\ Continue(t, "insert")
            /\ mutex' = [mutex EXCEPT ![GuardOfParent(t)] = t]
    /\ UNCHANGED <<created, born, calls, directories, clash>>

KeptUntilDescent(t) == mutex
GivenBack(t) == [mutex EXCEPT ![GuardOfParent(t)] = NoThread]

\* load keeps the mutex.
Insert(t) ==
    /\ pc[t] = "insert"
    /\ created' = [created EXCEPT ![Target(t)] = @ + 1]
    /\ IF call[t].kind = "load"
       THEN /\ Goto(t, "visit")
            /\ call' = [call EXCEPT ![t].rest = <<>>]
            /\ UNCHANGED mutex
       ELSE /\ IF Rest(t) = <<>> THEN End(t) ELSE Continue(t, "descend")
            /\ mutex' = GivenBack(t)
    /\ UNCHANGED <<born, calls, directories, clash>>

\* What a lookup of the next node may answer.  The mutex of the base does not keep
\* out a thread that is changing the map of a node further down: then the map may
\* hide a child it has, or show the one it is getting.
Answers(t) ==
    {There(Head(Rest(t)))}
        \cup {FALSE : u \in Inserting(At(t))}
        \cup {TRUE : u \in {u \in Inserting(At(t)) : Target(u) = Head(Rest(t))}}

\* _children.count() without createBranch: throws if the child is unknown.
LookUp(t) ==
    /\ pc[t] = "walk" /\ call[t].kind = "child" /\ Rest(t) # <<>>
    /\ Free(call[t].base)
    /\ \E found \in Answers(t) : IF found THEN Continue(t, "descend") ELSE End(t)
    /\ UNCHANGED <<created, mutex, born, calls, directories, clash>>

\* _children.at(): throws as well.
Descend(t) ==
    /\ pc[t] = "descend"
    /\ Free(call[t].base)
    /\ \E found \in Answers(t) :
          IF found
          THEN /\ Goto(t, "walk")
               /\ call' = [call EXCEPT ![t].at = Head(Rest(t)), ![t].rest = Tail(@)]
          ELSE End(t)
    /\ UNCHANGED <<created, mutex, born, calls, directories, clash>>

\* The end of child and childExist, which return or throw.
EndChild(t) ==
    /\ pc[t] = "walk" /\ call[t].kind = "child" /\ Rest(t) = <<>>
    /\ Free(At(t))
    /\ End(t)
    /\ UNCHANGED <<created, mutex, born, calls, directories, clash>>

-----------------------------------------------------------------------------
(* newBool and its siblings, at the node of the value *)

AboutTo(v) == {t \in Thread : pc[t] = "create" /\ call[t].last = v}

Unregistered(v) == TRUE
Unknown(v) == born[v] = 0

\* getValueType, with the mutex of ValueNode: a value that is known is kept.
CheckType(t) ==
    /\ pc[t] = "walk" /\ call[t].kind = "newValue" /\ Rest(t) = <<>>
    /\ LET v == call[t].last
       IN  /\ IF Unknown(v) THEN Continue(t, "create") ELSE End(t)
           /\ clash' = IF AboutTo(v) # {} THEN clash \cup {v} ELSE clash
    /\ UNCHANGED <<created, mutex, born, calls, directories>>

\* The mutex was given back in between.
CreateValue(t) ==
    /\ pc[t] = "create"
    /\ born' = [born EXCEPT ![call[t].last] = @ + 1]
    /\ End(t)
    /\ UNCHANGED <<created, mutex, calls, directories, clash>>

-----------------------------------------------------------------------------
(* save, isNeededSave and load *)

\* The children of the node it is at that are still to come, in the order of the map.
ToComeAtBase(t) ==
    {c \in Child(At(t)) : At(t) = call[t].base /\ There(c) /\ call[t].from <= Rank[c]}
ToCome(t) == {c \in Child(At(t)) : There(c) /\ call[t].from <= Rank[c]}
Missing(n) == {d \in Child(n) \cap directories : ~There(d)}
\* load returns at once from a node without a directory.
Ready(t) == Missing(At(t)) = {} /\ (call[t].kind = "load" => At(t) \in directories)

Looking(t) == pc[t] \in {"needed", "folder"}
\* The first thing a look does at a node it has come to.
Here(t) == call[t].from = 0 /\ HasValues(At(t))

\* The mutex of n is taken and it is the node the call is at; or those of n and below
\* are given back, and the call goes on after n.
Lock(t, n) == Free(n) /\ mutex' = [mutex EXCEPT ![n] = t]
GiveBack(t, n) ==
    mutex' = [m \in Node |-> IF Below(n, m) /\ mutex[m] = t THEN NoThread ELSE mutex[m]]
Back(t, n) ==
    call' = [call EXCEPT ![t].at = Parent[n], ![t].from = Rank[n] + 1]

\* load goes to n; save asks first whether there is something to save.
Visit(t, n) ==
    /\ Lock(t, n)
    /\ IF call[t].kind = "load"
       THEN /\ Goto(t, "visit")
            /\ call' = [call EXCEPT ![t].at = n, ![t].from = 0, ![t].visited = @ \cup {n}]
       ELSE /\ Goto(t, "needed")
            /\ call' = [call EXCEPT ![t].at = n, ![t].from = 0, ![t].asked = n]
    /\ UNCHANGED <<created, born, calls, directories, clash>>

Enter(t) == pc[t] = "enter" /\ Visit(t, call[t].base)

\* isNeededSave goes down to the next child, unless there was a value ...
LookDown(t) ==
    /\ Looking(t) /\ ~Here(t) /\ ToCome(t) # {}
    /\ LET n == First(ToCome(t))
       IN  /\ Lock(t, n)
           /\ call' = [call EXCEPT ![t].at = n, ![t].from = 0]
    /\ UNCHANGED <<created, born, pc, calls, directories, clash>>

\* ... and comes back with false ...
LookBack(t) ==
    /\ Looking(t) /\ ~Here(t) /\ ToCome(t) = {}
    /\ GiveBack(t, At(t))
    /\ IF At(t) # call[t].asked THEN Back(t, At(t)) /\ UNCHANGED pc
       ELSE IF pc[t] = "folder" THEN Back(t, At(t)) /\ Goto(t, "folders")
       ELSE IF At(t) # call[t].base THEN Back(t, At(t)) /\ Goto(t, "visit")
       ELSE End(t)
    /\ UNCHANGED <<created, born, calls, directories, clash>>

\* ... or with true, from all it has gone down to: the child gets its directory, or the
\* node is saved, which takes its mutex again.
LookFound(t) ==
    /\ Looking(t) /\ Here(t)
    /\ LET n == call[t].asked
       IN  /\ GiveBack(t, n)
           /\ IF pc[t] = "folder"
              THEN Back(t, n) /\ Goto(t, "folders") /\ directories' = directories \cup {n}
              ELSE /\ call' = [call EXCEPT ![t].at = n] /\ Goto(t, "save")
                   /\ UNCHANGED directories
    /\ UNCHANGED <<created, born, calls, clash>>

\* The directories in that of the node are listed; it is made if there is none, with
\* those above it.
SaveNode(t) ==
    /\ pc[t] = "save"
    /\ Lock(t, At(t))
    /\ call' = [call EXCEPT ![t].visited = @ \cup {At(t)},
                            ![t].bare = {c \in Child(At(t)) \ directories : There(c)}]
    /\ directories' = directories \cup {n \in Node : Below(n, At(t))}
    /\ Goto(t, "folders")
    /\ UNCHANGED <<created, born, calls, clash>>

\* A directory without a child, and the guards give their mutexes back.
SaveThrows(t) ==
    /\ pc[t] = "folders" /\ Missing(At(t)) # {}
    /\ GiveBack(t, call[t].base)
    /\ End(t)
    /\ UNCHANGED <<created, born, calls, directories, clash>>

AskFolder(t) ==
    /\ pc[t] = "folders" /\ Missing(At(t)) = {} /\ call[t].bare # {}
    /\ LET n == First(call[t].bare)
       IN  /\ Lock(t, n)
           /\ call' = [call EXCEPT ![t].at = n, ![t].from = 0, ![t].asked = n,
                                   ![t].bare = @ \ {n}]
    /\ Goto(t, "folder")
    /\ UNCHANGED <<created, born, calls, directories, clash>>

SaveValues(t) ==
    /\ pc[t] = "folders" /\ Missing(At(t)) = {} /\ call[t].bare = {}
    /\ call' = [call EXCEPT ![t].from = 0]
    /\ Goto(t, "visit")
    /\ UNCHANGED <<created, mutex, born, calls, directories, clash>>

\* load makes the children that have a directory.
LoadChild(t) ==
    /\ pc[t] = "visit" /\ call[t].kind = "load"
    /\ \E d \in Missing(At(t)) : call' = [call EXCEPT ![t].rest = <<d>>]
    /\ Goto(t, "insert")
    /\ UNCHANGED <<created, mutex, born, calls, directories, clash>>

VisitChild(t) ==
    /\ pc[t] = "visit" /\ Ready(t) /\ ToCome(t) # {}
    /\ Visit(t, First(ToCome(t)))

Leave(t) ==
    /\ pc[t] = "visit"
    /\ Missing(At(t)) = {} /\ (Ready(t) => ToCome(t) = {})
    /\ GiveBack(t, At(t))
    /\ IF At(t) = call[t].base THEN End(t) ELSE Back(t, At(t)) /\ UNCHANGED pc
    /\ UNCHANGED <<created, born, calls, directories, clash>>

-----------------------------------------------------------------------------
Step(t) ==
    \/ Create(t) \/ Insert(t) \/ LookUp(t) \/ Descend(t) \/ EndChild(t)
    \/ CheckType(t) \/ CreateValue(t)
    \/ Enter(t) \/ LookDown(t) \/ LookBack(t) \/ LookFound(t)
    \/ SaveNode(t) \/ SaveThrows(t) \/ AskFolder(t) \/ SaveValues(t)
    \/ LoadChild(t) \/ VisitChild(t) \/ Leave(t)

Next == \E t \in Thread : CallChild(t) \/ CallNewValue(t) \/ CallSaveOrLoad(t) \/ Step(t)

Spec == Init /\ [][Next]_vars

-----------------------------------------------------------------------------
(* Waiting *)

\* The node whose mutex a thread may have to wait for at its next step.
Needs(t) ==
    CASE pc[t] \in {"enter", "descend"} -> {call[t].base}
      [] pc[t] = "walk" -> IF call[t].kind = "child" /\ Rest(t) # <<>> THEN {call[t].base}
                           ELSE IF call[t].kind = "newValue" /\ Rest(t) = <<>> THEN {}
                           ELSE {At(t)}
      [] pc[t] = "save" -> {At(t)}
      [] pc[t] = "folders" -> IF Missing(At(t)) = {} /\ call[t].bare # {}
                              THEN {First(call[t].bare)} ELSE {}
      [] Looking(t) -> IF ~Here(t) /\ ToCome(t) # {} THEN {First(ToCome(t))} ELSE {}
      [] pc[t] = "visit" -> IF Ready(t) /\ ToCome(t) # {} THEN {First(ToCome(t))} ELSE {}
      [] OTHER -> {}

Waiting(t) == \E n \in Needs(t) : ~Free(n)

-----------------------------------------------------------------------------
(* Properties *)

\* The nodes whose mutex a thread holds.
Held(t) ==
    IF pc[t] = "insert" /\ call[t].kind \in Walking THEN {At(t)}
    ELSE IF pc[t] \in {"needed", "folders", "folder", "visit", "insert"}
         THEN {n \in Node : Below(call[t].base, n) /\ Below(n, At(t))}
    ELSE IF pc[t] = "save"
         THEN {n \in Node \ {At(t)} : Below(call[t].base, n) /\ Below(n, At(t))}
         ELSE {}

\* Types, and each mutex is held by the one thread that is inserting there, or
\* saving or loading there or below.
TypeOK ==
    /\ created \in [Node -> Nat] /\ born \in [Value -> Nat]
    /\ pc \in [Thread -> {"idle", "walk", "descend", "insert", "create", "enter",
                          "needed", "save", "folders", "folder", "visit"}]
    /\ \A t \in Thread :
          /\ call[t].kind \in {"none", "save", "load"} \cup Walking
          /\ {call[t].base, At(t)} \subseteq Node /\ Rest(t) \in Seq(Node)
          /\ call[t].last \in Node \cup Value
          /\ call[t].from \in Nat /\ call[t].asked \in Node /\ call[t].bare \subseteq Node
          /\ call[t].visited \subseteq Node /\ call[t].owed \subseteq Node
    /\ calls \in 0 .. MaxCalls /\ clash \subseteq Value /\ directories \subseteq Node
    /\ \A n \in Node, t \in Thread : mutex[n] = t <=> n \in Held(t)

\* "Do nothing if given hierarchy already exist": threads that create overlapping
\* branches end up with the same nodes, so that no node is replaced, with its values,
\* by a later one; and a value is made, and reset to its default, once, unless two
\* declarations of it overlapped.
CreatedOnce ==
    /\ \A n \in Node : created[n] <= 1
    /\ \A v \in Value : born[v] > 1 => v \in clash

\* A save that does not throw has been to every node that had a value to save when it
\* began, and a load to every such node whose parents had been saved, whatever was
\* created or saved meanwhile.
VisitsAll ==
    [][\A t \in Thread :
          /\ call[t].kind \in {"save", "load"} /\ pc'[t] = "idle"
          /\ ~(pc[t] = "folders" /\ Missing(At(t)) # {})
          => call[t].owed \subseteq call[t].visited]_vars

\* No threads ever wait for each other's mutexes: as long as somebody is inside a
\* call, somebody inside a call can go on.
NoDeadlock ==
    (\E t \in Thread : pc[t] # "idle") => \E t \in Thread : pc[t] # "idle" /\ ~Waiting(t)

\* A lookup of a node that was there before it began finds it ("Throw logic_error
\* exception if the asked node name does not exist", and only then), unless another
\* thread is inserting into the very map it reads, and that map is below the base of
\* the lookup: in the map of the base, and wherever nobody inserts, it is found.
Fails(t) == /\ pc[t] # "idle" /\ pc'[t] = "idle"
            /\ ~(pc[t] = "walk" /\ Rest(t) = <<>>)
FoundUnlessTorn ==
    [][\A t \in Thread :
          Fails(t) /\ call[t].kind = "child" /\ call[t].last \in call[t].owed
              => At(t) # call[t].base /\ Inserting(At(t)) # {}]_vars
=============================================================================
