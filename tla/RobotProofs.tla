---------------------------- MODULE RobotProofs ------------------------------
(***************************************************************************)
(* The robot, a program with its request server, its bound variables and   *)
(* the shells of its users, for any number of clients, any tree of nodes,  *)
(* values and commands to any depth, and any list of bindings: what the    *)
(* states of the requests, of the shells and of the bindings always are    *)
(* (IInv), that a round throws only at a binding whose bindNew threw       *)
(* (Poisoned), that what is there hangs on what is there (Places), and     *)
(* that each request is served as promised (Promised).  From these follows *)
(* what the users of a robot may count on: no shell crashes while the      *)
(* program is not started again and no name that is there is refused to it *)
(* (Survival), a push overwrites nothing without a reason (Overwriting), a *)
(* downloaded node shows what is there (Browsing), everything stays of its *)
(* type (TypeCorrect), and what a user typed comes nearer to its end with  *)
(* every step that changes it (Ending).                                    *)
(***************************************************************************)
EXTENDS Robot, FiniteSetTheorems, SequenceTheorems, WellFoundedInduction, TLAPS

-----------------------------------------------------------------------------
(***************************************************************************)
(* The requests and their answers, for any clients, nodes and values:      *)
(* every line holds what its state calls for, one request is taken at a    *)
(* time, and it is answered from the node or command that was checked.     *)
(* From these, a step of the server is a step of RemoteCalls or a stutter  *)
(* (TakerCalls, ServerCalls, RestartCalls), and one of a client starts or  *)
(* ends a call (ClientCalls).                                              *)
(***************************************************************************)

Operations == {"list", "all", "describe", "get", "set", "call"}
AnyName == Name \cup {Root}
Content == Datum \cup {Absent}
\* The requests: a get names something of the tree, a set a value.
Request ==
    {q \in [op : Operations, name : AnyName, arg : Content \cup ToSet(Kinds)] :
        /\ q.op = "get" => q.name \in Name
        /\ q.op = "set" => q.name \in Values /\ q.arg \in Datum}
Replies == [kind : {"good", "error"}, names : SUBSET Name, datum : Content]
\* The states of a line.
Lines == [at : {"idle", "lost"}] \cup [at : {"asked", "taken"}, req : Request]
         \cup [at : {"answered"}, req : Request, reply : Replies]

LinesOK == line \in [Client -> Lines]
ContentOK == content \in [Name -> Content]

Taken(c) == line[c].at = "taken"
\* One request is taken at a time, and what was found when it was taken is still there.
ServingOK ==
    /\ serving \in {"nobody", "known", "unknown", "running", "walking"}
    /\ \A c, d \in Client : Taken(c) /\ Taken(d) => c = d
    /\ serving = "nobody" <=> \A c \in Client : ~Taken(c)
    /\ serving \in {"known", "running", "walking"}
          => \A c \in Client : Taken(c) => There(line[c].req.name)
    /\ serving = "running" => \A c \in Client : Taken(c) => line[c].req.op = "call"
    /\ serving = "walking" => \A c \in Client : Taken(c) => line[c].req.op = "all"

\* What is there stays there, as long as the program runs.
Remains == \A n \in Name : content[n] # Absent => content'[n] # Absent

\* The listing of all commands, and the child that is put into a node.
WalkOK == /\ walk \in [queue : Seq(Node), listed : BOOLEAN, found : SUBSET Named("command"),
                      before : SUBSET Named("command")]
          /\ walk.listed => walk.queue # <<>>
InsertingOK == inserting \in (Node \ {Root}) \cup {Absent}

RequestsOK == /\ LinesOK /\ ContentOK /\ ServingOK /\ restarts \in Nat
              /\ WalkOK /\ InsertingOK

\* The requests about one name are requests.
LEMMA Simple ==
    ASSUME NEW n \in Name
    PROVE  Describe(n) \in Request /\ Get(n) \in Request /\ CallCommand(n) \in Request
BY DEF Describe, Get, CallCommand, Message, Request, Operations, AnyName, Content

\* So is a set of a value.
LEMMA SimpleSet ==
    ASSUME NEW n \in Values, NEW x \in Datum
    PROVE  Set(n, x) \in Request
BY DEF Set, Message, Request, Operations, AnyName, Content, Values, Named

\* So are the lists of a node and the list of all commands.
LEMMA SimpleList ==
    ASSUME NEW n \in Node, NEW i \in 1 .. 8
    PROVE  ListNames(n, Kinds[i]) \in Request /\ ListAllCommands \in Request
<1>1. Kinds[i] \in ToSet(Kinds)
  BY DEF Kinds, ToSet
<1>2. n \in AnyName /\ Root \in AnyName
  BY DEF Node, AnyName
<1> QED
  BY <1>1, <1>2 DEF ListNames, ListAllCommands, Message, Request, Operations, Content

\* What a line holds in each of its states.
LEMMA LineShape ==
    ASSUME LinesOK, NEW c \in Client
    PROVE  /\ line[c].at \in {"idle", "lost", "asked", "taken", "answered"}
           /\ line[c].at = "idle" => line[c] = Idle
           /\ line[c].at \in {"asked", "taken", "answered"} => line[c].req \in Request
           /\ line[c].at = "answered" => line[c].reply \in Replies
BY DEF LinesOK, Lines, Idle

\* Between two requests nothing is being listed.
LEMMA NoWalkOK ==
    /\ NoWalk \in [queue : Seq(Node), listed : BOOLEAN, found : SUBSET Named("command"),
                   before : SUBSET Named("command")]
    /\ ~NoWalk.listed
BY DEF NoWalk

\* An answer to the request that is taken frees the server.
LEMMA AnswerTyped ==
    ASSUME RequestsOK, NEW c \in Client, Taken(c), NEW reply \in Replies, Answer(c, reply), Remains
    PROVE  LinesOK' /\ ServingOK' /\ WalkOK' /\ InsertingOK' /\ restarts' \in Nat
<1>1. line[c].req \in Request
  BY LineShape DEF Taken, RequestsOK
<1> DEFINE l == [at |-> "answered", req |-> line[c].req, reply |-> reply]
<1>2. l \in Lines /\ l.at = "answered"
  BY <1>1 DEF Lines
<1>3. line' = [line EXCEPT ![c] = l] /\ serving' = "nobody"
  BY DEF Answer, RequestsOK, LinesOK
<1> HIDE DEF l
<1>4. LinesOK' /\ ServingOK'
  BY <1>2, <1>3 DEF RequestsOK, LinesOK, ServingOK, Taken
<1>5. WalkOK' /\ InsertingOK' /\ restarts' \in Nat
  BY NoWalkOK DEF Answer, RequestsOK, InsertingOK, WalkOK
<1> QED
  BY <1>4, <1>5

\* A node lists names.
LEMMA ListedNames ==
    ASSUME NEW n, NEW kind
    PROVE  Listed(n, kind) \in SUBSET Name /\ Listed(n, kind) \in SUBSET Named(kind)
BY DEF Listed, Named

\* The order in which a set is gone through lists each of its members.
LEMMA Ordered ==
    ASSUME NEW S, IsFiniteSet(S)
    PROVE  /\ Cardinality(S) \in Nat
           /\ InSomeOrder(S) \in [1 .. Cardinality(S) -> S]
           /\ \A x \in S : \E i \in 1 .. Cardinality(S) : InSomeOrder(S)[i] = x
<1> DEFINE n == Cardinality(S)
<1>1. n \in Nat /\ ExistsBijection(1 .. n, S)
  BY FS_CardinalityType
<1>2. \E f \in [1 .. n -> S] : IsInjective(f)
  BY <1>1 DEF ExistsBijection, Bijection, Injection, Surjection
<1>3. InSomeOrder(S) \in [1 .. n -> S] /\ IsInjective(InSomeOrder(S))
  BY <1>1, <1>2 DEF InSomeOrder, SetToSeq
<1> HIDE DEF n
<1>4. IsFiniteSet(1 .. n) /\ Cardinality(1 .. n) = n
  BY <1>1, FS_Interval
<1>5. InSomeOrder(S) \in Injection(1 .. n, S)
  BY <1>3 DEF Injection, IsInjective
<1>6. InSomeOrder(S) \in Surjection(1 .. n, S)
  BY <1>4, <1>5, FS_Injection DEF n
<1> QED
  BY <1>1, <1>3, <1>6 DEF n, Surjection

\* So does the sequence of the nodes that a node lists.
LEMMA ListedInOrder ==
    ASSUME NEW n
    PROVE  /\ InSomeOrder(Listed(n, "child")) \in Seq(Node)
           /\ \A m \in Listed(n, "child") : \E i \in DOMAIN InSomeOrder(Listed(n, "child")) :
                 InSomeOrder(Listed(n, "child"))[i] = m
           /\ \A i \in DOMAIN InSomeOrder(Listed(n, "child")) :
                 InSomeOrder(Listed(n, "child"))[i] \in Listed(n, "child")
<1> DEFINE S == Listed(n, "child")
<1>1. IsFiniteSet(S)
  BY ListedNames, FS_Subset, RequestsAssumption
<1>2. S \subseteq Node
  BY DEF Listed, Named, Node
<1> HIDE DEF S
<1>3. /\ Cardinality(S) \in Nat /\ InSomeOrder(S) \in [1 .. Cardinality(S) -> S]
      /\ \A x \in S : \E i \in 1 .. Cardinality(S) : InSomeOrder(S)[i] = x
  BY <1>1, Ordered
<1>4. InSomeOrder(S) \in Seq(Node) /\ DOMAIN InSomeOrder(S) = 1 .. Cardinality(S)
  BY <1>2, <1>3
<1> QED
  BY <1>3, <1>4 DEF S

\* What the server puts in an answer.
LEMMA GoodReplies ==
    /\ \A names \in SUBSET Name, datum \in Content : Reply(names, datum) \in Replies
    /\ Done \in Replies /\ Error \in Replies /\ Absent \in Content
BY DEF Reply, Done, Error, Replies, Content

\* The request that the server takes is the only one.
LEMMA TakerTyped ==
    ASSUME RequestsOK, NEW c \in Client, Begin(c)
    PROVE  RequestsOK' /\ Remains
<1>1. line[c] \in [at : {"asked"}, req : Request]
  BY DEF RequestsOK, LinesOK, Lines, Begin, BeginConcurrently
<1> DEFINE l == [line[c] EXCEPT !.at = "taken"]
<1>2. l \in Lines /\ l.at = "taken" /\ l.req = line[c].req
  BY <1>1 DEF Lines
<1>3. line' = [line EXCEPT ![c] = l]
  BY DEF Begin, BeginConcurrently
<1> HIDE DEF l
<1>4. LinesOK' /\ line'[c] = l /\ \A d \in Client \ {c} : line'[d] = line[d]
  BY <1>2, <1>3 DEF RequestsOK, LinesOK
<1>5. \A d \in Client : line'[d].at = "taken" <=> d = c
  BY <1>2, <1>4 DEF Begin, RequestsOK, ServingOK, Taken
<1>6. ServingOK'
  BY <1>2, <1>4, <1>5 DEF Begin, BeginConcurrently, ServingOK, Taken, Known, There
<1> QED
  BY <1>4, <1>6 DEF Begin, BeginConcurrently, RequestsOK, ContentOK, Remains, WalkOK, InsertingOK

\* Whatever the server answers, the types hold and nothing goes away.
LEMMA ServerTyped ==
    ASSUME RequestsOK, NEW c \in Client, Serve(c) \/ EndCall(c)
    PROVE  RequestsOK' /\ Remains
<1> USE GoodReplies
<1>1. line[c].at = "taken" => line[c].req \in Request
  BY LineShape DEF RequestsOK
<1>2. CASE Refuse(c)
  BY <1>2, AnswerTyped DEF Refuse, RequestsOK, ContentOK, Remains, Taken
<1>3. CASE List(c)
  <2>1. Reply(Listed(line[c].req.name, line[c].req.arg), Absent) \in Replies
    BY ListedNames
  <2> QED
    BY <1>3, <2>1, AnswerTyped DEF List, Serves, RequestsOK, ContentOK, Remains, Taken
<1>4. CASE ListAll(c)
  <2>1. Taken(c) /\ line[c].req.op = "all" /\ serving = "known" /\ serving' = "walking"
        /\ UNCHANGED <<content, line, inserting, restarts>>
        /\ walk' = [NoWalk EXCEPT !.queue = <<Root>>, !.before = Commands]
    BY <1>4 DEF ListAll, Serves, Taken
  <2>2. WalkOK'
    <3>1. Commands \in SUBSET Named("command") /\ <<Root>> \in Seq(Node)
      BY DEF Commands, Node
    <3> QED
      BY <2>1, <3>1 DEF NoWalk, WalkOK
  <2> QED
    BY <2>1, <2>2 DEF RequestsOK, LinesOK, ContentOK, ServingOK, InsertingOK, Taken, Remains, There
<1>11. CASE ListCommands(c)
  <2>1. Listed(Head(walk.queue), "command") \in SUBSET Named("command")
    BY ListedNames
  <2>2. WalkOK'
    BY <1>11, <2>1 DEF ListCommands, RequestsOK, WalkOK
  <2> QED
    BY <1>11, <2>2 DEF ListCommands, RequestsOK, LinesOK, ContentOK, ServingOK, InsertingOK, Taken,
                       Remains, There
<1>12. CASE ListChildren(c)
  <2> DEFINE some == InSomeOrder(Listed(Head(walk.queue), "child"))
  <2>1. Tail(walk.queue) \in Seq(Node) /\ some \in Seq(Node)
    BY <1>12, ListedInOrder DEF ListChildren, RequestsOK, WalkOK
  <2>2. walk' = [walk EXCEPT !.listed = FALSE, !.queue = Tail(walk.queue) \o some]
    BY <1>12 DEF ListChildren, RequestsOK, WalkOK
  <2> HIDE DEF some
  <2> DEFINE queue == Tail(walk.queue) \o some
  <2>4. queue \in Seq(Node)
    BY <2>1
  <2>5. walk' = [walk EXCEPT !.listed = FALSE, !.queue = queue]
    BY <2>2
  <2> HIDE DEF queue
  <2>6. walk \in [queue : Seq(Node), listed : BOOLEAN, found : SUBSET Named("command"),
                  before : SUBSET Named("command")]
    BY DEF RequestsOK, WalkOK
  <2>3. WalkOK'
    BY ONLY <2>4, <2>5, <2>6 DEF WalkOK
  <2> QED
    BY <1>12, <2>3 DEF ListChildren, RequestsOK, LinesOK, ContentOK, ServingOK, InsertingOK, Taken,
                       Remains, There
<1>13. CASE ListedAll(c)
  <2>1. walk.found \in SUBSET Name
    BY DEF RequestsOK, WalkOK, Named
  <2>2. Reply(walk.found, Absent) \in Replies
    BY <2>1
  <2> QED
    BY <1>13, <2>2, AnswerTyped DEF ListedAll, Walks, RequestsOK, ContentOK, Remains, Taken
<1>5. CASE Details(c)
  BY <1>5, AnswerTyped DEF Details, Serves, RequestsOK, ContentOK, Remains, Taken
<1>6. CASE GetValue(c)
  <2>1. content[line[c].req.name] \in Content
    BY <1>1, <1>6 DEF GetValue, Serves, Request, RequestsOK, ContentOK
  <2>2. Reply({}, content[line[c].req.name]) \in Replies
    BY <2>1
  <2> QED
    BY <1>6, <2>2, AnswerTyped DEF GetValue, Serves, RequestsOK, ContentOK, Remains, Taken
<1>7. CASE SetValue(c)
  <2>1. line[c].req.arg \in Datum
    BY <1>1, <1>7 DEF SetValue, Serves, Request
  <2>2. content' = [content EXCEPT ![line[c].req.name] = line[c].req.arg]
    BY <1>7 DEF SetValue
  <2>3. ContentOK' /\ Remains
    BY <2>1, <2>2, RequestsAssumption DEF RequestsOK, ContentOK, Content, Remains
  <2>4. \E reply \in Replies : Answer(c, reply)
    BY <1>7 DEF SetValue
  <2> QED
    BY <1>7, <2>3, <2>4, AnswerTyped DEF SetValue, Serves, RequestsOK, Taken
<1>8. CASE CallResult(c)
  BY <1>8 DEF CallResult, Serves, RequestsOK, LinesOK, ContentOK, ServingOK, Taken, Remains, There,
              WalkOK, InsertingOK
<1>9. CASE EndCall(c)
  <2>1. \E reply \in Replies : Answer(c, reply)
    BY <1>9 DEF EndCall
  <2> QED
    BY <1>9, <2>1, AnswerTyped DEF EndCall, RequestsOK, ContentOK, Remains, Taken
<1> QED
  BY <1>2, <1>3, <1>4, <1>5, <1>6, <1>7, <1>8, <1>9, <1>11, <1>12, <1>13 DEF Serve

\* The server's thread acts on the request it has taken, and answers no other.
LEMMA ServerTouches ==
    ASSUME NEW c \in Client, Serve(c) \/ EndCall(c)
    PROVE  Taken(c) /\ (line' = line \/ \E reply : Answer(c, reply))
<1>1. Taken(c)
  BY DEF Serve, Refuse, List, ListAll, ListCommands, ListChildren, ListedAll, Details, GetValue,
         SetValue, CallResult, EndCall, Serves, Walks, Taken
<1>2. CASE CallResult(c) \/ ListAll(c) \/ ListCommands(c) \/ ListChildren(c)
  BY <1>1, <1>2 DEF CallResult, ListAll, ListCommands, ListChildren
<1>3. CASE ~(CallResult(c) \/ ListAll(c) \/ ListCommands(c) \/ ListChildren(c))
  BY <1>1, <1>3 DEF Serve, Refuse, List, ListedAll, Details, GetValue, SetValue, EndCall
<1> QED
  BY <1>1, <1>2, <1>3

\* A client that asks or reads its answer does not touch the request that is taken.
LEMMA ClientTyped ==
    ASSUME RequestsOK, NEW c \in Client, line[c].at \in {"idle", "answered"},
           NEW l \in Lines, l.at \in {"idle", "asked"}, line' = [line EXCEPT ![c] = l],
           UNCHANGED <<content, serving, walk, inserting, restarts>>
    PROVE  RequestsOK' /\ Remains
<1>1. \A d \in Client : Taken(d)' <=> Taken(d)
  BY DEF RequestsOK, LinesOK, Taken
<1>2. \A d \in Client : Taken(d) => line'[d] = line[d]
  BY DEF RequestsOK, LinesOK, Taken
<1>3. ServingOK'
  BY <1>1, <1>2 DEF RequestsOK, ServingOK, There
<1> QED
  BY <1>3 DEF RequestsOK, LinesOK, ContentOK, Remains, WalkOK, InsertingOK

\* A restart frees the server, and a client keeps its line or loses its answer.
LEMMA RestartTyped ==
    ASSUME RequestsOK, Restart
    PROVE  /\ RequestsOK'
           /\ \A c \in Client : \/ line'[c] = line[c] /\ ~Taken(c)
                                \/ ~IsIdle(c) /\ line'[c] = [at |-> "lost"]
<1>1. \A c \in Client : line'[c] \in Surviving(line[c])
  BY DEF Restart
<1>2. ASSUME NEW c \in Client
      PROVE  \/ line'[c] = line[c] /\ ~Taken(c)
             \/ ~IsIdle(c) /\ line'[c] = [at |-> "lost"]
  <2>1. CASE IsIdle(c)
    <3>1. Surviving(line[c]) = {Idle} /\ line[c] = Idle
      BY <2>1, LineShape DEF Surviving, IsIdle, RequestsOK
    <3> QED
      BY <1>1, <3>1 DEF Idle, Taken
  <2>2. CASE Taken(c)
    <3>1. Surviving(line[c]) = {[at |-> "lost"]}
      BY <2>2 DEF Surviving, Taken
    <3> QED
      BY <1>1, <2>2, <3>1 DEF IsIdle, Taken
  <2>3. CASE ~IsIdle(c) /\ ~Taken(c)
    <3>1. Surviving(line[c]) = {line[c], [at |-> "lost"]}
      BY <2>3 DEF Surviving, Taken, IsIdle
    <3> QED
      BY <1>1, <2>3, <3>1
  <2> QED
    BY <2>1, <2>2, <2>3
<1>3. LinesOK'
  <2>1. DOMAIN line' = Client /\ line' = [c \in Client |-> line'[c]]
    BY DEF Restart
  <2>2. [at |-> "lost"] \in Lines
    BY DEF Lines
  <2> QED
    BY <1>2, <2>1, <2>2 DEF LinesOK, RequestsOK
<1>4. \A c \in Client : ~Taken(c)'
  BY <1>2 DEF Taken
<1>5. ContentOK' /\ serving' = "nobody" /\ restarts' \in Nat
  BY DEF Restart, ContentOK, Content, RequestsOK
<1>6. ServingOK' /\ WalkOK' /\ InsertingOK'
  BY <1>4, <1>5, NoWalkOK DEF Restart, ServingOK, WalkOK, InsertingOK
<1> QED
  BY <1>2, <1>3, <1>5, <1>6 DEF RequestsOK

-----------------------------------------------------------------------------
\* The call that each state of a line stands for.
LEMMA CallsAre ==
    ASSUME NEW c \in Client
    PROVE  /\ line[c].at = "idle" => CallOf(line[c]) = [at |-> "none"]
           /\ line[c].at = "lost" => CallOf(line[c]) = [at |-> "lost"]
           /\ line[c].at = "answered" => CallOf(line[c]) = [at |-> "done", answer |-> line[c].reply]
           /\ line[c].at = "asked" => CallOf(line[c]) = [at |-> "begun", req |-> line[c].req]
           /\ line[c].at = "taken" /\ serving = "unknown"
                  => CallOf(line[c]) = [at |-> "done", answer |-> Error]
           /\ line[c].at = "taken" /\ serving = "walking"
                  => CallOf(line[c]) = [at |-> "walking", req |-> line[c].req, before |-> walk.before]
           /\ line[c].at = "taken" /\ serving \notin {"unknown", "walking"}
                  => CallOf(line[c]) = [at |-> "begun", req |-> line[c].req]
BY DEF CallOf

\* The same, in the next state.
LEMMA CallsAreNext ==
    ASSUME NEW c \in Client
    PROVE  /\ line'[c].at = "idle" => CallOf(line[c])' = [at |-> "none"]
           /\ line'[c].at = "lost" => CallOf(line[c])' = [at |-> "lost"]
           /\ line'[c].at = "answered" => CallOf(line[c])' = [at |-> "done", answer |-> line'[c].reply]
           /\ line'[c].at = "asked" => CallOf(line[c])' = [at |-> "begun", req |-> line'[c].req]
           /\ line'[c].at = "taken" /\ serving' = "unknown"
                  => CallOf(line[c])' = [at |-> "done", answer |-> Error]
           /\ line'[c].at = "taken" /\ serving' = "walking"
                  => CallOf(line[c])' = [at |-> "walking", req |-> line'[c].req, before |-> walk'.before]
           /\ line'[c].at = "taken" /\ serving' \notin {"unknown", "walking"}
                  => CallOf(line[c])' = [at |-> "begun", req |-> line'[c].req]
BY DEF CallOf

\* Whoever is not taken is in the same state of its call as long as its line is.
LEMMA OtherCalls ==
    ASSUME LinesOK, NEW c \in Client, line'[c] = line[c], line[c].at # "taken"
    PROVE  CallOf(line[c])' = CallOf(line[c])
BY LineShape, CallsAre, CallsAreNext

\* A client starts a call, ends it, or does nothing that RemoteCalls sees.
LEMMA ClientCalls ==
    ASSUME RequestsOK, NEW c \in Client, line[c].at \in {"idle", "answered"},
           NEW l \in Lines, l.at \in {"idle", "asked"}, line' = [line EXCEPT ![c] = l],
           UNCHANGED <<content, serving, walk, inserting, restarts>>
    PROVE  Calls!Start(c) \/ Calls!End(c) \/ UNCHANGED Calls!vars
<1> LinesOK /\ line'[c] = l
  BY DEF RequestsOK, LinesOK
<1>1. \A d \in Client \ {c} : CallOf(line[d])' = CallOf(line[d])
  <2> TAKE d \in Client \ {c}
  <2>1. line'[d] = line[d]
    BY DEF LinesOK
  <2>2. CASE line[d].at = "taken"
    <3>1. serving' = serving
      OBVIOUS
    <3>2. CASE serving = "unknown"
      BY <2>1, <2>2, <3>1, <3>2, CallsAre, CallsAreNext
    <3>3. CASE serving \notin {"unknown", "walking"}
      BY <2>1, <2>2, <3>1, <3>3, CallsAre, CallsAreNext
    <3>4. CASE serving = "walking"
      BY <2>1, <2>2, <3>1, <3>4, CallsAre, CallsAreNext
    <3> QED
      BY <3>2, <3>3, <3>4
  <2> QED
    BY <2>1, <2>2, OtherCalls
<1>2. CASE l.at = "asked"
  <2>1. CallOf(line[c]).at \in {"none", "done"}
    BY Zenon DEF CallOf
  <2>2. CallOf(line[c])' = [at |-> "begun", req |-> line'[c].req]
    BY <1>2, CallsAreNext
  <2> QED
    BY <1>1, <2>1, <2>2 DEF Calls!Start
<1>3. CASE l.at = "idle"
  <2>1. CallOf(line[c])' = [at |-> "none"]
    BY <1>3, CallsAreNext
  <2>2. CASE line[c].at = "idle"
    <3>1. CallOf(line[c]) = [at |-> "none"]
      BY <2>2, CallsAre
    <3> QED
      BY <1>1, <2>1, <3>1 DEF Calls!vars
  <2>3. CASE line[c].at = "answered"
    <3>1. CallOf(line[c]) = [at |-> "done", answer |-> line[c].reply]
      BY <2>3, CallsAre
    <3>2. CallOf(line[c]).at = "done"
      BY <3>1
    <3> QED
      BY <1>1, <2>1, <3>2 DEF Calls!End
  <2> QED
    BY <2>2, <2>3
<1> QED
  BY <1>2, <1>3

\* What the server does with one line leaves the other calls as they are.
LEMMA CallsApart ==
    ASSUME RequestsOK, NEW c \in Client, Begin(c) \/ Taken(c), NEW l, line' = [line EXCEPT ![c] = l]
    PROVE  /\ \A d \in Client \ {c} : CallOf(line[d])' = CallOf(line[d])
           /\ line'[c] = l
<1> LinesOK
  BY DEF RequestsOK
<1>1. \A d \in Client \ {c} : line'[d] = line[d] /\ line[d].at # "taken"
  BY DEF LinesOK, RequestsOK, ServingOK, Taken, Begin
<1> QED
  BY <1>1, OtherCalls DEF LinesOK

\* A call that ends with an answer.
LEMMA CallEnds ==
    ASSUME NEW c \in Client, NEW answer,
           CallOf(line[c])' = [at |-> "done", answer |-> answer],
           \A d \in Client \ {c} : CallOf(line[d])' = CallOf(line[d]),
           inserting' = inserting
    PROVE  Calls!Answered(c, answer)
<1> DEFINE call == [d \in Client |-> CallOf(line[d])]
           done == [at |-> "done", answer |-> answer]
<1>1. call' = [call EXCEPT ![c] = done]
  OBVIOUS
<1> QED
  BY <1>1 DEF Calls!Answered

\* An answer out of those the tree gives is a call performed.
LEMMA Performs ==
    ASSUME NEW c \in Client, NEW req, NEW answer,
           CallOf(line[c]) = [at |-> "begun", req |-> req],
           Calls!Answered(c, answer), Calls!Exists(req.name),
           answer \in Calls!Answers(req),
           content' = IF req.op = "set"
                      THEN [content EXCEPT ![req.name] = req.arg] ELSE content
    PROVE  Calls!Perform(c)
<1> DEFINE call == [d \in Client |-> CallOf(line[d])]
<1>2. call[c].at = "begun" /\ call[c].req = req
  OBVIOUS
<1> HIDE DEF call
<1>3. /\ call[c].at = "begun" /\ Calls!Exists(call[c].req.name)
      /\ \E a \in Calls!Answers(call[c].req) : Calls!Answered(c, a)
      /\ content' = IF call[c].req.op = "set"
                    THEN [content EXCEPT ![call[c].req.name] = call[c].req.arg]
                    ELSE content
  BY <1>2
<1> QED
  BY <1>3 DEF Calls!Perform, call

\* What may be refused: an unknown name, or one whose way is being changed.
Refusable(n) == ~There(n) \/ Torn(n)

\* An error for such a name is a call refused.
LEMMA Refuses ==
    ASSUME NEW c \in Client, NEW req,
           CallOf(line[c]) = [at |-> "begun", req |-> req],
           Calls!Answered(c, Error), Refusable(req.name), content' = content
    PROVE  Calls!Refuse(c)
<1> DEFINE call == [d \in Client |-> CallOf(line[d])]
<1>1. call[c].at = "begun" /\ call[c].req = req
  OBVIOUS
<1>2. ~Calls!Exists(req.name) \/ Calls!MayMiss(req.name)
  BY DEF Refusable, There, Torn, Growing, Calls!Exists, Calls!MayMiss
<1>3. Calls!Bad = Error
  BY DEF Calls!Bad, Error
<1> HIDE DEF call
<1>4. /\ call[c].at = "begun"
      /\ ~Calls!Exists(call[c].req.name) \/ Calls!MayMiss(call[c].req.name)
      /\ Calls!Answered(c, Calls!Bad)
      /\ content' = content
  BY <1>1, <1>2, <1>3
<1> QED
  BY <1>4 DEF Calls!Refuse, call

\* To take a request is a stutter, unless its name is not found: that settles the answer.
LEMMA TakerCalls ==
    ASSUME RequestsOK, NEW c \in Client, Begin(c)
    PROVE  Calls!Refuse(c) \/ UNCHANGED Calls!vars
<1> DEFINE l == [line[c] EXCEPT !.at = "taken"]
<1>1. /\ line' = [line EXCEPT ![c] = l] /\ line[c].at = "asked" /\ content' = content
      /\ inserting' = inserting
  BY DEF Begin, BeginConcurrently
<1>2. line[c] \in [at : {"asked"}, req : Request]
  BY <1>1 DEF RequestsOK, LinesOK, Lines
<1>3. l.at = "taken" /\ l.req = line[c].req
  BY <1>2
<1> HIDE DEF l
<1>4. line'[c] = l /\ \A d \in Client \ {c} : CallOf(line[d])' = CallOf(line[d])
  BY <1>1, CallsApart
<1>5. CallOf(line[c]) = [at |-> "begun", req |-> line[c].req]
  BY <1>1, CallsAre
<1>6. CASE serving' = "known"
  <2>2. CallOf(line[c])' = [at |-> "begun", req |-> line[c].req]
    BY <1>3, <1>4, <1>6, CallsAreNext
  <2> QED
    BY <1>1, <1>4, <1>5, <2>2 DEF Calls!vars
<1>7. CASE serving' = "unknown"
  <2>1. CallOf(line[c])' = [at |-> "done", answer |-> Error]
    BY <1>3, <1>4, <1>7, CallsAreNext
  <2>2. Refusable(line[c].req.name)
    BY <1>7 DEF Begin, BeginConcurrently, Known, Refusable
  <2>3. Calls!Answered(c, Error)
    BY <1>1, <1>4, <2>1, CallEnds
  <2> QED
    BY <1>1, <1>5, <2>2, <2>3, Refuses
<1> QED
  BY <1>6, <1>7 DEF Begin, BeginConcurrently

\* An answer ends the call, and no other.
LEMMA AnswerCalls ==
    ASSUME RequestsOK, NEW c \in Client, Taken(c), NEW reply, Answer(c, reply)
    PROVE  /\ CallOf(line[c])' = [at |-> "done", answer |-> reply]
           /\ \A d \in Client \ {c} : CallOf(line[d])' = CallOf(line[d])
           /\ Calls!Answered(c, reply)
<1> DEFINE l == [at |-> "answered", req |-> line[c].req, reply |-> reply]
<1>1. line' = [line EXCEPT ![c] = l] /\ inserting' = inserting
  BY DEF Answer, RequestsOK, LinesOK
<1>2. l.at = "answered" /\ l.reply = reply
  OBVIOUS
<1> HIDE DEF l
<1>3. line'[c] = l /\ \A d \in Client \ {c} : CallOf(line[d])' = CallOf(line[d])
  BY <1>1, CallsApart
<1>5. CallOf(line[c])' = [at |-> "done", answer |-> reply]
  BY <1>2, <1>3, CallsAreNext
<1> QED
  BY <1>1, <1>3, <1>5, CallEnds

\* The answers the tree gives, operation by operation.
LEMMA AnswersAre ==
    ASSUME NEW r
    PROVE  /\ r.op = "list" => Calls!Answers(r) = {Reply({n \in Calls!Below(r.name) : Kind[n] = r.arg}, Absent)}
           /\ r.op = "get" => Calls!Answers(r) = {Reply({}, content[r.name])}
           /\ r.op = "describe" => Calls!Answers(r) = {Done}
           /\ r.op \in {"set", "call"}
                  => Calls!Answers(r) = {Done} \cup {Error : n \in Fragile \cap {r.name}}
<1> USE DEF Calls!Answers, Calls!Good, Calls!Bad, Reply, Done, Error
<1>1. CASE r.op = "list"
  BY <1>1
<1>3. CASE r.op = "get"
  BY <1>3
<1>4. CASE r.op = "describe"
  BY <1>4
<1>5. CASE r.op \in {"set", "call"}
  BY <1>5
<1> QED
  BY <1>1, <1>3, <1>4, <1>5

\* A request that is performed when it is answered.
LEMMA ServedCalls ==
    ASSUME RequestsOK, NEW c \in Client, Taken(c), serving \in {"known", "running"},
           NEW reply, Answer(c, reply), reply \in Calls!Answers(line[c].req),
           content' = IF line[c].req.op = "set"
                      THEN [content EXCEPT ![line[c].req.name] = line[c].req.arg] ELSE content
    PROVE  Calls!Perform(c)
<1>1. CallOf(line[c]) = [at |-> "begun", req |-> line[c].req]
  BY CallsAre DEF Taken
<1>2. Calls!Exists(line[c].req.name)
  BY DEF RequestsOK, ServingOK, There, Calls!Exists
<1>3. Calls!Answered(c, reply)
  BY AnswerCalls
<1> QED
  BY <1>1, <1>2, <1>3, Performs

-----------------------------------------------------------------------------
(***************************************************************************)
(* The listing of all commands goes from node to node while the program    *)
(* declares.  It has found what is there, and each command that was there  *)
(* when it began, or it still has to explore a node that the path of the   *)
(* command goes through (WalkInv): for such a node is there, and so its    *)
(* parent lists it (HomeOK).                                               *)
(***************************************************************************)

\* What is there, or is just being made, is in nodes that are there.
HomeOK == \A n \in Name : There(n) \/ n = inserting => \A m \in ToSet(Path[n]) : There(m)

\* The commands below the nodes in the queue: those in the first one are found already
\* when it is listed.
ToExplore(n) == \E i \in 1 .. Len(walk.queue) :
                   /\ walk.queue[i] \in ToSet(Path[n])
                   /\ ~(walk.listed /\ i = 1 /\ walk.queue[i] = In[n])
WalkInv ==
    serving = "walking" =>
        /\ walk.found \subseteq Commands /\ walk.before \subseteq Commands
        /\ \A n \in walk.before \ walk.found : ToExplore(n)

\* The path of a name, step by step.
LEMMA PathSteps ==
    ASSUME NEW n \in Name
    PROVE  /\ Path[n] \in Seq(Node) /\ Path[n] # <<>>
           /\ Root \in ToSet(Path[n]) /\ In[n] \in ToSet(Path[n])
           /\ ToSet(Path[n]) = ToSet(Path[In[n]]) \cup {In[n]}
           /\ \A m \in ToSet(Path[n]) :
                 \/ m = In[n]
                 \/ \E k \in ToSet(Path[n]) : k \in Name /\ In[k] = m /\ Kind[k] = "child"
<1> USE RequestsAssumption DEF PathAssumption
<1>1. In[n] \in Name \cup {Root} /\ Path[In[n]] \in Seq(Node)
  OBVIOUS
<1> DEFINE p == Path[n]  q == Path[In[n]]
<1>2. /\ p \in Seq(Node) /\ q \in Seq(Node) /\ p = Append(q, In[n]) /\ p[1] = Root
      /\ \A i \in 2 .. Len(p) : p[i] # Root /\ In[p[i]] = p[i - 1]
  BY <1>1
<1> HIDE DEF p, q
<1>3. Len(p) = Len(q) + 1 /\ Len(q) \in Nat /\ p[Len(p)] = In[n]
      /\ \A i \in 1 .. Len(q) : p[i] = q[i]
  BY ONLY <1>2
<1>4. ToSet(p) = {p[i] : i \in 1 .. Len(p)} /\ ToSet(q) = {q[i] : i \in 1 .. Len(q)}
  BY ONLY <1>2 DEF ToSet
<1>5. ToSet(p) = ToSet(q) \cup {In[n]}
  <2>1. 1 .. Len(p) = 1 .. Len(q) \cup {Len(p)}
    BY ONLY <1>3
  <2> QED
    BY ONLY <1>3, <1>4, <2>1
<1>6. Root \in ToSet(p) /\ p # <<>>
  <2>1. 1 \in 1 .. Len(p)
    BY ONLY <1>3
  <2> QED
    BY ONLY <1>2, <1>3, <1>4, <2>1
<1>7. ASSUME NEW m \in ToSet(p), m # In[n]
      PROVE  \E k \in ToSet(p) : k \in Name /\ In[k] = m /\ Kind[k] = "child"
  <2>1. PICK i \in 1 .. Len(p) : m = p[i]
    BY <1>4
  <2>2. i # Len(p)
    BY <1>3, <1>7, <2>1
  <2>3. PICK j \in 2 .. Len(p) : j - 1 = i
    <3>1. i + 1 \in 2 .. Len(p) /\ i + 1 - 1 = i
      BY ONLY <1>3, i \in 1 .. Len(p), <2>2
    <3> QED
      BY <3>1
  <2>4. p[j] # Root /\ In[p[j]] = m
    BY <1>2, <2>1, <2>3
  <2>5. p[j] \in Node
    BY ONLY <1>2, j \in 2 .. Len(p)
  <2>6. p[j] \in ToSet(p) /\ p[j] \in Name
    BY <1>4, <2>3, <2>4, <2>5 DEF Node
  <2>7. Kind[p[j]] = "child"
    BY <2>4, <2>5 DEF Node
  <2> QED
    BY <2>4, <2>6, <2>7
<1> QED
  BY <1>2, <1>5, <1>6, <1>7 DEF p, q

\* A command that is there is in nodes that are there; it is found when the one it is in
\* is listed, or its path goes on through a child of the one that is.
LEMMA WalkStarts ==
    ASSUME HomeOK, NEW c \in Client, ListAll(c)
    PROVE  WalkInv'
<1>1. /\ walk'.queue = <<Root>> /\ ~walk'.listed /\ walk'.found = {} /\ walk'.before = Commands
      /\ content' = content
  BY DEF ListAll, NoWalk
<1>2. Commands' = Commands
  BY <1>1 DEF Commands, There
<1>3. ASSUME NEW n \in Commands
      PROVE  ToExplore(n)'
  <2>1. Root \in ToSet(Path[n])
    BY PathSteps DEF Commands, Named
  <2> QED
    BY <1>1, <2>1 DEF ToExplore
<1> QED
  BY <1>1, <1>2, <1>3 DEF WalkInv

\* The commands of the first node in the queue.
LEMMA WalkFinds ==
    ASSUME WalkOK, WalkInv, NEW c \in Client, ListCommands(c)
    PROVE  WalkInv'
<1> DEFINE h == Head(walk.queue)
<1>1. /\ walk' = [walk EXCEPT !.listed = TRUE, !.found = walk.found \cup Listed(h, "command")]
      /\ content' = content /\ walk.queue # <<>> /\ ~walk.listed /\ serving = "walking"
  BY DEF ListCommands, Walks, WalkOK
<1>2. /\ walk'.queue = walk.queue /\ walk'.before = walk.before
      /\ walk'.found = walk.found \cup Listed(h, "command")
  BY <1>1 DEF WalkOK
<1>3. Commands' = Commands /\ Listed(h, "command") \subseteq Commands
  BY <1>1 DEF Commands, Listed, There
<1>4. ASSUME NEW n \in walk.before, n \notin walk'.found
      PROVE  ToExplore(n)'
  <2>1. n \in Commands /\ n \notin walk.found /\ n \notin Listed(h, "command")
    BY <1>1, <1>2, <1>4 DEF WalkInv
  <2>2. In[n] # h
    BY <2>1 DEF Listed, Commands
  <2>3. PICK i \in 1 .. Len(walk.queue) : walk.queue[i] \in ToSet(Path[n])
    BY <1>1, <2>1 DEF WalkInv, ToExplore
  <2>4. walk.queue[1] = h
    BY <1>1 DEF WalkOK
  <2> QED
    BY <1>2, <2>2, <2>3, <2>4 DEF ToExplore
<1> QED
  BY <1>1, <1>2, <1>3, <1>4 DEF WalkInv

\* What is appended to a sequence follows it.
LEMMA Appended ==
    ASSUME NEW S, NEW a \in Seq(S), NEW b \in Seq(S), NEW j \in DOMAIN b
    PROVE  Len(a) + j \in 1 .. Len(a \o b) /\ (a \o b)[Len(a) + j] = b[j]
OBVIOUS

\* Its children come to the end of the queue.
LEMMA WalkGoesOn ==
    ASSUME WalkOK, WalkInv, HomeOK, NEW c \in Client, ListChildren(c)
    PROVE  WalkInv'
<1> DEFINE h == Head(walk.queue)
           some == InSomeOrder(Listed(h, "child"))
           rest == Tail(walk.queue)
<1>1. /\ walk' = [walk EXCEPT !.listed = FALSE, !.queue = rest \o some]
      /\ content' = content /\ walk.listed /\ serving = "walking"
  BY DEF ListChildren, Walks, WalkOK
<1>2. walk.queue \in Seq(Node) /\ walk.queue # <<>> /\ walk.queue[1] = h
  BY <1>1 DEF WalkOK
<1>3. /\ rest \in Seq(Node) /\ Len(rest) = Len(walk.queue) - 1
      /\ \A i \in 1 .. Len(rest) : rest[i] = walk.queue[i + 1]
  BY <1>2
<1>4. some \in Seq(Node) /\ \A m \in Listed(h, "child") : \E i \in DOMAIN some : some[i] = m
  BY ListedInOrder
<1>5. /\ walk'.queue = rest \o some /\ ~walk'.listed
      /\ walk'.before = walk.before /\ walk'.found = walk.found
  BY <1>1 DEF WalkOK
<1>6. Commands' = Commands
  BY <1>1 DEF Commands, There
<1> HIDE DEF rest, some
<1>7. ASSUME NEW n \in walk.before, n \notin walk.found
      PROVE  ToExplore(n)'
  <2>1. n \in Name /\ There(n)
    BY <1>1, <1>7 DEF WalkInv, Commands, Named
  <2>2. PICK i \in 1 .. Len(walk.queue) :
            walk.queue[i] \in ToSet(Path[n]) /\ ~(i = 1 /\ walk.queue[i] = In[n])
    BY <1>1, <1>7 DEF WalkInv, ToExplore
  <2>3. SUFFICES \E j \in 1 .. Len(walk'.queue) : walk'.queue[j] \in ToSet(Path[n])
    BY <1>5 DEF ToExplore
  <2>4. CASE i > 1
    <3>1. i - 1 \in 1 .. Len(rest) /\ rest[i - 1] = walk.queue[i]
      BY <1>2, <1>3, <2>4
    <3>2. i - 1 \in 1 .. Len(rest \o some) /\ (rest \o some)[i - 1] = rest[i - 1]
      BY <1>3, <1>4, <3>1
    <3> QED
      BY <1>5, <2>2, <3>1, <3>2
  <2>5. CASE i = 1
    <3>1. h \in ToSet(Path[n]) /\ h # In[n]
      BY <1>2, <2>2, <2>5
    <3>2. PICK k \in ToSet(Path[n]) : k \in Name /\ In[k] = h /\ Kind[k] = "child"
      BY <2>1, <3>1, PathSteps
    <3>3. k \in Listed(h, "child")
      BY <2>1, <3>2 DEF HomeOK, Listed, Named
    <3>4. PICK j \in DOMAIN some : some[j] = k
      BY <1>4, <3>3
    <3>6. rest \in Seq(Node) /\ some \in Seq(Node) /\ j \in DOMAIN some
      BY <1>3, <1>4, <3>4
    <3>5. Len(rest) + j \in 1 .. Len(rest \o some) /\ (rest \o some)[Len(rest) + j] = k
      BY ONLY <3>4, <3>6, Appended, Zenon
    <3> QED
      BY <1>5, <3>2, <3>5
  <2> QED
    BY <2>2, <2>4, <2>5
<1> QED
  BY <1>1, <1>5, <1>6, <1>7 DEF WalkInv

\* Whatever else the server does, nothing is being listed afterwards.
LEMMA ServerWalks ==
    ASSUME RequestsOK, HomeOK, WalkInv, NEW c \in Client, Serve(c) \/ EndCall(c)
    PROVE  WalkInv'
<1>1. CASE ListAll(c) \/ ListCommands(c) \/ ListChildren(c)
  BY <1>1, WalkStarts, WalkFinds, WalkGoesOn DEF RequestsOK
<1>2. CASE ~(ListAll(c) \/ ListCommands(c) \/ ListChildren(c))
  <2>1. serving' # "walking"
    BY <1>2 DEF Serve, Refuse, List, ListedAll, Details, GetValue, SetValue, CallResult, EndCall, Answer
  <2> QED
    BY <2>1 DEF WalkInv
<1> QED
  BY <1>1, <1>2

\* A step that only adds to the tree.
LEMMA WalkStays ==
    ASSUME WalkInv, Remains, serving' = serving, walk' = walk
    PROVE  WalkInv'
<1>1. Commands \subseteq Commands'
  BY DEF Commands, Remains, There, Named
<1>2. \A n : ToExplore(n) => ToExplore(n)'
  BY DEF ToExplore
<1> QED
  BY <1>1, <1>2 DEF WalkInv

\* What the server does with the request it has taken is a step of its call, or a stutter.
LEMMA ServerCalls ==
    ASSUME RequestsOK, WalkInv, NEW c \in Client, Serve(c) \/ EndCall(c)
    PROVE  \/ Calls!Perform(c) \/ Calls!Refuse(c) \/ Calls!BeginAll(c) \/ Calls!EndAll(c)
           \/ UNCHANGED Calls!vars
<1> DEFINE r == line[c].req
<1>1. Taken(c) /\ r \in Request
  BY ServerTouches, LineShape DEF Taken, RequestsOK
<1>3. CASE Refuse(c)
  <2>1. Answer(c, Error) /\ content' = content
    BY <1>3 DEF Refuse
  <2>2. inserting' = inserting
    BY <2>1 DEF Answer
  <2>3. /\ CallOf(line[c])' = [at |-> "done", answer |-> Error]
        /\ \A d \in Client \ {c} : CallOf(line[d])' = CallOf(line[d])
        /\ Calls!Answered(c, Error)
    BY <1>1, <2>1, AnswerCalls
  <2>4. CASE serving = "unknown"
    <3>1. CallOf(line[c]) = [at |-> "done", answer |-> Error]
      BY <1>1, <2>4, CallsAre DEF Taken
    <3> QED
      BY <2>1, <2>2, <2>3, <3>1 DEF Calls!vars
  <2>5. CASE serving # "unknown"
    <3>1. serving = "known" /\ Torn(r.name)
      BY <1>3, <2>5 DEF Refuse
    <3>2. CallOf(line[c]) = [at |-> "begun", req |-> r]
      BY <1>1, <3>1, CallsAre DEF Taken
    <3> QED
      BY <2>1, <2>3, <3>1, <3>2, Refuses DEF Refusable
  <2> QED
    BY <2>4, <2>5
<1>4. CASE List(c)
  <2> DEFINE names == Listed(r.name, r.arg)
  <2>1. r.op = "list" /\ serving = "known" /\ content' = content
        /\ Answer(c, Reply(names, Absent))
    BY <1>4 DEF List, Serves
  <2>2. names = {n \in Calls!Below(r.name) : Kind[n] = r.arg}
    BY RequestsAssumption DEF Listed, Named, There, Calls!Below
  <2>3. Reply(names, Absent) \in Calls!Answers(r)
    BY <2>1, <2>2, AnswersAre
  <2> QED
    BY <1>1, <2>1, <2>3, ServedCalls
<1>5. CASE ListAll(c)
  <2>1. /\ r.op = "all" /\ serving = "known" /\ serving' = "walking"
        /\ UNCHANGED <<content, line, inserting>> /\ walk'.before = Commands
    BY <1>5 DEF ListAll, Serves, NoWalk
  <2>2. CallOf(line[c]) = [at |-> "begun", req |-> r]
    BY <1>1, <2>1, CallsAre DEF Taken
  <2>3. CallOf(line[c])' = [at |-> "walking", req |-> r, before |-> Commands]
    BY <1>1, <2>1, CallsAreNext DEF Taken
  <2>4. \A d \in Client \ {c} : CallOf(line[d])' = CallOf(line[d])
    <3>1. \A d \in Client \ {c} : line[d].at # "taken"
      BY <1>1 DEF RequestsOK, ServingOK, Taken
    <3> QED
      BY <2>1, <3>1, OtherCalls DEF RequestsOK
  <2>5. Commands = Calls!CommandsNow
    BY DEF Commands, Named, There, Calls!CommandsNow, Calls!Exists
  <2> DEFINE call == [d \in Client |-> CallOf(line[d])]
             walking == [at |-> "walking", req |-> r, before |-> Commands]
  <2>6. call' = [call EXCEPT ![c] = walking]
    BY <2>3, <2>4
  <2>7. call[c].at = "begun" /\ call[c].req = r
    BY <2>2
  <2>8. call' = [call EXCEPT ![c] = [at |-> "walking", req |-> call[c].req,
                                     before |-> Calls!CommandsNow]]
    BY <2>5, <2>6, <2>7
  <2> HIDE DEF call
  <2>9. Calls!BeginAll(c)
    BY <2>1, <2>7, <2>8 DEF Calls!BeginAll, call
  <2> QED
    BY <2>9
<1>6. CASE Details(c)
  <2>1. r.op = "describe" /\ serving = "known" /\ content' = content /\ Answer(c, Done)
    BY <1>6 DEF Details, Serves
  <2>2. Done \in Calls!Answers(r)
    BY <2>1, AnswersAre
  <2> QED
    BY <1>1, <2>1, <2>2, ServedCalls
<1>7. CASE GetValue(c)
  <2>1. r.op = "get" /\ serving = "known" /\ content' = content
        /\ Answer(c, Reply({}, content[r.name]))
    BY <1>7 DEF GetValue, Serves
  <2>2. Reply({}, content[r.name]) \in Calls!Answers(r)
    BY <2>1, AnswersAre
  <2> QED
    BY <1>1, <2>1, <2>2, ServedCalls
<1>8. CASE SetValue(c)
  <2>1. r.op = "set" /\ serving = "known" /\ content' = [content EXCEPT ![r.name] = r.arg]
    BY <1>8 DEF SetValue, Serves
  <2>2. PICK reply : Answer(c, reply) /\ (reply = Done \/ (reply = Error /\ r.name \in Fragile))
    BY <1>8 DEF SetValue
  <2>3. reply \in Calls!Answers(r)
    BY <2>1, <2>2, AnswersAre
  <2> QED
    BY <1>1, <2>1, <2>2, <2>3, ServedCalls
<1>9. CASE CallResult(c)
  <2>1. /\ UNCHANGED <<line, content, inserting, walk>> /\ serving = "known"
        /\ serving' = "running"
    BY <1>9 DEF CallResult, Serves
  <2>2. \A d \in Client : CallOf(line[d])' = CallOf(line[d])
    BY <2>1 DEF CallOf
  <2> QED
    BY <2>1, <2>2 DEF Calls!vars
<1>10. CASE EndCall(c)
  <2>1. r.op = "call" /\ serving = "running" /\ content' = content
    BY <1>1, <1>10 DEF EndCall, RequestsOK, ServingOK
  <2>2. PICK reply : Answer(c, reply) /\ (reply = Done \/ (reply = Error /\ r.name \in Fragile))
    BY <1>10 DEF EndCall
  <2>3. reply \in Calls!Answers(r)
    BY <2>1, <2>2, AnswersAre
  <2> QED
    BY <1>1, <2>1, <2>2, <2>3, ServedCalls
<1>11. CASE ListCommands(c) \/ ListChildren(c)
  <2>1. /\ UNCHANGED <<line, content, inserting, serving>> /\ serving = "walking"
        /\ walk'.before = walk.before
    BY <1>11 DEF ListCommands, ListChildren, Walks, RequestsOK, WalkOK
  <2>2. \A d \in Client : CallOf(line[d])' = CallOf(line[d])
    BY <2>1 DEF CallOf
  <2> QED
    BY <2>1, <2>2 DEF Calls!vars
<1>12. CASE ListedAll(c)
  <2>1. /\ serving = "walking" /\ walk.queue = <<>> /\ content' = content
        /\ Answer(c, Reply(walk.found, Absent))
    BY <1>12 DEF ListedAll, Walks
  <2>2. walk.before \subseteq walk.found /\ walk.found \subseteq Commands
    BY <2>1 DEF WalkInv, ToExplore
  <2>3. Calls!Answered(c, Reply(walk.found, Absent))
    BY <1>1, <2>1, AnswerCalls
  <2>4. CallOf(line[c]) = [at |-> "walking", req |-> r, before |-> walk.before]
    BY <1>1, <2>1, CallsAre DEF Taken
  <2>5. Commands = Calls!CommandsNow
    BY DEF Commands, Named, There, Calls!CommandsNow, Calls!Exists
  <2>6. Reply(walk.found, Absent) = Calls!Good(walk.found, Absent)
    BY DEF Reply, Calls!Good
  <2> DEFINE call == [d \in Client |-> CallOf(line[d])]
  <2>7. call[c].at = "walking" /\ call[c].before = walk.before
    BY <2>4
  <2> HIDE DEF call
  <2>8. Calls!EndAll(c)
    BY <2>1, <2>2, <2>3, <2>5, <2>6, <2>7 DEF Calls!EndAll, call
  <2> QED
    BY <2>8
<1> QED
  BY <1>3, <1>4, <1>5, <1>6, <1>7, <1>8, <1>9, <1>10, <1>11, <1>12 DEF Serve

\* A restart of the program loses calls, and nothing else, for RemoteCalls.
LEMMA RestartCalls ==
    ASSUME RequestsOK, Restart
    PROVE  Calls!Restart
<1>1. ASSUME NEW c \in Client
      PROVE  \/ CallOf(line[c])' = CallOf(line[c])
             \/ CallOf(line[c]).at # "none" /\ CallOf(line[c])' = [at |-> "lost"]
  <2>1. CASE line'[c] = line[c] /\ ~Taken(c)
    BY <2>1, OtherCalls DEF RequestsOK, Taken
  <2>2. CASE ~IsIdle(c) /\ line'[c] = [at |-> "lost"]
    <3>1. line'[c].at = "lost"
      BY <2>2
    <3>2. CallOf(line[c])' = [at |-> "lost"]
      BY <3>1, CallsAreNext
    <3>3. CallOf(line[c]).at # "none"
      BY <2>2, Zenon DEF CallOf, IsIdle
    <3> QED
      BY <3>2, <3>3
  <2> QED
    BY <2>1, <2>2, RestartTyped
<1> QED
  BY <1>1 DEF Restart, Calls!Restart

-----------------------------------------------------------------------------
(***************************************************************************)
(* The record of a shell stays well formed: what it asks for is a request, *)
(* what it was told are names, and it waits for no answer when it is at    *)
(* its prompt, not started or gone.  Every operator that makes the next    *)
(* record of a shell has its lemma, and UserContinues gathers them for a   *)
(* step.                                                                   *)
(***************************************************************************)

Doings == {"new", "start", "prompt", "sync", "cd", "get", "set", "pool", "call", "ended", "crashed"}
ShellFields ==
    [doing : Doings, target : AnyName, typed : Content, loading : Node \cup {Absent},
     found : SUBSET Name, todo : Seq(Request),
     copy : [Node -> [loaded : BOOLEAN, names : SUBSET Name]],
     remote : SUBSET AnyName, path : Node, before : SUBSET Name, since : Nat]
\* A shell that waits for nothing, and one that works on what was typed.
Quiet == {"new", "prompt", "ended", "crashed"}
Typing == {"cd", "get", "set", "pool"}
\* The records of the shells.
Shells ==
    {r \in ShellFields :
        /\ r.doing \in Quiet => r.todo = <<>>
        /\ r.loading # Absent => r.doing \in Typing \cup {"start", "sync"}
        /\ r.doing = "cd" => r.target \in Node
        /\ r.doing \in {"get", "set"} => r.target \in Values
        /\ r.doing = "set" => r.typed \in Datum}

\* The details of a set of names are asked for with requests about these names.
LEMMA DetailsIn ==
    ASSUME NEW S \in SUBSET Name, NEW kind, NEW Requests,
           \A n \in S : Describe(n) \in Requests /\ Get(n) \in Requests
    PROVE  DetailsOf(S, kind) \in Seq(Requests)
<1> DEFINE n == Cardinality(S)
           name == InSomeOrder(S)
<1>1. n \in Nat /\ name \in [1 .. n -> S]
  <2>1. IsFiniteSet(S)
    BY FS_Subset, RequestsAssumption
  <2> QED
    BY <2>1, Ordered
<1>2. \A i \in 1 .. n : Describe(name[i]) \in Requests /\ Get(name[i]) \in Requests
  BY <1>1
<1> HIDE DEF n, name
<1> DEFINE Both(i) == IF i % 2 = 1 THEN Describe(name[(i + 1) \div 2]) ELSE Get(name[i \div 2])
<1>3. \A i \in 1 .. 2 * n : Both(i) \in Requests
  <2> TAKE i \in 1 .. 2 * n
  <2>1. CASE i % 2 = 1
    <3>1. (i + 1) \div 2 \in 1 .. n
      BY <1>1, <2>1
    <3> QED
      BY <1>2, <2>1, <3>1
  <2>2. CASE i % 2 # 1
    <3>1. i \div 2 \in 1 .. n
      BY <1>1, <2>2
    <3> QED
      BY <1>2, <2>2, <3>1
  <2> QED
    BY <2>1, <2>2
<1> HIDE DEF Both
<1>4. [i \in 1 .. 2 * n |-> Both(i)] \in Seq(Requests)
  BY <1>1, <1>3, IsASeq
<1>5. [i \in 1 .. n |-> Describe(name[i])] \in Seq(Requests)
  BY <1>1, <1>2
<1>6. <<>> \in Seq(Requests)
  OBVIOUS
<1> QED
  BY <1>4, <1>5, <1>6 DEF DetailsOf, n, name, Both

\* They are requests.
LEMMA DetailsAreRequests ==
    ASSUME NEW S \in SUBSET Name, NEW kind
    PROVE  DetailsOf(S, kind) \in Seq(Request)
BY Simple, DetailsIn

\* A shell that comes back to its prompt, ends or crashes.
LEMMA PromptShells ==
    ASSUME NEW r \in Shells
    PROVE  Prompt(r) \in Shells /\ Ended(r) \in Shells /\ Crashed(r) \in Shells
<1>1. r \in ShellFields /\ Root \in AnyName /\ Absent \in Content /\ <<>> \in Seq(Request)
  BY DEF Shells, AnyName, Content
<1>2. Prompt(r) \in ShellFields
  BY <1>1 DEF ShellFields, Prompt, Doings
<1>3. Prompt(r).doing = "prompt" /\ Prompt(r).loading = Absent /\ Prompt(r).todo = <<>>
  BY <1>1 DEF ShellFields, Prompt
<1>4. \A doing \in {"ended", "crashed"} :
          [Prompt(r) EXCEPT !.doing = doing] \in Shells
  BY <1>2, <1>3 DEF Shells, ShellFields, Doings
<1> QED
  BY <1>2, <1>3, <1>4 DEF Shells, Ended, Crashed

\* A shell that begins to download a node.
LEMMA LoadShells ==
    ASSUME NEW r \in Shells, NEW n \in Node, restarts \in Nat,
           r.doing \in Typing \cup {"start", "sync"}
    PROVE  Load(r, n) \in Shells
<1>1. Len(Kinds) = 8
  BY DEF Kinds
<1>2. [i \in 1 .. Len(Kinds) |-> ListNames(n, Kinds[i])] \in Seq(Request)
  BY <1>1, SimpleList
<1> DEFINE todo == [i \in 1 .. Len(Kinds) |-> ListNames(n, Kinds[i])]
           before == {i \in Name : In[i] = n /\ There(i)}
<1>3. before \in SUBSET Name
  OBVIOUS
<1>4. Load(r, n) = [r EXCEPT !.loading = n, !.found = {}, !.todo = todo, !.before = before,
                             !.since = restarts]
  BY DEF Load
<1>5. todo \in Seq(Request)
  BY <1>2
<1> HIDE DEF todo, before
<1>6. Load(r, n) \in ShellFields
  BY <1>3, <1>4, <1>5 DEF Shells, ShellFields
<1>7. r.doing \notin Quiet
  BY DEF Quiet, Typing
<1>8. /\ Load(r, n).doing = r.doing /\ Load(r, n).target = r.target
      /\ Load(r, n).typed = r.typed
  BY DEF Load
<1> QED
  BY <1>6, <1>7, <1>8 DEF Shells

\* A shell that asks for the values of a node.
LEMMA WithPoolShells ==
    ASSUME NEW r \in Shells, NEW n \in Node, r.doing = "pool"
    PROVE  WithPool(r, n) \in Shells
<1> DEFINE S == r.copy[n].names \cap Values
           pool == InSomeOrder(S)
           todo == [i \in 1 .. Len(pool) |-> Get(pool[i])]
<1>1. S \in SUBSET Name
  BY DEF Values, Named
<1>2. pool \in Seq(Name)
  <2>1. Cardinality(S) \in Nat /\ pool \in [1 .. Cardinality(S) -> Name]
    BY <1>1, FS_Subset, RequestsAssumption, Ordered
  <2> QED
    BY <2>1, SeqDef
<1> HIDE DEF pool
<1>3. \A i \in 1 .. Len(pool) : Get(pool[i]) \in Request
  BY <1>2, Simple
<1>4. todo \in Seq(Request)
  BY <1>2, <1>3
<1> HIDE DEF todo
<1>5. [r EXCEPT !.todo = todo] \in Shells
  BY <1>4 DEF Shells, ShellFields, Quiet
<1> QED
  BY <1>5, PromptShells DEF WithPool, pool, todo

\* A shell that gets or sets the value typed.
LEMMA WithValueShells ==
    ASSUME NEW r \in Shells, NEW n \in Node, r.doing \in {"get", "set"}
    PROVE  WithValue(r, n) \in Shells
<1> DEFINE q == IF r.doing = "get" THEN Get(r.target) ELSE Set(r.target, r.typed)
<1>1. q \in Request
  <2>1. r.target \in Values /\ r.target \in Name
    BY DEF Shells, Values, Named
  <2>2. CASE r.doing = "get"
    BY <2>1, <2>2, Simple
  <2>3. CASE r.doing = "set"
    <3>1. r.typed \in Datum
      BY <2>3 DEF Shells
    <3> QED
      BY <2>1, <2>3, <3>1, SimpleSet
  <2> QED
    BY <2>2, <2>3
<1> HIDE DEF q
<1> DEFINE todo == <<q>>
<1>2. todo \in Seq(Request)
  BY <1>1
<1>3. WithValue(r, n) = IF r.target \notin r.copy[n].names THEN Prompt(r)
                        ELSE [r EXCEPT !.todo = todo]
  BY DEF WithValue, q
<1> HIDE DEF todo
<1>4. [r EXCEPT !.todo = todo] \in Shells
  BY <1>2 DEF Shells, ShellFields, Quiet
<1> QED
  BY <1>3, <1>4, PromptShells

\* A shell that has the node it was looking for.
LEMMA WithNodeShells ==
    ASSUME NEW r \in Shells, NEW n \in Node, r.doing \in Typing
    PROVE  WithNode(r, n) \in Shells
<1>1. CASE r.doing = "cd"
  <2>1. [r EXCEPT !.path = n] \in Shells
    BY DEF Shells, ShellFields
  <2> QED
    BY <1>1, <2>1, PromptShells DEF WithNode
<1>2. CASE r.doing = "pool"
  BY <1>2, WithPoolShells DEF WithNode
<1>3. CASE r.doing \in {"get", "set"}
  <2>1. r.doing # "cd" /\ r.doing # "pool"
    BY <1>3
  <2> QED
    BY <1>3, <2>1, WithValueShells DEF WithNode
<1> QED
  BY <1>1, <1>2, <1>3 DEF Typing

\* What is typed is looked for in a node.
LEMMA NodeOfShells ==
    ASSUME NEW r \in Shells, r.doing \in Typing
    PROVE  NodeOf(r) \in Node
<1>1. CASE r.doing = "cd"
  BY <1>1 DEF NodeOf, Shells
<1>2. CASE r.doing = "pool"
  BY <1>2 DEF NodeOf, Shells, ShellFields
<1>3. CASE r.doing \in {"get", "set"}
  <2>1. r.target \in Values /\ NodeOf(r) = In[r.target]
    BY <1>3 DEF NodeOf, Shells
  <2> QED
    BY <2>1, RequestsAssumption DEF Values, Named, Node
<1> QED
  BY <1>1, <1>2, <1>3 DEF Typing

\* What is missing on the way to a node are nodes.
LEMMA MissingNodes ==
    ASSUME NEW r, NEW n \in Node
    PROVE  Missing(r, n) \subseteq Node
<1>1. Path[n] \in Seq(Node)
  BY RequestsAssumption DEF PathAssumption, Node
<1>2. ToSet(Path[n]) \subseteq Node
  BY <1>1 DEF ToSet
<1> QED
  BY <1>2 DEF Missing

\* A shell goes on in one of these ways with what was typed.
LEMMA GoesOnWith ==
    ASSUME NEW r, NodeOf(r) \in Node
    PROVE  \/ ~r.copy[Root].loaded /\ GoOn(r) = Crashed(r)
           \/ r.copy[Root].loaded /\ Missing(r, NodeOf(r)) = {} /\ GoOn(r) = WithNode(r, NodeOf(r))
           \/ \E m \in Missing(r, NodeOf(r)) :
                 /\ r.copy[Root].loaded /\ m \in Node
                 /\ \/ Has(r, m) /\ GoOn(r) = Load(r, m)
                    \/ ~Has(r, m) /\ GoOn(r) = Lacking(r)
<1>1. CASE ~r.copy[Root].loaded \/ Missing(r, NodeOf(r)) = {}
  BY <1>1 DEF GoOn, Tree
<1>2. CASE r.copy[Root].loaded /\ Missing(r, NodeOf(r)) # {}
  <2>1. PICK m \in Missing(r, NodeOf(r)) : m = CHOOSE k \in Missing(r, NodeOf(r)) : TRUE
    BY <1>2
  <2>2. GoOn(r) = IF Has(r, m) THEN Load(r, m) ELSE Lacking(r)
    BY <1>2, <2>1 DEF GoOn, Tree
  <2> QED
    BY <1>2, <2>1, <2>2, MissingNodes
<1> QED
  BY <1>1, <1>2

\* A shell that goes on with what was typed.
LEMMA GoOnShells ==
    ASSUME NEW r \in Shells, r.doing \in Typing, restarts \in Nat
    PROVE  GoOn(r) \in Shells
<1>1. NodeOf(r) \in Node
  BY NodeOfShells
<1>2. WithNode(r, NodeOf(r)) \in Shells
  BY <1>1, WithNodeShells
<1>3. \A m \in Node : Load(r, m) \in Shells
  BY LoadShells
<1>4. Crashed(r) \in Shells /\ Lacking(r) \in Shells
  BY PromptShells DEF Lacking
<1> QED
  BY <1>1, <1>2, <1>3, <1>4, GoesOnWith

\* A shell that reads an answer.
LEMMA ToldShells ==
    ASSUME NEW r \in Shells, r.doing \notin Quiet, NEW req \in Request, NEW reply \in Replies
    PROVE  Told(r, req, reply) \in Shells
<1>1. reply.names \in SUBSET Name /\ req.name \in AnyName
  BY DEF Replies, Request
<1>2. CASE req.op = "list"
  <2> DEFINE todo == DetailsOf(reply.names, req.arg) \o r.todo
             found == r.found \cup reply.names
  <2>1. todo \in Seq(Request)
    BY <1>1, DetailsAreRequests DEF Shells, ShellFields
  <2>2. found \in SUBSET Name
    BY <1>1 DEF Shells, ShellFields
  <2>3. Told(r, req, reply) = [r EXCEPT !.found = found, !.todo = todo]
    BY <1>2 DEF Told
  <2> HIDE DEF todo, found
  <2> QED
    BY <2>1, <2>2, <2>3 DEF Shells, ShellFields
<1>3. CASE req.op = "all"
  <2> DEFINE todo == DetailsOf(reply.names, "command")
  <2>1. todo \in Seq(Request)
    BY <1>1, DetailsAreRequests
  <2>2. req.op # "list"
    BY <1>3
  <2>3. Told(r, req, reply) = [r EXCEPT !.todo = todo]
    BY <1>3, <2>2 DEF Told
  <2> HIDE DEF todo
  <2> QED
    BY <2>1, <2>3 DEF Shells, ShellFields
<1>4. CASE req.op \notin {"list", "all"}
  <2> req.op # "list" /\ req.op # "all"
    BY <1>4
  <2>1. CASE req.op = "describe" /\ r.loading = Absent
    <3> DEFINE remote == r.remote \cup {req.name}
    <3>1. remote \in SUBSET AnyName
      BY <1>1 DEF Shells, ShellFields
    <3>2. Told(r, req, reply) = [r EXCEPT !.remote = remote]
      BY <2>1 DEF Told
    <3> HIDE DEF remote
    <3> QED
      BY <3>1, <3>2 DEF Shells, ShellFields
  <2>2. CASE ~(req.op = "describe" /\ r.loading = Absent)
    BY <2>2 DEF Told
  <2> QED
    BY <2>1, <2>2
<1> QED
  BY <1>2, <1>3, <1>4

\* A shell that has no more to ask.
LEMMA CompletedShells ==
    ASSUME NEW r \in Shells, restarts \in Nat
    PROVE  Completed(r) \in Shells
<1> DEFINE whole == [r EXCEPT !.copy[r.loading] = Loaded(r.found), !.loading = Absent,
                              !.found = {}, !.before = {}, !.since = 0]
<1>1. CASE r.loading = Absent
  BY <1>1, PromptShells DEF Completed
<1>2. CASE r.loading # Absent
  <2>1. Loaded(r.found) \in [loaded : BOOLEAN, names : SUBSET Name]
    BY DEF Loaded, Shells, ShellFields
  <2>2. whole \in Shells /\ whole.doing = r.doing
    BY <1>2, <2>1 DEF Shells, ShellFields
  <2>3. Completed(r) = IF Syncing(r) THEN [whole EXCEPT !.remote = {}, !.todo = <<ListAllCommands>>]
                       ELSE GoOn(whole)
    BY <1>2 DEF Completed
  <2>4. r.doing \in Typing \cup {"start", "sync"}
    BY <1>2 DEF Shells
  <2> HIDE DEF whole
  <2>5. CASE Syncing(r)
    <3> DEFINE todo == <<ListAllCommands>>
    <3>1. todo \in Seq(Request)
      BY SimpleList DEF Node
    <3>2. Completed(r) = [whole EXCEPT !.remote = {}, !.todo = todo]
      BY <2>3, <2>5
    <3>3. whole.doing \in {"start", "sync"}
      BY <2>2, <2>5 DEF Syncing
    <3> HIDE DEF todo
    <3>4. [whole EXCEPT !.remote = {}, !.todo = todo] \in Shells
      BY <2>2, <3>1, <3>3 DEF Shells, ShellFields, Quiet
    <3> QED
      BY <3>2, <3>4
  <2>6. CASE ~Syncing(r)
    <3>1. whole.doing \in Typing
      BY <2>2, <2>4, <2>6 DEF Syncing
    <3> QED
      BY <2>2, <2>3, <2>6, <3>1, GoOnShells
  <2> QED
    BY <2>5, <2>6
<1> QED
  BY <1>1, <1>2

\* A shell that reads an error.
LEMMA FailedShells ==
    ASSUME NEW r \in Shells
    PROVE  Failed(r) \in Shells
<1>1. CASE r.doing = "start"
  BY <1>1, PromptShells DEF Failed
<1>2. CASE r.doing # "start" /\ r.doing = "get" /\ r.loading # Absent
  BY <1>2, PromptShells DEF Failed
<1>3. CASE r.doing # "start" /\ ~(r.doing = "get" /\ r.loading # Absent)
  BY <1>3, PromptShells DEF Failed
<1> QED
  BY <1>1, <1>2, <1>3

-----------------------------------------------------------------------------
QuietOK == \A s \in Shell : shell[s].doing \in Quiet => IsIdle(s)
ShellsOK == shell \in [Shell -> Shells]

\* A shell sends the first of its requests, and keeps the others.
LEMMA ContinueTyped ==
    ASSUME LinesOK, ShellsOK, QuietOK, NEW s \in Shell, NEW r \in Shells, Continue(s, r)
    PROVE  LinesOK' /\ ShellsOK' /\ QuietOK'
<1> s \in Client
  BY ShellAssumption
<1>1. r.todo \in Seq(Request)
  BY DEF Shells, ShellFields
<1>2. CASE r.todo = <<>>
  <2>1. Idle \in Lines
    BY DEF Idle, Lines
  <2>2. shell' = [shell EXCEPT ![s] = r] /\ line' = [line EXCEPT ![s] = Idle]
    BY <1>2 DEF Continue
  <2> QED
    BY <2>1, <2>2 DEF LinesOK, ShellsOK, QuietOK, IsIdle, Idle
<1>3. CASE r.todo # <<>>
  <2>1. Head(r.todo) \in Request /\ Tail(r.todo) \in Seq(Request)
    BY <1>1, <1>3
  <2>2. Asked(Head(r.todo)) \in Lines
    BY <2>1 DEF Asked, Lines
  <2> DEFINE t == Tail(r.todo)
  <2>3. shell' = [shell EXCEPT ![s] = [r EXCEPT !.todo = t]]
    BY <1>3 DEF Continue
  <2> HIDE DEF t
  <2>4. [r EXCEPT !.todo = t] \in Shells
    BY <1>3, <2>1 DEF Shells, ShellFields, Quiet, t
  <2> QED
    <3>1. line' = [line EXCEPT ![s] = Asked(Head(r.todo))]
      BY <1>3 DEF Continue
    <3>2. LinesOK' /\ ShellsOK'
      BY <2>2, <2>3, <2>4, <3>1 DEF LinesOK, ShellsOK
    <3>3. shell'[s].doing \notin Quiet
      BY <1>3, <2>3 DEF Shells, ShellFields, ShellsOK
    <3> QED
      BY <2>3, <3>1, <3>2, <3>3 DEF QuietOK, IsIdle, LinesOK, ShellsOK
<1> QED
  BY <1>2, <1>3

\* A shell whose user types a command.
LEMMA TypedShells ==
    ASSUME ShellsOK, NEW s \in Shell, shell[s].doing \in {"new", "prompt"},
           NEW target \in AnyName, NEW doing \in Doings \ {"set"},
           doing = "cd" => target \in Node, doing = "get" => target \in Values
    PROVE  /\ Typed(s, doing, target) \in Shells
           /\ Typed(s, doing, target).doing = doing
<1>1. shell[s] \in Shells
  BY DEF ShellsOK
<1>2. shell[s].loading = Absent
  BY <1>1 DEF Shells, Typing
<1> QED
  BY <1>1, <1>2 DEF Typed, Shells, ShellFields, Quiet

\* A shell whose user types a set.
LEMMA TypedSet ==
    ASSUME ShellsOK, NEW s \in Shell, AtPrompt(s), NEW v \in Values, NEW x \in Datum
    PROVE  /\ [Typed(s, "set", v) EXCEPT !.typed = x] \in Shells
           /\ [Typed(s, "set", v) EXCEPT !.typed = x].doing = "set"
<1>1. shell[s] \in Shells /\ shell[s].doing = "prompt"
  BY DEF ShellsOK, AtPrompt
<1>2. shell[s].loading = Absent
  BY <1>1 DEF Shells, Typing
<1>3. v \in AnyName /\ x \in Content
  BY DEF AnyName, Content, Values, Named
<1>4. [Typed(s, "set", v) EXCEPT !.typed = x]
          = [shell[s] EXCEPT !.doing = "set", !.target = v, !.typed = x]
  BY <1>1 DEF Typed, Shells, ShellFields
<1> QED
  BY <1>1, <1>2, <1>3, <1>4 DEF Shells, ShellFields, Quiet, Doings

\* Each step of a shell leaves it a well-formed record, and is taken without a pending request.
LEMMA UserContinues ==
    ASSUME LinesOK, ShellsOK, QuietOK, restarts \in Nat, NEW s \in Shell, ShellStep(s)
    PROVE  /\ \E r \in Shells : Continue(s, r)
           /\ line[s].at \in {"idle", "answered"}
<1> SUFFICES \E r \in Shells : Continue(s, r)
  BY DEF ShellStep, Sync, ChangePath, GetOrSet, Pool, Remote, OnReply, AtPrompt,
         QuietOK, Quiet, IsIdle
<1> USE DEF Doings, Typing
<1> shell[s] \in Shells /\ Root \in Node /\ Root \in AnyName
  BY DEF ShellsOK, Node, AnyName
<1>1. CASE Sync(s)
  <2>1. CASE shell[s].doing = "new"
    <3>1. Load(Typed(s, "start", Root), Root) \in Shells
      BY <2>1, TypedShells, LoadShells
    <3> QED
      BY <1>1, <2>1, <3>1 DEF Sync, AtPrompt
  <2>2. CASE AtPrompt(s)
    <3> DEFINE r == Typed(s, "sync", Root)
    <3>1. r \in Shells /\ r.doing = "sync"
      BY <2>2, TypedShells DEF AtPrompt
    <3> HIDE DEF r
    <3>2. Forgotten(r) \in Shells /\ Forgotten(r).doing = "sync"
      BY <3>1 DEF Forgotten, Shells, ShellFields, NotLoaded
    <3>3. Load(Forgotten(r), Root) \in Shells
      BY <3>2, LoadShells
    <3> QED
      BY <1>1, <2>2, <3>3, PromptShells DEF Sync, AtPrompt, r
  <2> QED
    BY <1>1, <2>1, <2>2 DEF Sync
<1>2. CASE ChangePath(s)
  <2>1. PICK n \in Node : Continue(s, GoOn(Typed(s, "cd", n)))
    BY <1>2 DEF ChangePath
  <2>2. n \in AnyName
    BY DEF Node, AnyName
  <2>3. Typed(s, "cd", n) \in Shells /\ Typed(s, "cd", n).doing = "cd"
    BY <1>2, <2>2, TypedShells DEF ChangePath, AtPrompt
  <2> QED
    BY <2>1, <2>3, GoOnShells
<1>3. CASE GetOrSet(s)
  <2>1. PICK v \in Values :
            \/ Continue(s, GoOn(Typed(s, "get", v)))
            \/ \E x \in TypedData : Continue(s, GoOn([Typed(s, "set", v) EXCEPT !.typed = x]))
    BY <1>3 DEF GetOrSet
  <2>2. CASE Continue(s, GoOn(Typed(s, "get", v)))
    <3>1. v \in AnyName
      BY DEF AnyName, Values, Named
    <3>2. Typed(s, "get", v) \in Shells /\ Typed(s, "get", v).doing = "get"
      BY <1>3, <3>1, TypedShells DEF GetOrSet, AtPrompt
    <3> QED
      BY <2>2, <3>2, GoOnShells
  <2>3. CASE \E x \in TypedData : Continue(s, GoOn([Typed(s, "set", v) EXCEPT !.typed = x]))
    <3>1. PICK x \in TypedData : Continue(s, GoOn([Typed(s, "set", v) EXCEPT !.typed = x]))
      BY <2>3
    <3> DEFINE r == [Typed(s, "set", v) EXCEPT !.typed = x]
    <3>2. r \in Shells /\ r.doing = "set"
      BY <1>3, TypedSet, ShellAssumption DEF GetOrSet
    <3> HIDE DEF r
    <3>3. GoOn(r) \in Shells
      BY <3>2, GoOnShells
    <3> QED
      BY <3>1, <3>3 DEF r
  <2> QED
    BY <2>1, <2>2, <2>3
<1>4. CASE Pool(s)
  <2>1. Typed(s, "pool", Root) \in Shells /\ Typed(s, "pool", Root).doing = "pool"
    BY <1>4, TypedShells DEF Pool, AtPrompt
  <2> QED
    BY <1>4, <2>1, GoOnShells DEF Pool
<1>5. CASE Remote(s)
  <2>1. PICK c \in shell[s].remote :
            Continue(s, [Typed(s, "call", c) EXCEPT !.todo = <<CallCommand(c)>>])
    BY <1>5 DEF Remote
  <2>2. c \in AnyName
    BY DEF Shells, ShellFields
  <2> DEFINE todo == <<CallCommand(c)>>
             r == Typed(s, "call", c)
  <2>3. todo \in Seq(Request)
    BY <2>2 DEF CallCommand, Message, Request, Operations, Content
  <2>4. r \in Shells /\ r.doing = "call"
    BY <1>5, <2>2, TypedShells DEF Remote, AtPrompt
  <2> HIDE DEF todo, r
  <2>5. [r EXCEPT !.todo = todo] \in Shells
    BY <2>3, <2>4 DEF Shells, ShellFields, Quiet
  <2> QED
    BY <2>1, <2>5 DEF todo, r
<1>6. CASE OnReply(s)
  <2>1. line[s] \in Lines /\ line[s].at = "answered"
    BY <1>6, ShellAssumption DEF LinesOK, OnReply
  <2>2. line[s].req \in Request /\ line[s].reply \in Replies
    BY <2>1 DEF Lines
  <2> DEFINE r == Told(shell[s], line[s].req, line[s].reply)
  <2>3. r \in Shells
    BY <2>1, <2>2, ToldShells DEF QuietOK, IsIdle
  <2>4. Continue(s, IF line[s].reply.kind = "error" THEN Failed(shell[s])
                    ELSE IF r.todo = <<>> THEN Completed(r) ELSE r)
    BY <1>6 DEF OnReply
  <2> HIDE DEF r
  <2> QED
    BY <2>3, <2>4, CompletedShells, FailedShells
<1> QED
  BY <1>1, <1>2, <1>3, <1>4, <1>5, <1>6 DEF ShellStep

-----------------------------------------------------------------------------
(***************************************************************************)
(* The variables of a program bound to values.  The fact that carries the  *)
(* others is Kept: a binding that is registered has its value, with its    *)
(* own type, unless its bindNew threw.  As values never go away while the  *)
(* program runs (Remains), a round of pulls or pushes throws only at a     *)
(* binding that failed.                                                    *)
(***************************************************************************)

Steps == {"construct", "bind", "default", "function", "pull", "compute", "push", "done"}
\* The records of the program: a variable holds what fits its width.
Programs ==
    {p \in [pc : Steps, at : 1 .. Len(Bindings), loops : BOOLEAN,
            others : SUBSET (Name \ BoundNames), var : [Bound -> Nat],
            registered : SUBSET Bound, clash : SUBSET Bound, failed : SUBSET Bound,
            thrown : SUBSET Bound, touched : SUBSET Pushed, moved : SUBSET Pushed] :
        \A b \in Bound : p.var[b] \in Fitting(b)}

\* A binding is registered with a value that is there, or bindNew threw.
Kept == \A b \in prog.registered \ prog.failed : There(b) /\ b \notin prog.clash
\* Only bindings that are registered can fail, and only failed ones throw.
PoisonOK == prog.failed \subseteq prog.registered /\ prog.thrown \subseteq prog.failed /\ Kept
ProgramOK == prog \in Programs /\ PoisonOK /\ wrapper \in {"none", "half", "bound"}

\* The bindings are values, and what fits their variables is a datum.
LEMMA BoundAre ==
    /\ Bound \subseteq Values /\ Bound \subseteq Name /\ Values \subseteq Name
    /\ Len(Bindings) \in Nat \ {0}
    /\ \A i \in 1 .. Len(Bindings) : Bindings[i] \in Bound
    /\ Absent \notin Datum /\ Pushed \subseteq Bound
    /\ \A b \in Bound : Width[b] \in Nat \ {0} /\ Fitting(b) \subseteq Datum
BY RequestsAssumption, BindAssumption
   DEF Values, Named, Bound, ToSet, Pushed, Fitting

\* What remains is there in the next state.
LEMMA RemainsThere ==
    ASSUME Remains, NEW b \in Name, There(b)
    PROVE  There(b)'
BY DEF Remains, There

\* What the poisoning of a round depends on.
Same(p, q) == /\ p.registered = q.registered /\ p.clash = q.clash
              /\ p.failed = q.failed /\ p.thrown = q.thrown

\* The program goes on to another binding or to another step.
LEMMA NextPrograms ==
    ASSUME NEW p \in Programs, NEW pc \in Steps
    PROVE  /\ Next1(p, pc) \in Programs /\ Same(Next1(p, pc), p)
           /\ Thrown(p, pc) \in Programs /\ Same(Thrown(p, pc), p)
<1>1. 1 \in 1 .. Len(Bindings)
  BY BoundAre
<1>2. [p EXCEPT !.at = 1, !.pc = pc] \in Programs
  BY <1>1 DEF Programs
<1>3. CASE p.at < Len(Bindings)
  <2>1. p.at + 1 \in 1 .. Len(Bindings)
    BY <1>3, BoundAre DEF Programs
  <2>2. [p EXCEPT !.at = p.at + 1] \in Programs
    BY <2>1 DEF Programs
  <2> QED
    BY <1>2, <1>3, <2>2 DEF Next1, Thrown, Same, Programs
<1>4. CASE ~(p.at < Len(Bindings))
  BY <1>2, <1>4 DEF Next1, Thrown, Same, Programs
<1> QED
  BY <1>3, <1>4

\* A program that starts.
LEMMA FreshPrograms ==
    ASSUME NEW clash \in SUBSET Bound, NEW loops \in BOOLEAN,
           NEW others \in SUBSET (Name \ BoundNames)
    PROVE  FreshProgram(clash, loops, others) \in Programs
BY BoundAre, BindAssumption DEF FreshProgram, Programs, Steps, Fitting

\* A step that registers nothing and misses nothing.
LEMMA PoisonStays ==
    ASSUME ProgramOK, Remains, prog' \in Programs,
           Same(prog', prog), wrapper' = wrapper
    PROVE  ProgramOK'
<1>1. \A b \in prog.registered : b \in Name
  BY BoundAre DEF ProgramOK, Programs
<1>2. Kept'
  BY <1>1, RemainsThere DEF ProgramOK, PoisonOK, Kept, Same
<1> QED
  BY <1>2 DEF ProgramOK, PoisonOK, Same

\* A binding is registered, and may be marked as failed.
LEMMA RegisterPrograms ==
    ASSUME NEW p \in Programs, NEW b \in Bound
    PROVE  /\ Register(p, b) \in Programs
           /\ Register(p, b).registered = p.registered \cup {b}
           /\ [Register(p, b) EXCEPT !.failed = @ \cup {b}] \in Programs
           /\ [Register(p, b) EXCEPT !.failed = @ \cup {b}].failed = p.failed \cup {b}
           /\ [Register(p, b) EXCEPT !.failed = @ \cup {b}].registered = p.registered \cup {b}
BY DEF Register, Programs

\* A variable is given what fits it.
LEMMA AssignedPrograms ==
    ASSUME NEW p \in Programs, NEW b \in Bound, NEW x \in Fitting(b)
    PROVE  /\ Assigned(p, b, x) \in Programs /\ Same(Assigned(p, b, x), p)
           /\ [Assigned(p, b, x) EXCEPT !.pc = "push"] \in Programs
           /\ Same([Assigned(p, b, x) EXCEPT !.pc = "push"], p)
<1>1. x \in Nat
  BY BoundAre DEF Fitting
<1> DEFINE touched == p.touched \cup ({b} \cap Pushed)
           var == [p.var EXCEPT ![b] = x]
<1>2. touched \in SUBSET Pushed
  BY DEF Programs
<1>3. var \in [Bound -> Nat] /\ \A c \in Bound : var[c] \in Fitting(c)
  BY <1>1 DEF Programs
<1>4. Assigned(p, b, x) = [p EXCEPT !.var = var, !.touched = touched]
  BY DEF Assigned, Programs
<1> HIDE DEF touched, var
<1>5. Assigned(p, b, x) \in Programs /\ Same(Assigned(p, b, x), p)
  BY <1>2, <1>3, <1>4 DEF Programs, Same
<1> QED
  BY <1>5 DEF Programs, Same, Steps

\* A binding is transferred, and its variable may take another datum.
LEMMA TransferredPrograms ==
    ASSUME NEW p \in Programs, NEW b \in Bound
    PROVE  /\ Transferred(p, b) \in Programs /\ Same(Transferred(p, b), p)
           /\ \A x \in Fitting(b) :
                 /\ [Transferred(p, b) EXCEPT !.var[b] = x] \in Programs
                 /\ Same([Transferred(p, b) EXCEPT !.var[b] = x], p)
<1>1. \A x \in Fitting(b) : x \in Nat
  BY BoundAre DEF Fitting
<1>2. Transferred(p, b) \in Programs /\ Same(Transferred(p, b), p)
  BY DEF Transferred, Programs, Same
<1>3. ASSUME NEW q \in Programs, NEW x \in Fitting(b)
      PROVE  [q EXCEPT !.var[b] = x] \in Programs /\ Same([q EXCEPT !.var[b] = x], q)
  <2> DEFINE var == [q.var EXCEPT ![b] = x]
  <2>1. var \in [Bound -> Nat] /\ \A c \in Bound : var[c] \in Fitting(c)
    BY <1>1 DEF Programs
  <2>2. [q EXCEPT !.var[b] = x] = [q EXCEPT !.var = var]
    BY DEF Programs
  <2> HIDE DEF var
  <2> QED
    BY <2>1, <2>2 DEF Programs, Same
<1> QED
  BY <1>2, <1>3 DEF Same

\* A binding that was registered misses its value only if its bindNew threw.
LEMMA MissedPrograms ==
    ASSUME ProgramOK, Holding \in prog.registered, Throws(Holding), NEW pc \in Steps
    PROVE  /\ Missed(prog, pc) \in Programs
           /\ Missed(prog, pc).registered = prog.registered
           /\ Missed(prog, pc).clash = prog.clash
           /\ Missed(prog, pc).failed = prog.failed
           /\ Missed(prog, pc).thrown \subseteq prog.failed
<1>1. Holding \in prog.failed
  BY DEF ProgramOK, PoisonOK, Kept, Throws
<1> DEFINE p == [prog EXCEPT !.thrown = @ \cup {Holding}]
<1>2. p \in Programs /\ p.thrown = prog.thrown \cup {Holding} /\ p.failed = prog.failed
      /\ p.registered = prog.registered /\ p.clash = prog.clash
  BY <1>1 DEF ProgramOK, Programs
<1>3. Missed(prog, pc) = Thrown(p, pc)
  BY DEF Missed, Holding
<1> HIDE DEF p
<1> QED
  BY <1>1, <1>2, <1>3, NextPrograms DEF Same, ProgramOK, PoisonOK

\* The binding a round is at is one of the bindings.
LEMMA HoldingBound ==
    ASSUME ProgramOK
    PROVE  Holding \in Bound /\ Holding \in Name
BY BoundAre DEF ProgramOK, Programs, Holding

\* A value that is written, or created, is there.
LEMMA Stored ==
    ASSUME ContentOK, NEW n \in Name, NEW x \in Datum, content' = [content EXCEPT ![n] = x]
    PROVE  ContentOK' /\ Remains /\ There(n)'
BY RequestsAssumption DEF ContentOK, Content, Remains, There

\* What is not written remains.
LEMMA Untouched ==
    ASSUME ContentOK, content' = content
    PROVE  ContentOK' /\ Remains
BY DEF ContentOK, Remains

\* The steps of the program, one by one.
LEMMA ProgramStepTyped ==
    ASSUME ProgramOK, ContentOK, ProgramStep, wrapper' = wrapper
    PROVE  ProgramOK' /\ ContentOK' /\ Remains
<1> USE HoldingBound, BoundAre
<1> prog \in Programs /\ PoisonOK
  BY DEF ProgramOK
<1>0. 0 \in Datum
  BY RequestsAssumption
<1>1. CASE Construct
  <2>1. ContentOK' /\ Remains
    BY <1>0, <1>1 DEF Construct, ContentOK, Content, Remains
  <2>2. prog' \in Programs /\ Same(prog', prog)
    BY <1>1 DEF Construct, Programs, Same, Steps
  <2> QED
    BY <2>1, <2>2, PoisonStays
<1>2. CASE BindNew
  <2>1. CASE Holding \in prog.clash
    <3> DEFINE p == [Register(prog, Holding) EXCEPT !.failed = @ \cup {Holding}]
    <3>1. prog' = Next1(p, "function") /\ content' = content
      BY <1>2, <2>1 DEF BindNew
    <3>5. p \in Programs /\ p.failed = prog.failed \cup {Holding}
          /\ p.registered = prog.registered \cup {Holding}
      BY RegisterPrograms
    <3>6. p.clash = prog.clash /\ p.thrown = prog.thrown
      BY DEF Register
    <3>2. p \in Programs /\ p.failed = prog.failed \cup {Holding}
          /\ p.registered = prog.registered \cup {Holding}
          /\ p.clash = prog.clash /\ p.thrown = prog.thrown
      BY <3>5, <3>6
    <3> HIDE DEF p
    <3>3. prog' \in Programs /\ Same(prog', p)
      BY <3>1, <3>2, NextPrograms DEF Steps
    <3>4. PoisonOK'
      BY <3>1, <3>2, <3>3 DEF PoisonOK, Kept, Same, There
    <3> QED
      BY <3>1, <3>3, <3>4, Untouched DEF ProgramOK
  <2>2. CASE Holding \notin prog.clash
    <3>1. PICK h \in Bound : h = Holding
      OBVIOUS
    <3>2. content' = [content EXCEPT ![h] = 0]
      BY <1>2, <2>2, <3>1 DEF BindNew
    <3>3. ContentOK' /\ Remains /\ There(h)'
      BY <1>0, <3>2, Stored
    <3>4. prog' = [Register(prog, h) EXCEPT !.pc = "default"]
      BY <1>2, <2>2, <3>1 DEF BindNew
    <3>5. prog' \in Programs /\ prog'.registered = prog.registered \cup {h}
          /\ prog'.clash = prog.clash /\ prog'.failed = prog.failed
          /\ prog'.thrown = prog.thrown
      BY <3>4 DEF Register, Programs, Steps
    <3>6. \A b \in prog.registered \ prog.failed : There(b)'
      BY <3>3, RemainsThere DEF PoisonOK, Kept, Programs
    <3>7. Kept'
      BY <2>2, <3>1, <3>3, <3>5, <3>6 DEF PoisonOK, Kept
    <3> QED
      BY <3>3, <3>5, <3>7 DEF ProgramOK, PoisonOK
  <2> QED
    BY <2>1, <2>2
<1>3. CASE DefaultValue
  <2>1. Default[Holding] \in Datum
    BY BindAssumption
  <2>2. ContentOK' /\ Remains
    BY <1>3, <2>1, Stored DEF DefaultValue
  <2>3. [prog EXCEPT !.pc = "bind"] \in Programs /\ Same([prog EXCEPT !.pc = "bind"], prog)
    BY DEF Programs, Same, Steps
  <2>4. prog' \in Programs /\ Same(prog', prog)
    BY <1>3, <2>3, NextPrograms DEF DefaultValue, Steps, Same
  <2> QED
    BY <2>2, <2>4, PoisonStays
<1>4. CASE BindExisting
  <2>1. content' = content /\ prog' = Next1(RegisteredExisting(Holding), "function")
    BY <1>4 DEF BindExisting
  <2>6. /\ Register(prog, Holding).clash = prog.clash
        /\ Register(prog, Holding).failed = prog.failed
        /\ Register(prog, Holding).thrown = prog.thrown
    BY DEF Register
  <2>2. RegisteredExisting(Holding) \in Programs
        /\ RegisteredExisting(Holding).clash = prog.clash
        /\ RegisteredExisting(Holding).failed = prog.failed
        /\ RegisteredExisting(Holding).thrown = prog.thrown
    BY <2>6, RegisterPrograms DEF RegisteredExisting
  <2>3. \/ RegisteredExisting(Holding).registered = prog.registered
        \/ /\ RegisteredExisting(Holding).registered = prog.registered \cup {Holding}
           /\ There(Holding) /\ Holding \notin prog.clash
    BY RegisterPrograms DEF RegisteredExisting, Throws
  <2>4. prog' \in Programs /\ Same(prog', RegisteredExisting(Holding))
    BY <2>1, <2>2, NextPrograms DEF Steps
  <2>5. PoisonOK'
    BY <2>1, <2>2, <2>3, <2>4 DEF PoisonOK, Kept, Same, There
  <2> QED
    BY <2>1, <2>4, <2>5, Untouched DEF ProgramOK
<1>5. CASE NewFunction
  <2>1. Function \in Name
    BY BindAssumption DEF Named
  <2>2. ContentOK' /\ Remains
    BY <1>0, <1>5, <2>1, Stored DEF NewFunction
  <2>3. prog' \in Programs /\ Same(prog', prog)
    BY <1>5 DEF NewFunction, Programs, Same, Steps
  <2> QED
    BY <2>2, <2>3, PoisonStays
<1>6. CASE Pull
  <2>1. content' = content
    BY <1>6 DEF Pull
  <2>2. CASE ~Imports(Holding)
    <3>1. prog' \in Programs /\ Same(prog', prog)
      BY <1>6, <2>2, NextPrograms DEF Pull, Steps
    <3> QED
      BY <2>1, <3>1, PoisonStays, Untouched
  <2>3. CASE Imports(Holding) /\ Throws(Holding)
    <3>1. prog' = Missed(prog, "compute")
      BY <1>6, <2>3 DEF Pull
    <3>2. PoisonOK' /\ prog' \in Programs
      BY <2>1, <2>3, <3>1, MissedPrograms DEF Imports, PoisonOK, Kept, There, Steps
    <3> QED
      BY <2>1, <3>2, Untouched DEF ProgramOK
  <2>4. CASE Imports(Holding) /\ ~Throws(Holding)
    <3> DEFINE x == Narrowed(Holding, content[Holding])
               p == [Transferred(prog, Holding) EXCEPT !.var[Holding] = x]
    <3>1. prog' = Next1(p, "compute")
      BY <1>6, <2>4 DEF Pull
    <3>2. content[Holding] \in Nat
      BY <2>4, BindAssumption, RequestsAssumption DEF Throws, There, ContentOK, Content
    <3>3. x \in Fitting(Holding)
      BY <3>2 DEF Narrowed, Fitting
    <3> HIDE DEF x
    <3>4. p \in Programs /\ Same(p, prog)
      BY <3>3, TransferredPrograms
    <3> HIDE DEF p
    <3>5. prog' \in Programs /\ Same(prog', prog)
      BY <3>1, <3>4, NextPrograms DEF Steps, Same
    <3> QED
      BY <2>1, <3>5, PoisonStays, Untouched
  <2> QED
    BY <2>2, <2>3, <2>4
<1>7. CASE Compute
  <2>1. content' = content
    BY <1>7 DEF Compute
  <2>2. prog' \in Programs /\ Same(prog', prog)
    <3>1. CASE prog' = [prog EXCEPT !.pc = "push"]
      BY <3>1 DEF Programs, Same, Steps
    <3>2. CASE \E b \in Bound : \E x \in Fitting(b) \ {prog.var[b]} :
                 prog' = [Assigned(prog, b, x) EXCEPT !.pc = "push"]
      BY <3>2, AssignedPrograms
    <3> QED
      BY <1>7, <3>1, <3>2 DEF Compute
  <2> QED
    BY <2>1, <2>2, PoisonStays, Untouched
<1>8. CASE Push
  <2>1. ContentOK' /\ Remains
    <3>1. prog.var[Holding] \in Datum
      BY DEF Programs
    <3> QED
      BY <1>8, <3>1, Stored, Untouched DEF Push
  <2>2. CASE Exports(Holding) /\ Throws(Holding)
    <3>1. prog' = Missed(prog, "pull") /\ content' = content
      BY <1>8, <2>2 DEF Push
    <3>2. PoisonOK' /\ prog' \in Programs
      BY <2>2, <3>1, MissedPrograms DEF Exports, PoisonOK, Kept, There, Steps
    <3> QED
      BY <2>1, <3>1, <3>2 DEF ProgramOK
  <2>3. CASE ~(Exports(Holding) /\ Throws(Holding))
    <3>1. \/ prog' = Next1(prog, "pull")
          \/ prog' = Next1(Transferred(prog, Holding), "pull")
          \/ prog' = Thrown(Transferred(prog, Holding), "pull")
      BY <1>8, <2>3 DEF Push
    <3>2. prog' \in Programs /\ Same(prog', prog)
      BY <3>1, NextPrograms, TransferredPrograms DEF Steps, Same
    <3> QED
      BY <2>1, <3>2, PoisonStays
  <2> QED
    BY <2>2, <2>3
<1> QED
  BY <1>1, <1>2, <1>3, <1>4, <1>5, <1>6, <1>7, <1>8 DEF ProgramStep

\* The notes the properties keep do not change what the bindings are.
LEMMA NoticedPrograms ==
    ASSUME ProgramOK, Noticed \/ FunctionRuns
    PROVE  prog' \in Programs /\ Same(prog', prog)
<1> prog \in Programs
  BY DEF ProgramOK
<1>1. CASE Noticed
  <2> DEFINE moved == prog.moved \cup {b \in Pushed : content'[b] # content[b]}
  <2>1. moved \in SUBSET Pushed
    BY DEF Programs
  <2>2. prog' = IF prog.loops THEN [prog EXCEPT !.moved = moved] ELSE prog
    BY <1>1 DEF Noticed
  <2> HIDE DEF moved
  <2> QED
    BY <2>1, <2>2 DEF Programs, Same
<1>2. CASE FunctionRuns
  <2>1. CASE prog' = prog
    BY <2>1 DEF Same
  <2>2. CASE prog' # prog
    <3>1. \E b \in Bound : \E x \in Fitting(b) : prog' = Assigned(prog, b, x)
      BY <1>2, <2>2 DEF FunctionRuns
    <3> QED
      BY <3>1, AssignedPrograms
  <2> QED
    BY <2>1, <2>2
<1> QED
  BY <1>1, <1>2

\* The wrapper of the other thread touches no binding.
LEMMA OtherThreadTyped ==
    ASSUME ProgramOK, ContentOK, WrapperBind \/ WrapperSet
    PROVE  ProgramOK' /\ ContentOK' /\ Remains
<1>1. CASE WrapperBind
  <2>1. ContentOK' /\ Remains /\ prog' = prog /\ wrapper' \in {"half", "bound"}
    BY <1>1, Untouched DEF WrapperBind
  <2> QED
    BY <1>1, <2>1 DEF WrapperBind, ProgramOK, PoisonOK, Kept, There
<1>2. CASE WrapperSet
  <2>1. Wrapped \in Name /\ WrapperData \subseteq Datum
    BY BindAssumption DEF Values, Named
  <2>2. ContentOK' /\ Remains
    BY <1>2, <2>1, Stored DEF WrapperSet
  <2>3. prog' \in Programs /\ Same(prog', prog) /\ wrapper' = wrapper
    BY <1>2, NoticedPrograms DEF WrapperSet
  <2> QED
    BY <2>2, <2>3, PoisonStays
<1> QED
  BY <1>1, <1>2

-----------------------------------------------------------------------------
(***************************************************************************)
(* The whole robot: its request server, its bound program and the shells   *)
(* of its users, for any number of clients, any tree of nodes, values and  *)
(* commands, and any list of bindings.  IInv is inductive; with HomeOK, by *)
(* which the walk that lists all commands goes through every node that has *)
(* one, each step is a step of RemoteCalls or leaves its calls alone.      *)
(***************************************************************************)

\* The other code of the program puts into the tree what is not of the bindings.
LEMMA OthersTyped ==
    ASSUME RequestsOK, ProgramOK, OtherCode
    PROVE  ProgramOK' /\ ContentOK' /\ InsertingOK' /\ Remains
<1> prog \in Programs /\ 0 \in Datum /\ ContentOK
  BY RequestsAssumption DEF ProgramOK, RequestsOK
<1>1. CASE BeginInsert
  <2>1. inserting' \in Node \ {Root} /\ content' = content /\ UNCHANGED bindVars
    BY <1>1, RequestsAssumption DEF BeginInsert, Programs
  <2>2. ContentOK' /\ Remains
    BY <2>1, Untouched
  <2>3. ProgramOK'
    BY <2>1, <2>2, PoisonStays DEF bindVars, Same
  <2> QED
    BY <2>1, <2>2, <2>3 DEF InsertingOK
<1>2. CASE EndInsert
  <2>1. inserting \in Name /\ content' = [content EXCEPT ![inserting] = 0] /\ inserting' = Absent
        /\ UNCHANGED bindVars
    BY <1>2 DEF EndInsert, RequestsOK, InsertingOK, Node
  <2>2. ContentOK' /\ Remains
    BY <2>1, Stored
  <2>3. ProgramOK'
    BY <2>1, <2>2, PoisonStays DEF bindVars, Same
  <2> QED
    BY <2>1, <2>2, <2>3 DEF InsertingOK
<1>3. CASE Declare
  <2>1. PICK n \in Name : content' = [content EXCEPT ![n] = 0]
    BY <1>3 DEF Declare, Programs
  <2>2. ContentOK' /\ Remains
    BY <2>1, Stored
  <2>3. inserting' = inserting /\ UNCHANGED bindVars
    BY <1>3 DEF Declare
  <2>4. ProgramOK'
    BY <2>2, <2>3, PoisonStays DEF bindVars, Same
  <2> QED
    BY <2>2, <2>3, <2>4 DEF RequestsOK, InsertingOK
<1> QED
  BY <1>1, <1>2, <1>3 DEF OtherCode

\* The inductive invariant.
IInv == RequestsOK /\ ShellsOK /\ QuietOK /\ ProgramOK

\* The invariant holds when the program starts.
LEMMA InitIInv == Init => IInv
<1> SUFFICES ASSUME Init PROVE IInv
  OBVIOUS
<1> USE DEF Init, RequestsInit, ShellInit, BindInit
<1>1. RequestsOK
  <2>1. Idle \in Lines /\ Idle.at = "idle"
    BY DEF Idle, Lines
  <2>2. WalkOK /\ InsertingOK
    BY NoWalkOK DEF WalkOK, InsertingOK
  <2> QED
    BY <2>1, <2>2 DEF RequestsOK, LinesOK, ContentOK, Content, ServingOK, Taken
<1>2. NewShell \in Shells
  <2>1. <<>> \in Seq(Request) /\ Root \in Node /\ Root \in AnyName /\ Absent \in Content
    BY DEF Node, AnyName, Content
  <2>2. [n \in Node |-> NotLoaded] \in [Node -> [loaded : BOOLEAN, names : SUBSET Name]]
    BY DEF NotLoaded
  <2> QED
    BY <2>1, <2>2 DEF NewShell, Shells, ShellFields, Doings, Quiet
<1>3. ShellsOK /\ QuietOK
  BY <1>2, ShellAssumption DEF ShellsOK, QuietOK, IsIdle, Idle
<1>4. ProgramOK
  BY FreshPrograms DEF ProgramOK, PoisonOK, Kept, FreshProgram
<1> QED
  BY <1>1, <1>3, <1>4 DEF IInv

\* The lines of the shells that are at rest are not the server's business.
LEMMA QuietStays ==
    ASSUME QuietOK, shell' = shell, \A s \in Shell : IsIdle(s) => line'[s] = line[s]
    PROVE  QuietOK'
BY DEF QuietOK, IsIdle

\* A client that is a program asks, or reads its answer.
LEMMA ProgramLines ==
    ASSUME NEW c \in Client, Program(c)
    PROVE  \E l \in Lines : /\ l.at \in {"idle", "asked"}
                            /\ line' = [line EXCEPT ![c] = l]
<1>1. CASE Receive(c)
  BY <1>1 DEF Receive, Idle, Lines
<1>2. CASE \E q \in Request : Send(c, q)
  BY <1>2 DEF Send, Asked, Lines
<1>3. \A v \in Bound : Get(v) \in Request /\ \A x \in TypedData : Set(v, x) \in Request
  BY Simple, SimpleSet, BoundAre, ShellAssumption
<1>4. CallCommand(Function) \in Request
  BY Simple, BindAssumption DEF Named
<1> QED
  BY <1>1, <1>2, <1>3, <1>4 DEF Program

\* So does a shell.
LEMMA UserLines ==
    ASSUME RequestsOK, ShellsOK, QuietOK, NEW s \in Shell, User(s)
    PROVE  /\ line[s].at \in {"idle", "answered"} /\ UNCHANGED <<content, serving, walk, inserting, restarts>>
           /\ \E l \in Lines : /\ l.at \in {"idle", "asked"}
                               /\ line' = [line EXCEPT ![s] = l]
           /\ LinesOK' /\ ShellsOK' /\ QuietOK'
<1> LinesOK /\ restarts \in Nat
  BY DEF RequestsOK
<1>1. line[s].at \in {"idle", "answered"} /\ \E r \in Shells : Continue(s, r)
  BY UserContinues DEF User
<1>2. PICK r \in Shells : Continue(s, r)
  BY <1>1
<1>3. LinesOK' /\ ShellsOK' /\ QuietOK'
  BY <1>2, ContinueTyped
<1>4. s \in Client /\ line'[s] \in Lines
  BY <1>3, ShellAssumption DEF LinesOK
<1>5. line' = [line EXCEPT ![s] = line'[s]] /\ line'[s].at \in {"idle", "asked"}
      /\ UNCHANGED <<content, serving, walk, inserting, restarts>>
  BY <1>2, <1>4 DEF Continue, LinesOK, Idle, Asked
<1> QED
  BY <1>1, <1>3, <1>4, <1>5

\* Every step keeps the invariant, and nothing goes away except in a restart.
LEMMA NextKeeps == IInv /\ [Next]_vars => IInv' /\ (Remains \/ ProgramRestarts)
<1> SUFFICES ASSUME IInv, [Next]_vars
             PROVE  IInv' /\ (Remains \/ ProgramRestarts)
  OBVIOUS
<1> RequestsOK /\ ShellsOK /\ QuietOK /\ ProgramOK /\ LinesOK /\ ContentOK /\ restarts \in Nat
  BY DEF IInv, RequestsOK
<1>1. ASSUME NEW c \in Client, ServerTakes(c)
      PROVE  IInv' /\ Remains
  <2>1. RequestsOK' /\ Remains /\ shell' = shell
    BY <1>1, TakerTyped DEF ServerTakes
  <2>2. \A s \in Shell : IsIdle(s) => line'[s] = line[s]
    BY <1>1 DEF ServerTakes, Begin, BeginConcurrently, IsIdle, LinesOK
  <2>3. ProgramOK'
    BY <1>1, <2>1, PoisonStays DEF ServerTakes, bindVars, ProgramOK, Same
  <2> QED
    BY <2>1, <2>2, <2>3, QuietStays DEF IInv, ShellsOK
<1>2. ASSUME NEW c \in Client, ServerActs(c) \/ ServerEndsCall(c)
      PROVE  IInv' /\ Remains
  <2>1. RequestsOK' /\ Remains /\ shell' = shell
    BY <1>2, ServerTyped DEF ServerActs, ServerEndsCall
  <2>2. \A s \in Shell : IsIdle(s) => line'[s] = line[s]
    <3>1. Taken(c) /\ (line' = line \/ \E reply : Answer(c, reply))
      BY <1>2, ServerTouches DEF ServerActs, ServerEndsCall
    <3>2. \A d \in Client \ {c} : line'[d] = line[d]
      BY <3>1 DEF Answer, LinesOK
    <3> QED
      BY <3>1, <3>2, ShellAssumption DEF Taken, IsIdle
  <2>3. prog' \in Programs /\ Same(prog', prog) /\ wrapper' = wrapper
    BY <1>2, NoticedPrograms DEF ServerActs, ServerEndsCall
  <2>4. ProgramOK'
    BY <2>1, <2>3, PoisonStays
  <2> QED
    BY <2>1, <2>2, <2>4, QuietStays DEF IInv, ShellsOK
<1>3. ASSUME NEW c \in Client \ Shell, Program(c)
      PROVE  IInv' /\ Remains
  <2>1. \E l \in Lines : /\ l.at \in {"idle", "asked"}
                         /\ line' = [line EXCEPT ![c] = l]
    BY <1>3, ProgramLines
  <2>2. line[c].at \in {"idle", "answered"} /\ UNCHANGED <<content, serving, walk, inserting, restarts>>
    BY <1>3 DEF Program, Send, Receive, IsIdle
  <2>3. RequestsOK' /\ Remains /\ shell' = shell
    BY <1>3, <2>1, <2>2, ClientTyped DEF Program
  <2>4. \A s \in Shell : line'[s] = line[s]
    BY <2>1, ShellAssumption DEF LinesOK
  <2>5. ProgramOK'
    BY <1>3, <2>3, PoisonStays DEF Program, bindVars, ProgramOK, Same
  <2> QED
    BY <2>3, <2>4, <2>5, QuietStays DEF IInv, ShellsOK
<1>4. ASSUME NEW s \in Shell, User(s)
      PROVE  IInv' /\ Remains
  <2>1. /\ line[s].at \in {"idle", "answered"} /\ UNCHANGED <<content, serving, walk, inserting, restarts>>
        /\ \E l \in Lines : /\ l.at \in {"idle", "asked"}
                            /\ line' = [line EXCEPT ![s] = l]
        /\ ShellsOK' /\ QuietOK'
    BY <1>4, UserLines
  <2>2. RequestsOK' /\ Remains
    BY <2>1, ShellAssumption, ClientTyped
  <2>3. ProgramOK'
    BY <1>4, <2>2, PoisonStays DEF User, bindVars, ProgramOK, Same
  <2> QED
    BY <2>1, <2>2, <2>3 DEF IInv
<1>5. ASSUME Robot \/ OtherThread \/ Others
      PROVE  IInv' /\ Remains
  <2>1. ProgramOK' /\ ContentOK' /\ Remains
    BY <1>5, ProgramStepTyped, OtherThreadTyped, OthersTyped DEF Robot, OtherThread, Others
  <2>2. UNCHANGED <<line, serving, walk, restarts, shell>>
    BY <1>5 DEF Robot, OtherThread, Others
  <2>4. WalkOK' /\ InsertingOK'
    BY <1>5, <2>2, OthersTyped DEF Robot, OtherThread, Others, RequestsOK, WalkOK, InsertingOK
  <2>3. ServingOK'
    <3>1. \A c \in Client : Taken(c) => line[c].req \in Request
      BY LineShape DEF Taken
    <3>2. \A c \in Client : Taken(c) /\ There(line[c].req.name) => There(line[c].req.name)'
      BY <2>1, <2>2, <3>1 DEF Remains, There, Request, AnyName
    <3> QED
      BY <2>2, <3>2 DEF ServingOK, RequestsOK, Taken
  <2> QED
    BY <2>1, <2>2, <2>3, <2>4 DEF IInv, RequestsOK, LinesOK, ShellsOK, QuietOK, IsIdle
<1>6. ASSUME ProgramRestarts
      PROVE  IInv'
  <2>1. RequestsOK' /\ \A c \in Client : IsIdle(c) => line'[c] = line[c]
    BY <1>6, RestartTyped DEF ProgramRestarts
  <2>2. QuietOK' /\ ShellsOK'
    BY <1>6, <2>1, QuietStays, ShellAssumption DEF ProgramRestarts, ShellsOK
  <2>3. prog.clash \in SUBSET Bound /\ prog.loops \in BOOLEAN
        /\ prog.others \in SUBSET (Name \ BoundNames)
    BY DEF ProgramOK, Programs
  <2>4. prog' \in Programs
    BY <1>6, <2>3, FreshPrograms DEF ProgramRestarts
  <2>5. ProgramOK'
    BY <1>6, <2>4 DEF ProgramRestarts, ProgramOK, PoisonOK, Kept, FreshProgram
  <2> QED
    BY <2>1, <2>2, <2>5 DEF IInv
<1>7. CASE UNCHANGED vars
  BY <1>7 DEF vars, requestVars, bindVars, IInv, RequestsOK, LinesOK, ContentOK, ServingOK,
              Taken, There, WalkOK, InsertingOK, ShellsOK, QuietOK, IsIdle, ProgramOK, PoisonOK,
              Kept, Remains
<1> QED
  BY <1>1, <1>2, <1>3, <1>4, <1>5, <1>6, <1>7 DEF Next

\* So it holds in every state.
LEMMA InductiveInvariant == Spec => []IInv
BY InitIInv, NextKeeps, PTL DEF Spec

\* A pull or a push throws only at a binding whose bindNew threw: no request
\* of a client, in whatever order, makes a sound binding throw.
THEOREM Poisoned == Spec => []RoundsThrowOnlyPoisoned
<1>1. IInv => RoundsThrowOnlyPoisoned
  BY DEF IInv, ProgramOK, PoisonOK, RoundsThrowOnlyPoisoned
<1> QED
  BY <1>1, InductiveInvariant, PTL

-----------------------------------------------------------------------------
\* The program has its node when it has begun, and the wrapper its value.
PlaceOK == /\ prog.pc # "construct" => There(Prefix)
           /\ wrapper = "bound" => There(Wrapped)
Places == HomeOK /\ PlaceOK /\ WalkInv

\* The node of the program, and what is in it.
LEMMA PrefixName ==
    /\ Prefix \in Name /\ Prefix # Root /\ Function \in Name /\ Wrapped \in Name
    /\ \A n \in Bound \cup {Function} : n \in Name /\ In[n] = Prefix
    /\ ToSet(Path[Root]) = {} /\ ToSet(Path[Prefix]) = {Root}
    /\ \A n \in Bound \cup {Function} : ToSet(Path[n]) = {Root, Prefix}
<1>1. Prefix \in Name /\ Prefix # Root /\ In[Prefix] = Root /\ Function \in Name /\ Wrapped \in Name
  BY BindAssumption, RequestsAssumption DEF Node, Named, Values
<1>2. \A n \in Bound \cup {Function} : n \in Name /\ In[n] = Prefix
  BY <1>1, BindAssumption, BoundAre
<1>3. ToSet(Path[Root]) = {}
  BY RequestsAssumption DEF PathAssumption, ToSet
<1>4. ToSet(Path[Prefix]) = {Root}
  BY <1>1, <1>3, PathSteps
<1>5. \A n \in Bound \cup {Function} : ToSet(Path[n]) = {Root, Prefix}
  BY <1>2, <1>4, PathSteps
<1> QED
  BY <1>1, <1>2, <1>3, <1>4, <1>5

\* What is put into a node that is there is in nodes that are there.
LEMMA HomeBelow ==
    ASSUME HomeOK, NEW n \in Name, There(In[n])
    PROVE  \A m \in ToSet(Path[n]) : There(m)
<1>1. In[n] = Root \/ In[n] \in Name
  BY RequestsAssumption
<1>2. ToSet(Path[n]) = ToSet(Path[In[n]]) \cup {In[n]}
  BY PathSteps
<1>3. CASE In[n] = Root
  BY <1>2, <1>3, PrefixName
<1>4. CASE In[n] \in Name
  BY <1>2, <1>4 DEF HomeOK
<1> QED
  BY <1>1, <1>3, <1>4

\* So it stays, whatever is put there.
LEMMA HomeStays ==
    ASSUME HomeOK, Remains,
           \A n \in Name : There(n)' \/ n = inserting' =>
              \/ There(n) \/ n = inserting \/ There(In[n])
              \/ n \in Bound \cup {Function, Prefix} /\ There(Prefix)'
    PROVE  HomeOK'
<1> SUFFICES ASSUME NEW n \in Name, There(n)' \/ n = inserting'
             PROVE  \A m \in ToSet(Path[n]) : There(m)'
  BY DEF HomeOK
<1>1. \A m \in ToSet(Path[n]) : There(m) => There(m)'
  <2>1. ToSet(Path[n]) \subseteq Name \cup {Root}
    <3>1. Path[n] \in Seq(Node)
      BY PathSteps
    <3> QED
      BY <3>1 DEF ToSet, Node
  <2> QED
    BY <2>1 DEF Remains, There
<1>2. CASE There(n) \/ n = inserting
  BY <1>1, <1>2 DEF HomeOK
<1>3. CASE There(In[n])
  BY <1>1, <1>3, HomeBelow
<1>4. CASE n \in Bound \cup {Function, Prefix} /\ There(Prefix)'
  BY <1>4, PrefixName DEF There
<1> QED
  BY <1>2, <1>3, <1>4

\* At the start there is nothing.
LEMMA InitPlaces == Init => Places
<1> SUFFICES ASSUME Init PROVE Places
  OBVIOUS
<1>1. \A n \in Name : ~There(n) /\ n # inserting
  BY RequestsAssumption DEF Init, RequestsInit, There
<1> QED
  BY <1>1 DEF Init, RequestsInit, BindInit, FreshProgram, Places, HomeOK, PlaceOK, WalkInv

\* What the server does adds no name.
LEMMA ServerAddsNothing ==
    ASSUME RequestsOK, NEW c \in Client, Serve(c) \/ EndCall(c)
    PROVE  (\A n \in Name : There(n)' => There(n)) /\ inserting' = inserting
<1>1. CASE SetValue(c)
  <2>1. There(line[c].req.name)
    BY <1>1 DEF SetValue, Serves, RequestsOK, ServingOK, Taken
  <2>2. content' = [content EXCEPT ![line[c].req.name] = line[c].req.arg]
        /\ inserting' = inserting
    BY <1>1 DEF SetValue, Answer
  <2> QED
    BY <2>1, <2>2 DEF There, RequestsOK, ContentOK
<1>2. CASE ~SetValue(c)
  BY <1>2 DEF Serve, Refuse, List, ListAll, ListCommands, ListChildren, ListedAll, Details,
              GetValue, CallResult, EndCall, Answer, There
<1> QED
  BY <1>1, <1>2

\* The program makes its node, and in it what it binds.
LEMMA ProgramPlaces ==
    ASSUME ProgramOK, ContentOK, PlaceOK, ProgramStep, Remains, inserting' = inserting
    PROVE  /\ prog'.pc # "construct" /\ There(Prefix)'
           /\ \A n \in Name : There(n)' => There(n) \/ n \in Bound \cup {Function, Prefix}
<1> USE PrefixName, HoldingBound
<1> prog \in Programs /\ 0 \in Datum
  BY RequestsAssumption DEF ProgramOK
<1>1. CASE Construct
  BY <1>1, RequestsAssumption DEF Construct, Programs, There
<1>2. CASE ~Construct
  <2>1. prog.pc # "construct"
    BY <1>2 DEF ProgramStep, BindNew, DefaultValue, BindExisting, NewFunction, Pull, Compute, Push
  <2>2. There(Prefix)'
    BY <2>1 DEF PlaceOK, Remains, There
  <2>3. \A n \in Name : content'[n] = content[n] \/ n = Holding \/ n = Function
    BY <1>2 DEF ProgramStep, BindNew, DefaultValue, BindExisting, NewFunction, Pull, Compute, Push,
                ContentOK
  <2>4. prog'.pc # "construct"
    <3>1. \A p \in Programs, pc \in {"bind", "function", "compute", "pull"} :
              p.pc # "construct" => Next1(p, pc).pc # "construct" /\ Thrown(p, pc).pc # "construct"
      BY DEF Next1, Thrown, Programs
    <3>2. CASE BindNew \/ DefaultValue \/ BindExisting
      <4>1. \A b \in Bound : /\ Register(prog, b) \in Programs /\ Register(prog, b).pc = prog.pc
                             /\ [Register(prog, b) EXCEPT !.failed = @ \cup {b}] \in Programs
                             /\ [Register(prog, b) EXCEPT !.failed = @ \cup {b}].pc = prog.pc
                             /\ [Register(prog, b) EXCEPT !.pc = "default"].pc = "default"
        BY DEF Register, Programs
      <4>2. [prog EXCEPT !.pc = "bind"] \in Programs /\ [prog EXCEPT !.pc = "bind"].pc = "bind"
        BY DEF Programs, Steps
      <4>3. CASE BindNew
        BY <2>1, <3>1, <4>1, <4>3 DEF BindNew
      <4>4. CASE DefaultValue
        BY <3>1, <4>2, <4>4 DEF DefaultValue
      <4>5. CASE BindExisting
        BY <2>1, <3>1, <4>1, <4>5 DEF BindExisting, RegisteredExisting
      <4> QED
        BY <3>2, <4>3, <4>4, <4>5
    <3>3. CASE NewFunction \/ Compute
      <4>1. \A p \in Programs : p.pc = "push" \/ [p EXCEPT !.pc = "push"].pc = "push"
        BY DEF Programs
      <4>2. \A b \in Bound : \A x \in Fitting(b) : Assigned(prog, b, x) \in Programs
        BY AssignedPrograms
      <4>3. Compute => prog'.pc = "push"
        <5>1. CASE prog' = [prog EXCEPT !.pc = "push"]
          BY <4>1, <5>1
        <5>2. CASE \E b \in Bound : \E x \in Fitting(b) : prog' = [Assigned(prog, b, x) EXCEPT !.pc = "push"]
          BY <4>2, <5>2 DEF Programs
        <5> QED
          BY <5>1, <5>2 DEF Compute
      <4>4. NewFunction => prog'.pc \in {"pull", "done"}
        BY DEF NewFunction, Programs
      <4> QED
        BY <3>3, <4>3, <4>4
    <3>4. CASE Pull
      <4> DEFINE x == Narrowed(Holding, content[Holding])
                 p == [Transferred(prog, Holding) EXCEPT !.var[Holding] = x]
                 q == [prog EXCEPT !.thrown = @ \cup {Holding}]
      <4>1. \/ prog' = Next1(prog, "compute") \/ prog' = Thrown(q, "compute")
            \/ prog' = Next1(p, "compute")
        BY <3>4 DEF Pull, Missed, Holding
      <4>2. p.pc = prog.pc /\ q.pc = prog.pc
        BY DEF Transferred, Programs
      <4> HIDE DEF p, q
      <4>3. Next1(p, "compute").pc \in {p.pc, "compute"} /\ Next1(prog, "compute").pc \in {prog.pc, "compute"}
            /\ Thrown(q, "compute").pc = "compute"
        BY DEF Next1, Thrown
      <4> QED
        BY <2>1, <4>1, <4>2, <4>3
    <3>5. CASE Push
      <4> DEFINE p == Transferred(prog, Holding)
                 q == [prog EXCEPT !.thrown = @ \cup {Holding}]
      <4>1. \/ prog' = Next1(prog, "pull") \/ prog' = Next1(p, "pull")
            \/ prog' = Thrown(p, "pull") \/ prog' = Thrown(q, "pull")
        BY <3>5 DEF Push, Missed, Holding
      <4>2. p \in Programs /\ p.pc = prog.pc
        <5>1. p \in Programs
          BY TransferredPrograms
        <5> QED
          BY <5>1 DEF Transferred
      <4>3. q \in [pc : Steps, at : 1 .. Len(Bindings), loops : BOOLEAN,
                   others : SUBSET (Name \ BoundNames), var : [Bound -> Nat],
                   registered : SUBSET Bound, clash : SUBSET Bound, failed : SUBSET Bound,
                   thrown : SUBSET Bound, touched : SUBSET Pushed, moved : SUBSET Pushed]
        BY DEF Programs
      <4> HIDE DEF p, q
      <4>4. Thrown(q, "pull").pc = "pull"
        BY <4>3 DEF Thrown
      <4> QED
        BY <2>1, <3>1, <4>1, <4>2, <4>4
    <3> QED
      BY <1>2, <3>2, <3>3, <3>4, <3>5 DEF ProgramStep
  <2> QED
    BY <2>2, <2>3, <2>4 DEF There
<1> QED
  BY <1>1, <1>2

\* Every step keeps the places, and what a listing of the commands has to explore.
LEMMA NextPlaces == IInv /\ Places /\ [Next]_vars => Places'
<1> SUFFICES ASSUME IInv, Places, [Next]_vars
             PROVE  Places'
  OBVIOUS
<1> /\ RequestsOK /\ ProgramOK /\ LinesOK /\ ContentOK /\ (Remains \/ ProgramRestarts)
    /\ prog \in Programs /\ HomeOK /\ PlaceOK /\ WalkInv
  BY NextKeeps DEF IInv, RequestsOK, ProgramOK, Places
<1>0. Remains => (There(Prefix) => There(Prefix)') /\ (There(Wrapped) => There(Wrapped)')
  BY PrefixName, RemainsThere
<1>1. ASSUME NEW c \in Client, ServerTakes(c)
      PROVE  Places'
  <2>1. UNCHANGED <<content, inserting, prog, wrapper>> /\ serving' # "walking"
    BY <1>1 DEF ServerTakes, Begin, BeginConcurrently, bindVars
  <2> QED
    BY <2>1 DEF Places, HomeOK, PlaceOK, WalkInv, There
<1>2. ASSUME NEW c \in Client, ServerActs(c) \/ ServerEndsCall(c)
      PROVE  Places'
  <2>1. (Serve(c) \/ EndCall(c)) /\ wrapper' = wrapper /\ (Noticed \/ FunctionRuns)
    BY <1>2 DEF ServerActs, ServerEndsCall
  <2>2. Remains
    BY <2>1, ServerTyped
  <2>3. (\A n \in Name : There(n)' => There(n)) /\ inserting' = inserting
    BY <2>1, ServerAddsNothing
  <2>4. prog'.pc = prog.pc
    <3>1. Noticed => prog'.pc = prog.pc
      BY DEF Noticed
    <3>2. FunctionRuns => prog'.pc = prog.pc
      <4>1. \A b \in Bound : \A x : Assigned(prog, b, x).pc = prog.pc
        BY DEF Assigned, Programs
      <4> QED
        BY <4>1 DEF FunctionRuns
    <3> QED
      BY <2>1, <3>1, <3>2
  <2>5. HomeOK' /\ WalkInv'
    BY <2>1, <2>2, <2>3, HomeStays, ServerWalks
  <2> QED
    BY <1>0, <2>1, <2>2, <2>4, <2>5 DEF Places, PlaceOK
<1>3. ASSUME UNCHANGED <<content, serving, walk, inserting, bindVars>>
      PROVE  Places'
  BY <1>3 DEF Places, HomeOK, PlaceOK, WalkInv, ToExplore, Commands, Named, There, bindVars
<1>4. ASSUME Robot
      PROVE  Places'
  <2>1. ProgramStep /\ inserting' = inserting /\ UNCHANGED <<serving, walk, wrapper>>
    BY <1>4 DEF Robot
  <2>2. Remains
    BY <2>1, ProgramStepTyped
  <2>3. /\ prog'.pc # "construct" /\ There(Prefix)'
        /\ \A n \in Name : There(n)' => There(n) \/ n \in Bound \cup {Function, Prefix}
    BY <2>1, <2>2, ProgramPlaces
  <2>4. HomeOK' /\ WalkInv'
    BY <2>1, <2>2, <2>3, HomeStays, WalkStays
  <2> QED
    BY <1>0, <2>1, <2>2, <2>3, <2>4 DEF Places, PlaceOK
<1>5. ASSUME OtherThread
      PROVE  Places'
  <2>1. UNCHANGED <<serving, walk, inserting>> /\ (WrapperBind \/ WrapperSet)
    BY <1>5 DEF OtherThread
  <2>2. Remains
    BY <2>1, OtherThreadTyped
  <2>3. prog'.pc = prog.pc
    BY <2>1 DEF WrapperBind, WrapperSet, Noticed, Programs
  <2>4. /\ \A n \in Name : There(n)' => There(n)
        /\ wrapper' = "bound" => There(Wrapped)'
    <3>1. CASE WrapperBind
      BY <3>1 DEF WrapperBind, Throws, There
    <3>2. CASE WrapperSet
      <4>1. There(Wrapped) /\ \A n \in Name : content'[n] = content[n] \/ n = Wrapped
        BY <3>2, PrefixName DEF WrapperSet, PlaceOK, ContentOK
      <4> QED
        BY <1>0, <2>2, <4>1 DEF There
    <3> QED
      BY <2>1, <3>1, <3>2
  <2>5. HomeOK' /\ WalkInv'
    BY <2>1, <2>2, <2>4, HomeStays, WalkStays
  <2> QED
    BY <1>0, <2>2, <2>3, <2>4, <2>5 DEF Places, PlaceOK
<1>6. ASSUME Others
      PROVE  Places'
  <2>1. UNCHANGED <<serving, walk, bindVars>> /\ OtherCode
    BY <1>6 DEF Others, OtherCode, BeginInsert, EndInsert, Declare
  <2>2. Remains
    BY <2>1, OthersTyped
  <2>3. \A n \in Name : There(n)' \/ n = inserting' => There(n) \/ n = inserting \/ There(In[n])
    <3>1. CASE BeginInsert
      BY <3>1 DEF BeginInsert, There
    <3>2. CASE EndInsert
      <4>1. inserting \in Name /\ inserting' \notin Name
        BY <3>2, RequestsAssumption DEF EndInsert, RequestsOK, InsertingOK, Node
      <4> QED
        BY <3>2, <4>1 DEF EndInsert, There, ContentOK
    <3>3. CASE Declare
      BY <3>3 DEF Declare, There, ContentOK, Programs
    <3> QED
      BY <2>1, <3>1, <3>2, <3>3 DEF OtherCode
  <2>4. HomeOK' /\ WalkInv'
    BY <2>1, <2>2, <2>3, HomeStays, WalkStays
  <2> QED
    BY <1>0, <2>1, <2>2, <2>4 DEF Places, PlaceOK, bindVars
<1>7. ASSUME ProgramRestarts
      PROVE  Places'
  BY <1>7, RequestsAssumption DEF ProgramRestarts, Restart, FreshProgram, Places, HomeOK, PlaceOK, WalkInv, There
<1>8. ASSUME NEW c \in Client \ Shell, Program(c)
      PROVE  Places'
  BY <1>3, <1>8 DEF Program, Send, Receive
<1>9. ASSUME NEW s \in Shell, User(s)
      PROVE  Places'
  <2>1. UNCHANGED <<content, serving, walk, inserting>> /\ UNCHANGED bindVars
    BY <1>9, UserLines DEF IInv, User
  <2> QED
    BY <1>3, <2>1
<1>10. CASE UNCHANGED vars
  BY <1>3, <1>10 DEF vars, requestVars
<1> QED
  BY <1>1, <1>2, <1>4, <1>5, <1>6, <1>7, <1>8, <1>9, <1>10 DEF Next

-----------------------------------------------------------------------------
\* At the start nobody calls.
LEMMA InitCalls == Init => Calls!Init
<1> SUFFICES ASSUME Init PROVE Calls!Init
  OBVIOUS
<1>1. \A c \in Client : CallOf(line[c]) = [at |-> "none"]
  BY CallsAre DEF Init, RequestsInit, Idle
<1> QED
  BY <1>1 DEF Init, RequestsInit, Calls!Init

\* Every step is a step of RemoteCalls or a stutter.
LEMMA NextCalls == IInv /\ Places /\ [Next]_vars => [Calls!Next]_(Calls!vars)
<1> SUFFICES ASSUME IInv, Places, [Next]_vars
             PROVE  [Calls!Next]_(Calls!vars)
  OBVIOUS
<1> RequestsOK /\ ProgramOK /\ LinesOK /\ WalkInv /\ (Remains \/ ProgramRestarts)
  BY NextKeeps DEF IInv, RequestsOK, Places
<1>1. ASSUME NEW c \in Client, ServerTakes(c)
      PROVE  [Calls!Next]_(Calls!vars)
  BY <1>1, TakerCalls DEF ServerTakes, Calls!Next
<1>2. ASSUME NEW c \in Client, ServerActs(c) \/ ServerEndsCall(c)
      PROVE  [Calls!Next]_(Calls!vars)
  BY <1>2, ServerCalls DEF ServerActs, ServerEndsCall, Calls!Next
<1>3. ASSUME NEW c \in Client \ Shell, Program(c)
      PROVE  [Calls!Next]_(Calls!vars)
  <2>1. \E l \in Lines : /\ l.at \in {"idle", "asked"}
                         /\ line' = [line EXCEPT ![c] = l]
    BY <1>3, ProgramLines
  <2>2. line[c].at \in {"idle", "answered"} /\ UNCHANGED <<content, serving, walk, inserting, restarts>>
    BY <1>3 DEF Program, Send, Receive, IsIdle
  <2> QED
    BY <2>1, <2>2, ClientCalls DEF Calls!Next
<1>4. ASSUME NEW s \in Shell, User(s)
      PROVE  [Calls!Next]_(Calls!vars)
  <2>1. /\ line[s].at \in {"idle", "answered"} /\ UNCHANGED <<content, serving, walk, inserting, restarts>>
        /\ \E l \in Lines : /\ l.at \in {"idle", "asked"}
                            /\ line' = [line EXCEPT ![s] = l]
    BY <1>4, UserLines DEF IInv
  <2> QED
    BY <2>1, ShellAssumption, ClientCalls DEF Calls!Next
<1>5. ASSUME Robot \/ OtherThread \/ Others
      PROVE  [Calls!Next]_(Calls!vars)
  <2>1. UNCHANGED <<line, serving, walk>>
    BY <1>5 DEF Robot, OtherThread, Others
  <2>2. [c \in Client |-> CallOf(line[c])]' = [c \in Client |-> CallOf(line[c])]
    BY <2>1 DEF CallOf
  <2>3. Remains
    BY <1>5, ProgramStepTyped, OtherThreadTyped, OthersTyped
       DEF Robot, OtherThread, Others, RequestsOK
  <2> QED
    BY <2>2, <2>3 DEF Calls!Next, Calls!RobotChanges, Remains
<1>6. ASSUME ProgramRestarts
      PROVE  [Calls!Next]_(Calls!vars)
  BY <1>6, RestartCalls DEF ProgramRestarts, Calls!Next
<1>7. CASE UNCHANGED vars
  BY <1>7 DEF vars, requestVars, Calls!vars, CallOf
<1> QED
  BY <1>1, <1>2, <1>3, <1>4, <1>5, <1>6, <1>7 DEF Next

\* Each request takes effect at one moment between its sending and its answer, and is
\* answered from the tree of that moment, or is lost in a restart; the list of all
\* commands has those that were there when the server began it, and nothing that is not
\* there when it answers, whatever is declared meanwhile; and a name that is there is
\* refused only while a child is put into a node inside its path: the robot implements
\* RemoteCalls, for any tree of nodes and commands.
THEOREM Promised == Spec => ServedAsPromised
<1>1. Spec => [](IInv /\ Places)
  BY InitIInv, NextKeeps, InitPlaces, NextPlaces, PTL DEF Spec
<1> QED
  BY <1>1, InitCalls, NextCalls, PTL DEF Spec, ServedAsPromised, Calls!Spec

-----------------------------------------------------------------------------
(***************************************************************************)
(* Why no shell crashes that was not misled: it asks only for what is      *)
(* there, as it names only what it was told and nothing goes away, so that *)
(* an error only answers a set or a call, which the shell catches; its     *)
(* copy is a tree, in which each node that was downloaded is a child of    *)
(* another (Shape); and of the nodes on the way to the one it is at, each  *)
(* is a child of the one before it, if that was downloaded (OnWay): for    *)
(* while that is downloaded again, the child has been found or is still to *)
(* be listed (FindsPath).                                                  *)
(***************************************************************************)

\* What is there, the requests about it, and those that are refused to the misled only.
Present == {n \in Name : There(n)}
Asks == {q \in Request : There(q.name)}
Browses == {q \in Asks : q.op \notin {"set", "call", "all"}}
ChildList(n) == ListNames(n, "child")

\* The nodes on the way to a node, without the root.
Way(n) == (ToSet(Path[n]) \cup {n}) \ {Root}

\* The copy is a tree, and what is downloaded is a new part of it.
Shape(r) ==
    /\ \A n \in Node : ~r.copy[n].loaded => r.copy[n].names = {}
    /\ \A n \in Node \ {Root} : r.copy[n].loaded => n \in r.copy[In[n]].names
    /\ r.doing = "new" => ~r.copy[Root].loaded
    /\ r.loading # Absent => ~r.copy[r.loading].loaded /\ Has(r, r.loading)

\* The way to the node a shell is at goes through its copy, as far as that was downloaded.
OnWay(r) == \A m \in Way(r.path) :
               There(m) /\ (r.copy[In[m]].loaded => m \in r.copy[In[m]].names)

\* A shell asks only for what is there, and is at a node of its tree.
Honest(r) ==
    /\ r.doing # "crashed"
    /\ r.todo \in Seq(Asks)
    /\ r.loading # Absent => r.todo \in Seq(Browses)
    /\ r.found \subseteq Present
    /\ \A n \in Node : r.copy[n].names \subseteq Present
    /\ \A n \in r.remote : There(n)
    /\ Shape(r) /\ OnWay(r)

\* It has a tree, or downloads it.
HasTree(r) == r.doing \in {"new", "ended"} \/ r.copy[Root].loaded \/ r.loading = Root
Sound(r) == Honest(r) /\ HasTree(r)

\* Its request can be refused only when it is a set or a call.
LineSound(r, l) ==
    /\ l.at \in {"asked", "taken", "answered"} =>
          There(l.req.name) /\ (r.loading # Absent => l.req.op \notin {"set", "call", "all"})
    /\ l.at = "answered" =>
          /\ l.reply.kind = "error" => l.req.op \in {"set", "call"}
          /\ l.reply.names \subseteq Present

\* While a node on the way is downloaded, the next one is found, or will be.
WillFind(r) == r.loading # Absent => \A m \in Way(r.path) : In[m] = r.loading =>
                   m \in r.found \/ ChildList(r.loading) \in ToSet(r.todo)
FindsPath(r, l) ==
    \/ WillFind(r)
    \/ l.at \in {"asked", "taken"} /\ l.req = ChildList(r.loading)
    \/ /\ l.at = "answered" /\ l.req = ChildList(r.loading)
       /\ \A m \in Way(r.path) : In[m] = r.loading => m \in l.reply.names

\* A shell that cannot crash.
Safe(s) == /\ Sound(shell[s]) /\ LineSound(shell[s], line[s]) /\ FindsPath(shell[s], line[s])
           /\ line[s].at = "taken" => serving # "unknown"

SurvivalInv == \A s \in Shell : s \notin misled => Safe(s)

-----------------------------------------------------------------------------
\* A set of numbers has a smallest one.
LEMMA Smallest ==
    ASSUME NEW T, T \subseteq Nat, T # {}
    PROVE  \E m \in T : \A k \in T : m <= k
<1> DEFINE R == OpToRel(<, Nat)
<1>1. IsWellFoundedOn(R, Nat)
  BY ONLY NatLessThanWellFounded, Zenon
<1>2. \A i, j \in Nat : i < j => <<i, j>> \in R
  BY ONLY Zenon DEF OpToRel
<1> HIDE DEF R
<1>3. \E m \in T : \A k \in T : ~(<<k, m>> \in R)
  BY ONLY <1>1, T \subseteq Nat, T # {}, WFMin, Zenon
<1>4. \E m \in T : \A k \in T : ~(k < m)
  BY <1>2, <1>3
<1> QED
  BY <1>4

\* What is on the way to a node are children.
LEMMA WayNodes ==
    ASSUME NEW n \in Node
    PROVE  \A m \in Way(n) : m \in Node \ {Root} /\ m \in Name /\ Kind[m] = "child" /\ In[m] \in Node
<1>1. Path[n] \in Seq(Node)
  BY RequestsAssumption DEF PathAssumption, Node
<1>2. ToSet(Path[n]) \subseteq Node
  BY <1>1 DEF ToSet
<1> QED
  BY <1>2, RequestsAssumption DEF Way, Node

\* Where nothing is missing on the way to a node, all of it was downloaded.
LEMMA Reached ==
    ASSUME NEW r \in Shells, r.copy[Root].loaded, NEW n \in Node, Missing(r, n) = {}
    PROVE  \A m \in Way(n) : r.copy[m].loaded
<1>1. CASE n = Root
  BY <1>1, PrefixName DEF Way
<1>2. CASE n # Root
  <2> DEFINE p == Path[n]
             T == {i \in 1 .. Len(p) : ~r.copy[p[i]].loaded}
  <2>1. n \in Name
    BY <1>2 DEF Node
  <2>2. /\ p \in Seq(Node) /\ p[1] = Root /\ p = Append(Path[In[n]], In[n]) /\ Path[In[n]] \in Seq(Node)
        /\ \A i \in 2 .. Len(p) : p[i] # Root /\ In[p[i]] = p[i - 1]
    BY <2>1, RequestsAssumption DEF PathAssumption
  <2>3. ToSet(p) = {p[i] : i \in 1 .. Len(p)} /\ Len(p) \in Nat
    BY <2>2 DEF ToSet
  <2>4. \A m \in ToSet(p) \cup {n} : m # Root /\ ~r.copy[m].loaded => ~r.copy[In[m]].loaded
    BY DEF Missing
  <2> HIDE DEF p
  <2>5. T = {}
    <3> SUFFICES ASSUME T # {} PROVE FALSE
      OBVIOUS
    <3>1. T \subseteq Nat
      BY <2>3
    <3>2. PICK i \in T : \A k \in T : i <= k
      BY <3>1, Smallest
    <3>3. i \in 1 .. Len(p) /\ ~r.copy[p[i]].loaded
      OBVIOUS
    <3> HIDE DEF T
    <3>4. i # 1
      BY <2>2, <3>3
    <3>5. i \in 2 .. Len(p) /\ i - 1 \in 1 .. Len(p) /\ ~(i <= i - 1)
      BY <2>3, <3>3, <3>4
    <3>6. p[i] \in ToSet(p) /\ p[i] # Root /\ In[p[i]] = p[i - 1]
      BY <2>2, <2>3, <3>3, <3>5
    <3>7. ~r.copy[p[i - 1]].loaded
      BY <2>4, <3>3, <3>6
    <3>8. i - 1 \in T
      BY <3>5, <3>7 DEF T
    <3> QED
      BY <3>2, <3>5, <3>8
  <2>6. \A m \in ToSet(p) : r.copy[m].loaded
    BY <2>3, <2>5
  <2>7. In[n] \in ToSet(p)
    BY <2>1, PathSteps DEF p
  <2>8. r.copy[n].loaded
    BY <1>2, <2>4, <2>6, <2>7
  <2> QED
    BY <2>6, <2>8 DEF Way, p
<1> QED
  BY <1>1, <1>2

\* The tree of a shell does not depend on what else it remembers.
LEMMA SameTree ==
    ASSUME NEW r, NEW p, Shape(r), OnWay(r), p.copy = r.copy, p.path = r.path,
           p.loading \in {r.loading, Absent}, p.doing = "new" => r.doing = "new"
    PROVE  Shape(p) /\ OnWay(p)
BY DEF Shape, OnWay, Has

\* The requests about what is there ask for what is there.
LEMMA PresentRequests ==
    /\ \A S \in SUBSET Present : \A kind : DetailsOf(S, kind) \in Seq(Browses)
    /\ \A v \in Values \cap Present : Get(v) \in Browses
    /\ \A v \in Values \cap Present : \A x \in Datum : Set(v, x) \in Asks
    /\ \A n \in Node : There(n) => \A i \in 1 .. 8 : ListNames(n, Kinds[i]) \in Browses
    /\ ListAllCommands \in Asks
    /\ Browses \subseteq Asks /\ Asks \subseteq Request /\ Present \subseteq Name
<1>1. \A n \in Present : Describe(n) \in Browses /\ Get(n) \in Browses
  BY Simple DEF Present, Browses, Asks, Describe, Get, Message
<1>2. \A S \in SUBSET Present : \A kind : DetailsOf(S, kind) \in Seq(Browses)
  BY <1>1, DetailsIn DEF Present
<1>3. \A v \in Values \cap Present : \A x \in Datum : Set(v, x) \in Asks
  <2>1. ASSUME NEW v \in Values \cap Present, NEW x \in Datum
        PROVE  Set(v, x) \in Asks
    <3>1. Set(v, x) \in Request
      BY SimpleSet
    <3>2. Set(v, x).name = v
      BY DEF Set, Message
    <3> QED
      BY <3>1, <3>2 DEF Present, Asks
  <2> QED
    BY <2>1
<1>4. \A n \in Node : There(n) => \A i \in 1 .. 8 : ListNames(n, Kinds[i]) \in Browses
  BY SimpleList DEF Browses, Asks, ListNames, Message
<1>5. ListAllCommands \in Asks
  BY SimpleList DEF Asks, ListAllCommands, Message, There, Node
<1> QED
  BY <1>1, <1>2, <1>3, <1>4, <1>5 DEF Browses, Asks, Present

\* A shell that comes back to its prompt, or ends.
LEMMA PromptSound ==
    ASSUME NEW r \in Shells, Sound(r), r.copy[Root].loaded
    PROVE  /\ Sound(Prompt(r)) /\ Sound(Ended(r))
           /\ Prompt(r).loading = Absent /\ Ended(r).loading = Absent
<1>1. r \in ShellFields /\ <<>> \in Seq(Asks) /\ <<>> \in Seq(Browses) /\ Absent # Root
  BY RequestsAssumption DEF Shells
<1>2. /\ Prompt(r).doing = "prompt" /\ Prompt(r).loading = Absent /\ Prompt(r).todo = <<>>
      /\ Prompt(r).found = {} /\ Prompt(r).copy = r.copy /\ Prompt(r).remote = r.remote
      /\ Prompt(r).path = r.path
  BY <1>1 DEF Prompt, ShellFields
<1>3. /\ Ended(r).doing = "ended" /\ Ended(r).loading = Absent /\ Ended(r).todo = <<>>
      /\ Ended(r).found = {} /\ Ended(r).copy = r.copy /\ Ended(r).remote = r.remote
      /\ Ended(r).path = r.path
  BY <1>1 DEF Ended, Prompt, ShellFields
<1>4. /\ Shape(Prompt(r)) /\ OnWay(Prompt(r)) /\ Shape(Ended(r)) /\ OnWay(Ended(r))
  BY <1>2, <1>3, SameTree DEF Sound, Honest
<1> QED
  BY <1>1, <1>2, <1>3, <1>4 DEF Sound, Honest, HasTree

\* A shell that begins to download a node that is there, and in its copy.
LEMMA LoadSound ==
    ASSUME NEW r \in Shells, Honest(r), NEW n \in Node, There(n),
           r.copy[Root].loaded \/ n = Root, ~r.copy[n].loaded, Has(r, n)
    PROVE  Sound(Load(r, n)) /\ WillFind(Load(r, n))
<1> DEFINE todo == [i \in 1 .. Len(Kinds) |-> ListNames(n, Kinds[i])]
           before == {i \in Name : In[i] = n /\ There(i)}
<1>1. Len(Kinds) = 8 /\ Kinds[8] = "child"
  BY DEF Kinds
<1>2. todo \in Seq(Browses) /\ todo \in Seq(Asks)
  BY <1>1, PresentRequests
<1>3. todo[8] = ChildList(n)
  BY <1>1 DEF ChildList
<1>4. ChildList(n) \in ToSet(todo)
  BY <1>1, <1>3 DEF ToSet
<1>5. r \in ShellFields
  BY DEF Shells
<1>6. Load(r, n) = [r EXCEPT !.loading = n, !.found = {}, !.todo = todo, !.before = before,
                             !.since = restarts]
  BY DEF Load
<1> HIDE DEF todo, before
<1> DEFINE p == Load(r, n)
<1>7. /\ p.doing = r.doing /\ p.loading = n /\ p.found = {} /\ p.todo = todo /\ p.copy = r.copy
      /\ p.remote = r.remote /\ p.path = r.path
  BY <1>5, <1>6 DEF ShellFields
<1> HIDE DEF p
<1>8. Shape(p) /\ OnWay(p)
  BY <1>7 DEF Honest, Shape, OnWay, Has
<1> QED
  BY <1>2, <1>4, <1>7, <1>8 DEF Sound, Honest, HasTree, WillFind, p

\* A shell that asks for what is there.
LEMMA TodoSound ==
    ASSUME NEW r \in Shells, Sound(r), r.loading = Absent, NEW todo \in Seq(Asks)
    PROVE  Sound([r EXCEPT !.todo = todo]) /\ [r EXCEPT !.todo = todo].loading = Absent
<1> DEFINE p == [r EXCEPT !.todo = todo]
<1>1. /\ p.doing = r.doing /\ p.loading = Absent /\ p.found = r.found /\ p.todo = todo
      /\ p.copy = r.copy /\ p.remote = r.remote /\ p.path = r.path
  BY DEF Shells, ShellFields
<1> HIDE DEF p
<1>2. Shape(p) /\ OnWay(p)
  BY <1>1, SameTree DEF Sound, Honest
<1> QED
  BY <1>1, <1>2 DEF Sound, Honest, HasTree, p

\* A shell that asks for the values of a node of its tree.
LEMMA WithPoolSound ==
    ASSUME NEW r \in Shells, Sound(r), r.loading = Absent, r.copy[Root].loaded, NEW n \in Node
    PROVE  Sound(WithPool(r, n)) /\ WithPool(r, n).loading = Absent
<1> DEFINE S == r.copy[n].names \cap Values
           pool == InSomeOrder(S)
           todo == [i \in 1 .. Len(pool) |-> Get(pool[i])]
<1>1. S \in SUBSET Name /\ S \subseteq Values \cap Present
  BY DEF Values, Named, Sound, Honest, HasTree
<1>2. pool \in Seq(S)
  <2>1. Cardinality(S) \in Nat /\ pool \in [1 .. Cardinality(S) -> S]
    BY <1>1, FS_Subset, RequestsAssumption, Ordered
  <2> QED
    BY <2>1, SeqDef
<1> HIDE DEF pool
<1>3. \A i \in 1 .. Len(pool) : Get(pool[i]) \in Asks
  BY <1>1, <1>2, PresentRequests
<1>4. todo \in Seq(Asks)
  BY <1>2, <1>3
<1>5. WithPool(r, n) = IF pool = <<>> THEN Prompt(r) ELSE [r EXCEPT !.todo = todo]
  BY DEF WithPool, pool
<1> HIDE DEF todo
<1> QED
  BY <1>4, <1>5, TodoSound, PromptSound

\* A shell that gets or sets a value of its tree.
LEMMA WithValueSound ==
    ASSUME NEW r \in Shells, Sound(r), r.loading = Absent, r.copy[Root].loaded, NEW n \in Node,
           r.doing \in {"get", "set"}
    PROVE  Sound(WithValue(r, n)) /\ WithValue(r, n).loading = Absent
<1> DEFINE q == IF r.doing = "get" THEN Get(r.target) ELSE Set(r.target, r.typed)
           todo == <<q>>
<1>1. ASSUME r.target \in r.copy[n].names
      PROVE  q \in Asks
  <2>1. r.target \in Values \cap Present
    BY <1>1 DEF Shells, Sound, Honest, HasTree
  <2>2. r.doing = "set" => r.typed \in Datum
    BY DEF Shells
  <2>3. CASE r.doing = "get"
    BY <2>1, <2>3, PresentRequests
  <2>4. CASE r.doing = "set"
    BY <2>1, <2>2, <2>4, PresentRequests
  <2> QED
    BY <2>3, <2>4
<1>2. WithValue(r, n) = IF r.target \notin r.copy[n].names THEN Prompt(r)
                        ELSE [r EXCEPT !.todo = todo]
  BY DEF WithValue
<1>3. r.target \in r.copy[n].names => todo \in Seq(Asks)
  <2> HIDE DEF q
  <2> QED
    BY <1>1
<1> HIDE DEF todo
<1> QED
  BY <1>2, <1>3, TodoSound, PromptSound

\* A shell that has the node it was looking for.
LEMMA WithNodeSound ==
    ASSUME NEW r \in Shells, Sound(r), r.loading = Absent, r.copy[Root].loaded, NEW n \in Node,
           Missing(r, n) = {}, r.doing \in Typing
    PROVE  Sound(WithNode(r, n)) /\ WithNode(r, n).loading = Absent
<1>1. CASE r.doing = "cd"
  <2> DEFINE p == [r EXCEPT !.path = n]
  <2>1. /\ p \in Shells /\ p.copy = r.copy /\ p.doing = r.doing /\ p.loading = r.loading
        /\ p.found = r.found /\ p.todo = r.todo /\ p.remote = r.remote /\ p.path = n
    BY DEF Shells, ShellFields
  <2>2. \A m \in Way(n) : m \in r.copy[In[m]].names /\ In[m] \in Node
    BY Reached, WayNodes DEF Sound, Honest, Shape
  <2>3. \A m \in Way(n) : There(m)
    BY <2>2 DEF Sound, Honest, Present
  <2>4. WithNode(r, n) = Prompt(p)
    BY <1>1 DEF WithNode
  <2> HIDE DEF p
  <2>5. Shape(p) /\ OnWay(p)
    BY <2>1, <2>2, <2>3 DEF Sound, Honest, Shape, OnWay, Has
  <2>6. Sound(p)
    BY <2>1, <2>5 DEF Sound, Honest, HasTree
  <2> QED
    BY <2>1, <2>4, <2>6, PromptSound
<1>2. CASE r.doing = "pool"
  BY <1>2, WithPoolSound DEF WithNode
<1>3. CASE r.doing \in {"get", "set"}
  <2>1. r.doing # "cd" /\ r.doing # "pool"
    BY <1>3
  <2>2. WithNode(r, n) = WithValue(r, n)
    BY <2>1 DEF WithNode
  <2> QED
    BY <1>3, <2>2, WithValueSound
<1> QED
  BY <1>1, <1>2, <1>3 DEF Typing

\* A shell that goes on with what was typed.
LEMMA GoOnSound ==
    ASSUME NEW r \in Shells, Sound(r), r.loading = Absent, r.copy[Root].loaded, r.doing \in Typing
    PROVE  Sound(GoOn(r)) /\ WillFind(GoOn(r))
<1> DEFINE n == NodeOf(r)
<1>1. n \in Node
  BY NodeOfShells
<1>2. CASE Missing(r, n) = {} /\ GoOn(r) = WithNode(r, n)
  BY <1>1, <1>2, WithNodeSound DEF WillFind
<1>3. ASSUME NEW m \in Missing(r, n), m \in Node,
             \/ Has(r, m) /\ GoOn(r) = Load(r, m)
             \/ ~Has(r, m) /\ GoOn(r) = Lacking(r)
      PROVE  Sound(GoOn(r)) /\ WillFind(GoOn(r))
  <2>1. m \in Way(n) /\ ~r.copy[m].loaded /\ r.copy[In[m]].loaded /\ m # Root /\ In[m] \in Node
    BY <1>1, <1>3, WayNodes DEF Missing, Way
  <2>2. CASE Has(r, m) /\ GoOn(r) = Load(r, m)
    <3>1. There(m)
      BY <2>1, <2>2 DEF Has, Sound, Honest, Present
    <3> QED
      BY <1>3, <2>1, <2>2, <3>1, LoadSound DEF Sound
  <2>3. CASE ~Has(r, m) /\ GoOn(r) = Lacking(r)
    <3>1. r.doing # "pool"
      <4>1. r.doing = "pool" => n = r.path
        BY DEF NodeOf
      <4> QED
        BY <2>1, <2>3, <4>1 DEF Sound, Honest, OnWay, Has
    <3>2. GoOn(r) = Prompt(r)
      BY <2>3, <3>1 DEF Lacking
    <3> QED
      BY <3>2, PromptSound DEF WillFind
  <2> QED
    BY <1>3, <2>2, <2>3
<1> QED
  BY <1>1, <1>2, <1>3, GoesOnWith

-----------------------------------------------------------------------------
\* A shell that reads an answer that is not an error.
LEMMA ToldSound ==
    ASSUME NEW r \in Shells, Sound(r), r.doing \notin Quiet, NEW l \in Lines, l.at = "answered",
           LineSound(r, l), FindsPath(r, l), l.reply.kind # "error"
    PROVE  /\ Sound(Told(r, l.req, l.reply)) /\ WillFind(Told(r, l.req, l.reply))
           /\ Told(r, l.req, l.reply).doing = r.doing
<1> DEFINE req == l.req
           reply == l.reply
<1>1. reply.names \in SUBSET Present /\ There(req.name) /\ req \in Request
  BY DEF LineSound, Lines
<1>2. r \in ShellFields
  BY DEF Shells
<1>3. CASE req.op = "list"
  <2> DEFINE details == DetailsOf(reply.names, req.arg)
             todo == details \o r.todo
             found == r.found \cup reply.names
  <2>1. details \in Seq(Browses) /\ details \in Seq(Asks)
    BY <1>1, PresentRequests
  <2>2. todo \in Seq(Asks) /\ (r.loading # Absent => todo \in Seq(Browses))
    BY <2>1 DEF Sound, Honest
  <2>3. found \subseteq Present
    BY <1>1 DEF Sound, Honest
  <2>4. Told(r, req, reply) = [r EXCEPT !.found = found, !.todo = todo]
    BY <1>3 DEF Told
  <2>5. ToSet(r.todo) \subseteq ToSet(todo)
    <3> r.todo \in Seq(Asks)
      BY DEF Sound, Honest
    <3> HIDE DEF details
    <3>1. ASSUME NEW i \in 1 .. Len(r.todo)
          PROVE  /\ Len(details) + i \in 1 .. Len(todo)
                 /\ todo[Len(details) + i] = r.todo[i]
      BY <2>1
    <3>2. DOMAIN r.todo = 1 .. Len(r.todo) /\ DOMAIN todo = 1 .. Len(todo)
      BY <2>2
    <3> HIDE DEF todo
    <3> QED
      BY <3>1, <3>2 DEF ToSet
  <2>6. r.loading # Absent => \A m \in Way(r.path) : In[m] = r.loading =>
            m \in found \/ ChildList(r.loading) \in ToSet(todo)
    BY <2>5 DEF FindsPath, WillFind
  <2> HIDE DEF todo, found
  <2> DEFINE p == Told(r, req, reply)
  <2>7. /\ p.doing = r.doing /\ p.loading = r.loading /\ p.found = found /\ p.todo = todo
        /\ p.copy = r.copy /\ p.remote = r.remote /\ p.path = r.path
    BY <1>2, <2>4 DEF ShellFields
  <2> HIDE DEF p
  <2>8. Shape(p) /\ OnWay(p)
    BY <2>7, SameTree DEF Sound, Honest
  <2>9. Sound(p) /\ WillFind(p) /\ p.doing = r.doing
    BY <2>2, <2>3, <2>6, <2>7, <2>8 DEF Sound, Honest, HasTree, WillFind
  <2> QED
    BY <2>9 DEF p
<1>4. CASE req.op = "all"
  <2> DEFINE todo == DetailsOf(reply.names, "command")
  <2>1. todo \in Seq(Asks)
    BY <1>1, PresentRequests
  <2>2. req.op # "list"
    BY <1>4
  <2>3. Told(r, req, reply) = [r EXCEPT !.todo = todo]
    BY <1>4, <2>2 DEF Told
  <2>4. r.loading = Absent
    BY <1>4 DEF LineSound
  <2> HIDE DEF todo
  <2>5. Sound([r EXCEPT !.todo = todo])
    BY <2>1, <2>4, TodoSound
  <2> QED
    BY <1>2, <2>3, <2>4, <2>5 DEF WillFind, ShellFields
<1>5. CASE req.op \notin {"list", "all"}
  <2> req.op # "list" /\ req.op # "all"
    BY <1>5
  <2>1. WillFind(r)
    BY DEF FindsPath, ChildList, ListNames, Message
  <2>2. CASE req.op = "describe" /\ r.loading = Absent
    <3> DEFINE remote == r.remote \cup {req.name}
    <3>1. \A n \in remote : There(n)
      BY <1>1 DEF Sound, Honest
    <3>2. Told(r, req, reply) = [r EXCEPT !.remote = remote]
      BY <2>2 DEF Told
    <3> HIDE DEF remote
    <3> DEFINE p == Told(r, req, reply)
    <3>3. /\ p.doing = r.doing /\ p.loading = r.loading /\ p.found = r.found /\ p.todo = r.todo
          /\ p.copy = r.copy /\ p.remote = remote /\ p.path = r.path
      BY <1>2, <3>2 DEF ShellFields
    <3> HIDE DEF p
    <3>4. Shape(p) /\ OnWay(p)
      BY <3>3, SameTree DEF Sound, Honest
    <3>5. Sound(p) /\ WillFind(p) /\ p.doing = r.doing
      BY <2>1, <3>1, <3>3, <3>4 DEF Sound, Honest, HasTree, WillFind
    <3> QED
      BY <3>5 DEF p
  <2>3. CASE ~(req.op = "describe" /\ r.loading = Absent)
    <3>1. Told(r, req, reply) = r
      BY <2>3 DEF Told
    <3> QED
      BY <2>1, <3>1
  <2> QED
    BY <2>2, <2>3
<1> QED
  BY <1>3, <1>4, <1>5

\* A shell that has no more to ask: what is on the way to its node is in the new node.
LEMMA CompletedSound ==
    ASSUME NEW r \in Shells, Sound(r), WillFind(r), r.todo = <<>>, r.doing \notin Quiet
    PROVE  Sound(Completed(r)) /\ WillFind(Completed(r))
<1> DEFINE whole == [r EXCEPT !.copy[r.loading] = Loaded(r.found), !.loading = Absent,
                              !.found = {}, !.before = {}, !.since = 0]
<1>1. Absent # Root /\ Root \in Node
  BY RequestsAssumption DEF Node
<1>2. CASE r.loading = Absent
  <2>1. Completed(r) = Prompt(r)
    BY <1>2 DEF Completed
  <2>2. r.copy[Root].loaded
    BY <1>1, <1>2 DEF Sound, HasTree, Quiet
  <2> QED
    BY <1>1, <2>1, <2>2, PromptSound DEF WillFind
<1>3. CASE r.loading # Absent
  <2>1. /\ r.loading \in Node /\ r.found \in SUBSET Name
        /\ Loaded(r.found) \in [loaded : BOOLEAN, names : SUBSET Name]
        /\ Loaded(r.found).loaded /\ Loaded(r.found).names = r.found
    BY <1>3 DEF Loaded, Shells, ShellFields
  <2>2. /\ whole \in Shells /\ whole.doing = r.doing /\ whole.loading = Absent
        /\ whole.found = {} /\ whole.todo = <<>> /\ whole.path = r.path
        /\ whole.remote = r.remote
        /\ \A n \in Node : whole.copy[n] = IF n = r.loading THEN Loaded(r.found) ELSE r.copy[n]
    BY <1>3, <2>1 DEF Shells, ShellFields
  <2>3. Completed(r) = IF Syncing(r) THEN [whole EXCEPT !.remote = {}, !.todo = <<ListAllCommands>>]
                       ELSE GoOn(whole)
    BY <1>3 DEF Completed
  <2> HIDE DEF whole
  <2>4. whole.copy[Root].loaded
    BY <1>1, <2>1, <2>2 DEF Sound, HasTree, Quiet
  <2>5. \A m \in Way(r.path) : In[m] = r.loading => m \in r.found
    BY <1>3 DEF WillFind, ToSet
  <2>6. <<>> \in Seq(Asks) /\ <<>> \in Seq(Browses)
    OBVIOUS
  <2>7. Sound(whole)
    <3>1. OnWay(whole)
      <4>1. \A m \in Way(r.path) : In[m] \in Node
        BY WayNodes DEF Shells, ShellFields
      <4> QED
        BY <2>1, <2>2, <2>5, <4>1 DEF Sound, Honest, OnWay
    <3>3. Shape(whole)
      <4>1. ~r.copy[r.loading].loaded /\ Has(r, r.loading) /\ r.copy[r.loading].names = {}
        BY <1>3, <2>1 DEF Sound, Honest, Shape
      <4>2. \A n \in Node \ {Root} : In[n] \in Node
        BY RequestsAssumption DEF Node
      <4>3. \A n \in Node : ~whole.copy[n].loaded => whole.copy[n].names = {}
        BY <2>1, <2>2 DEF Sound, Honest, Shape
      <4>4. ASSUME NEW n \in Node \ {Root}, whole.copy[n].loaded
            PROVE  n \in whole.copy[In[n]].names
        <5>1. n \in r.copy[In[n]].names
          BY <2>2, <4>1, <4>4 DEF Sound, Honest, Shape, Has
        <5> QED
          BY <2>2, <4>1, <4>2, <5>1
      <4>5. whole.doing # "new"
        BY <2>2 DEF Quiet
      <4> QED
        BY <2>2, <4>3, <4>4, <4>5 DEF Shape
    <3>2. \A n \in Node : whole.copy[n].names \subseteq Present
      BY <2>1, <2>2 DEF Sound, Honest
    <3> QED
      BY <1>1, <2>2, <2>4, <2>6, <3>1, <3>2, <3>3 DEF Sound, Honest, HasTree
  <2>8. CASE Syncing(r)
    <3> DEFINE todo == <<ListAllCommands>>
    <3>1. todo \in Seq(Asks)
      BY PresentRequests
    <3>2. Completed(r) = [whole EXCEPT !.remote = {}, !.todo = todo]
      BY <2>3, <2>8
    <3> HIDE DEF todo
    <3> DEFINE p == [whole EXCEPT !.remote = {}, !.todo = todo]
    <3>3. /\ p.doing = whole.doing /\ p.loading = Absent /\ p.found = {} /\ p.todo = todo
          /\ p.copy = whole.copy /\ p.remote = {} /\ p.path = whole.path
      BY <2>2 DEF Shells, ShellFields
    <3> HIDE DEF p
    <3>4. Shape(p) /\ OnWay(p)
      BY <2>7, <3>3, SameTree DEF Sound, Honest
    <3>5. Honest(p)
      BY <2>2, <2>7, <3>1, <3>3, <3>4, RequestsAssumption DEF Sound, Honest, ShellFields
    <3>6. HasTree(p) /\ WillFind(p)
      BY <2>2, <2>4, <3>3 DEF HasTree, WillFind
    <3> QED
      BY <3>2, <3>5, <3>6 DEF p, Sound
  <2>9. CASE ~Syncing(r)
    <3>1. whole.doing \in Typing
      BY <1>3, <2>2, <2>9 DEF Shells, Syncing
    <3>2. Sound(GoOn(whole)) /\ WillFind(GoOn(whole))
      BY <2>2, <2>4, <2>7, <3>1, GoOnSound
    <3> QED
      BY <2>3, <2>9, <3>2
  <2> QED
    BY <2>8, <2>9
<1> QED
  BY <1>2, <1>3

\* Each step of a shell keeps it sound.
LEMMA UserSound ==
    ASSUME RequestsOK, ShellsOK, QuietOK, NEW s \in Shell, Safe(s), ShellStep(s)
    PROVE  \E r \in Shells : Continue(s, r) /\ Sound(r) /\ WillFind(r)
<1> /\ shell[s] \in Shells /\ Root \in Node /\ Root \in AnyName /\ There(Root)
    /\ Absent # Root /\ Sound(shell[s]) /\ restarts \in Nat
  BY RequestsAssumption DEF RequestsOK, ShellsOK, Node, AnyName, There, Safe
<1> DEFINE t == shell[s]
<1>0. t.doing \in {"new", "prompt"} => t.loading = Absent /\ t.todo = <<>>
  BY DEF Shells, Quiet, Typing
<1>1. ASSUME t.doing = "prompt"
      PROVE  t.loading = Absent /\ t.copy[Root].loaded
  BY <1>0, <1>1 DEF Sound, HasTree
<1>2. ASSUME t.doing \in {"new", "prompt"}, NEW doing \in Doings \ {"set"}, NEW target \in AnyName,
             doing = "cd" => target \in Node, doing = "get" => target \in Values,
             doing \notin {"crashed", "new"}
      PROVE  /\ Typed(s, doing, target) \in Shells /\ Honest(Typed(s, doing, target))
             /\ Typed(s, doing, target).doing = doing /\ Typed(s, doing, target).loading = Absent
             /\ Typed(s, doing, target).copy = t.copy
             /\ t.doing = "prompt" => Sound(Typed(s, doing, target))
  <2>1. Typed(s, doing, target) \in Shells /\ Typed(s, doing, target).doing = doing
    BY <1>2, TypedShells
  <2>2. t \in ShellFields /\ t.loading = Absent
    BY <1>0, <1>2 DEF Shells
  <2> DEFINE p == Typed(s, doing, target)
  <2>3. /\ p.loading = Absent /\ p.found = t.found /\ p.todo = t.todo
        /\ p.copy = t.copy /\ p.remote = t.remote /\ p.path = t.path
    BY <2>2 DEF Typed, ShellFields
  <2> HIDE DEF p
  <2>4. Shape(p) /\ OnWay(p)
    <3>1. p.doing = "new" => t.doing = "new"
      BY <1>2, <2>1 DEF p
    <3> QED
      BY <2>3, <3>1, SameTree DEF Sound, Honest
  <2>5. p.doing = doing
    BY <2>1 DEF p
  <2>6. Honest(p) /\ (t.doing = "prompt" => Sound(p))
    BY <1>1, <1>2, <2>2, <2>3, <2>4, <2>5 DEF Sound, Honest, HasTree
  <2> QED
    BY <2>1, <2>3, <2>6 DEF p
<1>3. ASSUME NEW r \in Shells, Sound(r), r.doing \in Typing, r.loading = Absent, r.copy[Root].loaded,
             Continue(s, GoOn(r))
      PROVE  \E x \in Shells : Continue(s, x) /\ Sound(x) /\ WillFind(x)
  BY <1>3, GoOnShells, GoOnSound
<1>4. CASE Sync(s)
  <2>1. CASE t.doing = "new"
    <3> DEFINE r == Typed(s, "start", Root)
    <3>1. r \in Shells /\ Honest(r) /\ r.doing = "start"
      BY <1>2, <2>1 DEF Doings
    <3>2. Continue(s, Load(r, Root))
      BY <1>4, <2>1 DEF Sync, AtPrompt
    <3>3. r.copy = t.copy /\ ~t.copy[Root].loaded
      BY <1>2, <2>1 DEF Doings, Sound, Honest, Shape
    <3> HIDE DEF r
    <3> QED
      BY <3>1, <3>2, <3>3, LoadShells, LoadSound DEF Has
  <2>2. CASE AtPrompt(s)
    <3> DEFINE r == Typed(s, "sync", Root)
    <3>1. r \in Shells /\ Honest(r) /\ r.doing = "sync"
      BY <1>2, <2>2 DEF Doings, AtPrompt
    <3>2. Continue(s, Load(Forgotten(r), Root))
      BY <1>1, <1>4, <2>2 DEF Sync, AtPrompt, Tree
    <3> HIDE DEF r
    <3> DEFINE p == Forgotten(r)
    <3>3. p \in Shells /\ p.doing = "sync"
      BY <3>1 DEF Forgotten, Shells, ShellFields, NotLoaded
    <3>4. /\ \A n \in Node : ~p.copy[n].loaded /\ p.copy[n].names = {}
          /\ p.loading = r.loading /\ p.found = r.found /\ p.todo = r.todo
          /\ p.remote = r.remote /\ p.path = r.path
      BY <3>1 DEF Forgotten, Shells, ShellFields, NotLoaded
    <3>5. r.loading = Absent
      BY <1>2, <2>2 DEF Doings, AtPrompt, r
    <3> HIDE DEF p
    <3>6. Shape(p) /\ OnWay(p)
      <4>1. \A m \in Way(p.path) : In[m] \in Node
        BY <3>3, WayNodes DEF Shells, ShellFields
      <4> QED
        BY <3>1, <3>3, <3>4, <3>5, <4>1 DEF Honest, Shape, OnWay
    <3>7. Honest(p)
      BY <3>1, <3>3, <3>4, <3>6 DEF Honest
    <3> QED
      BY <3>2, <3>3, <3>4, <3>7, LoadShells, LoadSound DEF Has, p
  <2> QED
    BY <1>4, <2>1, <2>2 DEF Sync
<1>5. CASE ChangePath(s)
  <2>1. PICK n \in Node : Continue(s, GoOn(Typed(s, "cd", n)))
    BY <1>5 DEF ChangePath
  <2>2. n \in AnyName /\ t.doing = "prompt"
    BY <1>5 DEF Node, AnyName, ChangePath, AtPrompt
  <2> DEFINE r == Typed(s, "cd", n)
  <2>3. r \in Shells /\ Sound(r) /\ r.doing \in Typing /\ r.loading = Absent /\ r.copy[Root].loaded
    BY <1>1, <1>2, <2>2 DEF Doings, Typing
  <2> HIDE DEF r
  <2> QED
    BY <1>3, <2>1, <2>3 DEF r
<1>6. CASE GetOrSet(s)
  <2>1. PICK v \in Values :
            \/ Continue(s, GoOn(Typed(s, "get", v)))
            \/ \E x \in TypedData : Continue(s, GoOn([Typed(s, "set", v) EXCEPT !.typed = x]))
    BY <1>6 DEF GetOrSet
  <2>2. v \in AnyName /\ t.doing = "prompt"
    BY <1>6 DEF AnyName, GetOrSet, AtPrompt, Values, Named
  <2>3. CASE Continue(s, GoOn(Typed(s, "get", v)))
    <3> DEFINE r == Typed(s, "get", v)
    <3>1. r \in Shells /\ Sound(r) /\ r.doing \in Typing /\ r.loading = Absent /\ r.copy[Root].loaded
      BY <1>1, <1>2, <2>2 DEF Doings, Typing
    <3> HIDE DEF r
    <3> QED
      BY <1>3, <2>3, <3>1 DEF r
  <2>4. CASE \E x \in TypedData : Continue(s, GoOn([Typed(s, "set", v) EXCEPT !.typed = x]))
    <3>1. PICK x \in TypedData : Continue(s, GoOn([Typed(s, "set", v) EXCEPT !.typed = x]))
      BY <2>4
    <3> DEFINE r == [Typed(s, "set", v) EXCEPT !.typed = x]
    <3>2. r \in Shells /\ r.doing = "set"
      BY <2>2, TypedSet, ShellAssumption DEF AtPrompt
    <3>3. r.copy = t.copy /\ r.loading = t.loading /\ r.todo = t.todo /\ r.found = t.found
          /\ r.remote = t.remote /\ r.path = t.path
      BY DEF Typed, Shells, ShellFields
    <3> HIDE DEF r
    <3>5. Shape(r) /\ OnWay(r)
      BY <3>2, <3>3, SameTree DEF Sound, Honest
    <3>4. Sound(r) /\ r.doing \in Typing /\ r.loading = Absent /\ r.copy[Root].loaded
      BY <1>1, <2>2, <3>2, <3>3, <3>5 DEF Sound, Honest, HasTree, Typing
    <3> QED
      BY <1>3, <3>1, <3>2, <3>4 DEF r
  <2> QED
    BY <2>1, <2>3, <2>4
<1>7. CASE Pool(s)
  <2> DEFINE r == Typed(s, "pool", Root)
  <2>1. t.doing = "prompt" /\ Continue(s, GoOn(r))
    BY <1>7 DEF Pool, AtPrompt
  <2>2. r \in Shells /\ Sound(r) /\ r.doing \in Typing /\ r.loading = Absent /\ r.copy[Root].loaded
    BY <1>1, <1>2, <2>1 DEF Doings, Typing
  <2> HIDE DEF r
  <2> QED
    BY <1>3, <2>1, <2>2
<1>8. CASE Remote(s)
  <2>1. PICK c \in t.remote :
            Continue(s, [Typed(s, "call", c) EXCEPT !.todo = <<CallCommand(c)>>])
    BY <1>8 DEF Remote
  <2>2. c \in AnyName /\ There(c) /\ t.doing = "prompt"
    BY <1>8 DEF Shells, ShellFields, Remote, AtPrompt, Sound, Honest
  <2> DEFINE todo == <<CallCommand(c)>>
             r == Typed(s, "call", c)
  <2>3. todo \in Seq(Request) /\ todo \in Seq(Asks)
    BY <2>2 DEF CallCommand, Message, Request, Operations, Content, Asks
  <2>4. r \in Shells /\ Sound(r) /\ r.doing = "call" /\ r.loading = Absent
    BY <1>2, <2>2 DEF Doings
  <2> HIDE DEF todo, r
  <2>5. [r EXCEPT !.todo = todo] \in Shells
    BY <2>3, <2>4 DEF Shells, ShellFields, Quiet
  <2>6. Sound([r EXCEPT !.todo = todo]) /\ WillFind([r EXCEPT !.todo = todo])
    BY <2>3, <2>4, TodoSound DEF WillFind
  <2> QED
    BY <2>1, <2>5, <2>6 DEF todo, r
<1>9. CASE OnReply(s)
  <2>1. line[s] \in Lines /\ line[s].at = "answered" /\ t.doing \notin Quiet
    BY <1>9, ShellAssumption DEF RequestsOK, LinesOK, OnReply, QuietOK, IsIdle
  <2>2. line[s].req \in Request /\ line[s].reply \in Replies
    BY <2>1 DEF Lines
  <2> DEFINE r == Told(t, line[s].req, line[s].reply)
  <2>3. Continue(s, IF line[s].reply.kind = "error" THEN Failed(t)
                    ELSE IF r.todo = <<>> THEN Completed(r) ELSE r)
    BY <1>9 DEF OnReply
  <2>4. CASE line[s].reply.kind = "error"
    <3>1. t.loading = Absent
      BY <2>1, <2>4 DEF Safe, LineSound
    <3>2. t.copy[Root].loaded
      BY <2>1, <3>1 DEF Sound, HasTree, Quiet
    <3>3. Failed(t) = Ended(t) \/ Failed(t) = Prompt(t)
      BY <3>1 DEF Failed
    <3> QED
      BY <2>3, <2>4, <3>2, <3>3, PromptShells, PromptSound DEF WillFind
  <2>5. CASE line[s].reply.kind # "error"
    <3>1. r \in Shells
      BY <2>1, <2>2, ToldShells
    <3>2. Sound(r) /\ WillFind(r) /\ r.doing = t.doing
      BY <2>1, <2>5, ToldSound DEF Safe
    <3> HIDE DEF r
    <3> QED
      BY <2>1, <2>3, <2>5, <3>1, <3>2, CompletedShells, CompletedSound
  <2> QED
    BY <2>4, <2>5
<1> QED
  BY <1>4, <1>5, <1>6, <1>7, <1>8, <1>9 DEF ShellStep

\* A sound record, once its first request is sent, leaves the shell safe.
LEMMA ContinueSafe ==
    ASSUME RequestsOK, ShellsOK, NEW s \in Shell, NEW r \in Shells, Continue(s, r), Sound(r), WillFind(r)
    PROVE  Safe(s)'
<1> s \in Client /\ LinesOK /\ content' = content
  BY ShellAssumption DEF RequestsOK, Continue
<1>1. CASE r.todo = <<>>
  <2>1. shell'[s] = r /\ line'[s].at = "idle"
    BY <1>1 DEF Continue, ShellsOK, LinesOK, Idle
  <2> QED
    BY <2>1 DEF Safe, Sound, Honest, HasTree, LineSound, FindsPath, WillFind, Asks, Browses,
                Present, There, OnWay
<1>2. CASE r.todo # <<>>
  <2> DEFINE t == Tail(r.todo)
             x == [r EXCEPT !.todo = t]
             q == Head(r.todo)
  <2>1. r.todo \in Seq(Asks) /\ (r.loading # Absent => r.todo \in Seq(Browses)) /\ r \in ShellFields
    BY DEF Sound, Honest, Shells
  <2>2. t \in Seq(Asks) /\ (r.loading # Absent => t \in Seq(Browses))
    BY <1>2, <2>1
  <2>3. q \in Asks /\ (r.loading # Absent => q \in Browses)
    BY <1>2, <2>1
  <2>4. \A y \in ToSet(r.todo) : y = q \/ y \in ToSet(t)
    <3>1. ASSUME NEW i \in 1 .. Len(r.todo), i # 1
          PROVE  i - 1 \in 1 .. Len(t) /\ t[i - 1] = r.todo[i]
      BY <1>2, <2>1, <3>1
    <3>2. r.todo[1] = q /\ DOMAIN r.todo = 1 .. Len(r.todo) /\ DOMAIN t = 1 .. Len(t)
      BY <1>2, <2>1, <2>2
    <3> HIDE DEF t, q
    <3> QED
      BY <3>1, <3>2 DEF ToSet
  <2>5. shell'[s] = x /\ line'[s] = Asked(q)
    BY <1>2 DEF Continue, ShellsOK, LinesOK
  <2> HIDE DEF t, q
  <2>6. /\ x.todo = t /\ x.doing = r.doing /\ x.loading = r.loading /\ x.found = r.found
        /\ x.copy = r.copy /\ x.remote = r.remote /\ x.path = r.path
    BY <2>1 DEF ShellFields
  <2> HIDE DEF x
  <2>13. Shape(x) /\ OnWay(x)
    BY <2>6, SameTree DEF Sound, Honest
  <2>7. Sound(x)
    BY <2>2, <2>6, <2>13 DEF Sound, Honest, HasTree
  <2>8. WillFind(x) \/ q = ChildList(x.loading)
    BY <2>4, <2>6 DEF WillFind
  <2>9. line'[s].at = "asked" /\ line'[s].req = q
    BY <2>5 DEF Asked
  <2>10. Sound(shell[s])'
    BY <2>5, <2>7 DEF Sound, Honest, HasTree, Asks, Browses, Present, There, OnWay
  <2>11. LineSound(shell[s], line[s])'
    BY <2>3, <2>5, <2>6, <2>9 DEF LineSound, Asks, Browses, There
  <2>12. FindsPath(shell[s], line[s])'
    BY <2>5, <2>8, <2>9 DEF FindsPath, WillFind
  <2> QED
    BY <2>9, <2>10, <2>11, <2>12 DEF Safe
<1> QED
  BY <1>1, <1>2

\* What others do takes nothing from a shell.
LEMMA SafeStays ==
    ASSUME RequestsOK, ShellsOK, NEW s \in Shell, Safe(s), Remains, shell'[s] = shell[s],
           line'[s] = line[s], line[s].at = "taken" => serving' # "unknown"
    PROVE  Safe(s)'
<1> s \in Client /\ LinesOK /\ shell[s] \in Shells
  BY ShellAssumption DEF RequestsOK, ShellsOK
<1>1. Present \subseteq Present' /\ \A n \in AnyName : There(n) => There(n)'
  BY DEF Present, There, Remains, AnyName
<1>2. Asks \subseteq Asks' /\ Browses \subseteq Browses'
  BY <1>1 DEF Asks, Browses, Request
<1>3. Seq(Asks) \subseteq Seq(Asks') /\ Seq(Browses) \subseteq Seq(Browses')
  BY <1>2
<1>4. shell[s].remote \subseteq AnyName
  BY DEF Shells, ShellFields
<1>0. OnWay(shell[s])'
  <2>1. Way(shell[s].path) \subseteq AnyName
    BY WayNodes DEF Shells, ShellFields, AnyName
  <2> QED
    BY <1>1, <2>1 DEF Safe, Sound, Honest, OnWay
<1>5. Sound(shell[s])'
  BY <1>0, <1>1, <1>3, <1>4 DEF Safe, Sound, Honest, HasTree
<1>6. LineSound(shell[s], line[s])'
  <2>1. line[s].at \in {"asked", "taken", "answered"} => line[s].req.name \in AnyName
    BY LineShape DEF Request
  <2> QED
    BY <1>1, <2>1 DEF Safe, LineSound
<1>7. FindsPath(shell[s], line[s])'
  BY DEF Safe, FindsPath, WillFind
<1> QED
  BY <1>5, <1>6, <1>7 DEF Safe

\* An answer out of what is there keeps the shell safe.
LEMMA AnsweredSafe ==
    ASSUME RequestsOK, ShellsOK, NEW s \in Shell, Safe(s), Taken(s), Remains, shell' = shell,
           NEW reply \in Replies, Answer(s, reply), reply.names \subseteq Present,
           reply.kind = "error" => line[s].req.op \in {"set", "call"},
           line[s].req = ChildList(shell[s].loading)
              => \A m \in Way(shell[s].path) : In[m] = shell[s].loading => m \in reply.names
    PROVE  Safe(s)'
<1> s \in Client /\ LinesOK /\ shell[s] \in Shells /\ shell'[s] = shell[s]
  BY ShellAssumption DEF RequestsOK, ShellsOK
<1>1. Present \subseteq Present' /\ \A n \in AnyName : There(n) => There(n)'
  BY DEF Present, There, Remains, AnyName
<1>2. Asks \subseteq Asks' /\ Browses \subseteq Browses'
  BY <1>1 DEF Asks, Browses, Request
<1>3. Seq(Asks) \subseteq Seq(Asks') /\ Seq(Browses) \subseteq Seq(Browses')
  BY <1>2
<1>4. shell[s].remote \subseteq AnyName
  BY DEF Shells, ShellFields
<1>0. OnWay(shell[s])'
  <2>1. Way(shell[s].path) \subseteq AnyName
    BY WayNodes DEF Shells, ShellFields, AnyName
  <2> QED
    BY <1>1, <2>1 DEF Safe, Sound, Honest, OnWay
<1>5. Sound(shell[s])'
  BY <1>0, <1>1, <1>3, <1>4 DEF Safe, Sound, Honest, HasTree
<1>6. line'[s].at = "answered" /\ line'[s].req = line[s].req /\ line'[s].reply = reply
  BY DEF Answer, LinesOK
<1>7. line[s].req.name \in AnyName
  BY LineShape DEF Request, Taken
<1>8. LineSound(shell[s], line[s])'
  BY <1>1, <1>6, <1>7 DEF Safe, LineSound, Taken
<1>9. FindsPath(shell[s], line[s])'
  BY <1>6 DEF Safe, FindsPath, WillFind, Taken
<1> QED
  BY <1>5, <1>6, <1>8, <1>9 DEF Safe

\* What the server does keeps every shell safe that it does not mislead.
LEMMA ServerSafe ==
    ASSUME RequestsOK, ShellsOK, WalkInv, NEW s \in Shell, Safe(s), shell' = shell,
           NEW c \in Client, Serve(c) \/ EndCall(c), s \notin misled'
    PROVE  Safe(s)'
<1> s \in Client /\ LinesOK /\ shell[s] \in Shells /\ Remains
  BY ShellAssumption, ServerTyped DEF RequestsOK, ShellsOK
<1>1. Taken(c) /\ (line' = line \/ \E reply : Answer(c, reply))
  BY ServerTouches
<1>2. CASE s # c
  <2>1. line'[s] = line[s] /\ line[s].at # "taken"
    BY <1>1, <1>2 DEF Answer, LinesOK, RequestsOK, ServingOK, Taken
  <2> QED
    BY <2>1, SafeStays
<1>3. CASE s = c
  <2> DEFINE r == line[s].req
             n == shell[s].loading
  <2> Taken(s) /\ serving # "unknown" /\ r \in Request
    BY <1>1, <1>3, LineShape DEF Safe, Taken
  <2>1. r = ChildList(n) => r.op = "list" /\ r.name = n /\ r.arg = "child"
    BY DEF ChildList, ListNames, Message
  <2>2. CASE Refuse(s)
    BY <2>2 DEF Refuse
  <2>3. CASE List(s)
    <3> DEFINE reply == Reply(Listed(r.name, r.arg), Absent)
    <3>1. r.op = "list" /\ Answer(s, reply)
      BY <2>3 DEF List, Serves
    <3>2. reply \in Replies /\ reply.kind = "good" /\ reply.names = Listed(r.name, r.arg)
      BY GoodReplies, ListedNames DEF Reply
    <3>3. reply.names \subseteq Present
      BY <3>2 DEF Listed, Named, Present
    <3>4. r = ChildList(n) => \A m \in Way(shell[s].path) : In[m] = n => m \in reply.names
      <4>1. ASSUME NEW m \in Way(shell[s].path), In[m] = n
            PROVE  m \in Listed(n, "child")
        <5>1. m \in Name /\ Kind[m] = "child"
          BY WayNodes DEF Shells, ShellFields
        <5>2. There(m)
          BY DEF Safe, Sound, Honest, OnWay
        <5> QED
          BY <4>1, <5>1, <5>2 DEF Listed, Named
      <4> QED
        BY <2>1, <3>2, <4>1
    <3> HIDE DEF reply
    <3> QED
      BY <3>1, <3>2, <3>3, <3>4, AnsweredSafe
  <2>4. CASE ListedAll(s)
    <3> DEFINE reply == Reply(walk.found, Absent)
    <3>1. serving = "walking" /\ Answer(s, reply)
      BY <2>4 DEF ListedAll, Walks
    <3>2. walk.found \subseteq Present /\ walk.found \in SUBSET Name
      BY <3>1 DEF WalkInv, Commands, Named, Present
    <3>3. reply \in Replies /\ reply.kind = "good" /\ reply.names = walk.found
      BY <3>2, GoodReplies DEF Reply
    <3>4. r.op = "all"
      BY <3>1 DEF RequestsOK, ServingOK, Taken
    <3>5. r # ChildList(n)
      BY <2>1, <3>4
    <3> HIDE DEF reply
    <3> QED
      BY <3>1, <3>2, <3>3, <3>5, AnsweredSafe
  <2>5. CASE Details(s)
    <3>1. r.op = "describe" /\ Answer(s, Done)
      BY <2>5 DEF Details, Serves
    <3>2. r # ChildList(n) /\ Done \in Replies /\ Done.kind = "good" /\ Done.names = {}
      BY <2>1, <3>1, GoodReplies DEF Done, Reply
    <3> QED
      BY <3>1, <3>2, AnsweredSafe
  <2>6. CASE GetValue(s)
    <3> DEFINE reply == Reply({}, content[r.name])
    <3>1. r.op = "get" /\ Answer(s, reply)
      BY <2>6 DEF GetValue, Serves
    <3>2. content[r.name] \in Content
      BY <3>1 DEF Request, RequestsOK, ContentOK
    <3>3. r # ChildList(n) /\ reply \in Replies /\ reply.kind = "good" /\ reply.names = {}
      BY <2>1, <3>1, <3>2, GoodReplies DEF Reply
    <3> HIDE DEF reply
    <3> QED
      BY <3>1, <3>3, AnsweredSafe
  <2>7. CASE SetValue(s) \/ EndCall(s)
    <3>1. r.op \in {"set", "call"}
      BY <2>7 DEF SetValue, Serves, EndCall, RequestsOK, ServingOK, Taken
    <3>2. Answer(s, Done) \/ Answer(s, Error)
      BY <2>7 DEF SetValue, EndCall
    <3>3. r # ChildList(n)
      BY <2>1, <3>1
    <3>4. Done \in Replies /\ Error \in Replies /\ Done.names = {} /\ Error.names = {}
          /\ Done.kind = "good"
      BY GoodReplies DEF Done, Error, Reply
    <3> QED
      BY <3>1, <3>2, <3>3, <3>4, AnsweredSafe
  <2>8. CASE CallResult(s) \/ ListAll(s) \/ ListCommands(s) \/ ListChildren(s)
    <3>1. line' = line /\ serving' \in {"running", "walking"}
      BY <2>8 DEF CallResult, ListAll, ListCommands, ListChildren, Walks
    <3> QED
      BY <3>1, SafeStays
  <2> QED
    BY <1>3, <2>2, <2>3, <2>4, <2>5, <2>6, <2>7, <2>8 DEF Serve
<1> QED
  BY <1>2, <1>3

\* So does the server when it takes a request.
LEMMA TakerSafe ==
    ASSUME RequestsOK, ShellsOK, NEW s \in Shell, Safe(s), shell' = shell, NEW c \in Client, Begin(c),
           s \notin misled'
    PROVE  Safe(s)'
<1> s \in Client /\ LinesOK /\ shell[s] \in Shells /\ shell'[s] = shell[s] /\ content' = content
  BY ShellAssumption DEF RequestsOK, ShellsOK, Begin, BeginConcurrently
<1>1. CASE s # c
  <2>1. line'[s] = line[s] /\ line[s].at # "taken"
    BY <1>1 DEF Begin, BeginConcurrently, LinesOK, RequestsOK, ServingOK, Taken
  <2> QED
    BY <2>1, SafeStays DEF Remains
<1>2. CASE s = c
  <2>1. line[s].at = "asked" /\ line'[s] = [line[s] EXCEPT !.at = "taken"]
    BY <1>2 DEF Begin, BeginConcurrently, LinesOK
  <2>2. line[s] \in [at : {"asked"}, req : Request]
    BY <2>1 DEF LinesOK, Lines
  <2>3. line'[s].at = "taken" /\ line'[s].req = line[s].req
    BY <2>1, <2>2
  <2>4. serving' = "known"
    BY <1>2, <2>1 DEF Begin, BeginConcurrently, Known, Safe, LineSound
  <2>5. Sound(shell[s])'
    BY DEF Safe, Sound, Honest, HasTree, Asks, Browses, Present, There, OnWay
  <2>6. LineSound(shell[s], line[s])'
    BY <2>1, <2>3 DEF Safe, LineSound, There
  <2>7. FindsPath(shell[s], line[s])'
    BY <2>1, <2>3 DEF Safe, FindsPath, WillFind
  <2> QED
    BY <2>4, <2>5, <2>6, <2>7 DEF Safe
<1> QED
  BY <1>1, <1>2

-----------------------------------------------------------------------------
\* A shell that is not started is safe.
LEMMA InitSurvival == Init => SurvivalInv
<1> SUFFICES ASSUME Init, NEW s \in Shell PROVE Safe(s)
  BY DEF SurvivalInv
<1>1. line[s].at = "idle" /\ shell[s] = NewShell
  BY ShellAssumption DEF Init, RequestsInit, ShellInit, Idle
<1>2. /\ NewShell.doing = "new" /\ NewShell.todo = <<>> /\ NewShell.loading = Absent
      /\ NewShell.found = {} /\ NewShell.remote = {} /\ NewShell.path = Root
      /\ \A n \in Node : NewShell.copy[n].names = {} /\ ~NewShell.copy[n].loaded
  BY DEF NewShell, NotLoaded
<1>3. <<>> \in Seq(Asks) /\ Way(Root) = {} /\ Root \in Node
  BY PrefixName DEF Way, Node
<1>5. Shape(NewShell) /\ OnWay(NewShell)
  BY <1>2, <1>3 DEF Shape, OnWay
<1>4. Sound(NewShell) /\ WillFind(NewShell)
  BY <1>2, <1>3, <1>5 DEF Sound, Honest, HasTree, WillFind
<1> QED
  BY <1>1, <1>4 DEF Safe, LineSound, FindsPath

\* Every step keeps those shells safe that nobody has misled.
LEMMA NextSurvival == IInv /\ Places /\ SurvivalInv /\ [Next]_vars => SurvivalInv'
<1> SUFFICES ASSUME IInv, Places, SurvivalInv, [Next]_vars, NEW s \in Shell, s \notin misled'
             PROVE  Safe(s)'
  BY DEF SurvivalInv
<1> /\ RequestsOK /\ ShellsOK /\ QuietOK /\ ProgramOK /\ LinesOK /\ ContentOK /\ WalkInv
    /\ restarts \in Nat /\ s \in Client
  BY ShellAssumption DEF IInv, RequestsOK, Places
<1>1. s \notin misled /\ ~ProgramRestarts
  <2>1. ~ProgramRestarts
    BY DEF ProgramRestarts, Restart
  <2>2. misled \subseteq misled'
    <3>1. \A t \in Shell : User(t) => misled' = misled
      BY UserContinues DEF User, Continue
    <3>2. \A c \in Client : Serve(c) \/ EndCall(c) => misled \subseteq misled'
      BY DEF Serve, Refuse, List, ListAll, ListCommands, ListChildren, ListedAll, Details, GetValue,
             SetValue, CallResult, EndCall
    <3>3. \A c \in Client : Begin(c) => misled \subseteq misled'
      BY DEF Begin, BeginConcurrently
    <3> QED
      BY <2>1, <3>1, <3>2, <3>3
         DEF Next, vars, requestVars, ServerTakes, ServerActs, ServerEndsCall, Program, Send,
             Receive, Robot, OtherThread, Others
  <2> QED
    BY <2>1, <2>2
<1>2. Safe(s)
  BY <1>1 DEF SurvivalInv
<1>3. ASSUME NEW c \in Client, ServerTakes(c)
      PROVE  Safe(s)'
  BY <1>2, <1>3, TakerSafe DEF ServerTakes
<1>4. ASSUME NEW c \in Client, ServerActs(c) \/ ServerEndsCall(c)
      PROVE  Safe(s)'
  BY <1>2, <1>4, ServerSafe DEF ServerActs, ServerEndsCall
<1>5. ASSUME NEW c \in Client \ Shell, Program(c)
      PROVE  Safe(s)'
  <2>1. line'[s] = line[s] /\ serving' = serving /\ shell' = shell /\ content' = content
    BY <1>5 DEF Program, Send, Receive, LinesOK
  <2> QED
    BY <1>2, <2>1, SafeStays DEF Remains, Safe
<1>6. ASSUME NEW t \in Shell, User(t)
      PROVE  Safe(s)'
  <2>1. CASE s = t
    <3>1. \E r \in Shells : Continue(s, r) /\ Sound(r) /\ WillFind(r)
      BY <1>2, <1>6, <2>1, UserSound DEF User
    <3> QED
      BY <3>1, ContinueSafe
  <2>2. CASE s # t
    <3>1. line'[s] = line[s] /\ shell'[s] = shell[s] /\ UNCHANGED <<content, serving>>
      <4>1. \E r \in Shells : Continue(t, r)
        BY <1>6, UserContinues DEF User
      <4> QED
        BY <2>2, <4>1 DEF Continue, LinesOK, ShellsOK
    <3> QED
      BY <1>2, <3>1, SafeStays DEF Safe, Remains
  <2> QED
    BY <2>1, <2>2
<1>7. ASSUME Robot \/ OtherThread \/ Others
      PROVE  Safe(s)'
  <2>1. Remains
    BY <1>7, ProgramStepTyped, OtherThreadTyped, OthersTyped DEF Robot, OtherThread, Others
  <2>2. UNCHANGED <<line, serving, shell>>
    BY <1>7 DEF Robot, OtherThread, Others
  <2> QED
    BY <1>2, <2>1, <2>2, SafeStays DEF Safe
<1>8. CASE UNCHANGED vars
  <2>1. UNCHANGED <<line, serving, shell, content>>
    BY <1>8 DEF vars, requestVars
  <2> QED
    BY <1>2, <2>1, SafeStays DEF Remains, Safe
<1> QED
  BY <1>1, <1>3, <1>4, <1>5, <1>6, <1>7, <1>8 DEF Next

\* No shell crashes before the program is started again or this shell is refused a name
\* that is there: for any tree, to any depth, and whatever is declared while it downloads.
THEOREM Survival == Spec => []ShellSurvives
<1>1. SurvivalInv => ShellSurvives
  BY DEF SurvivalInv, Safe, Sound, Honest, ShellSurvives
<1>2. Spec => [](IInv /\ Places)
  BY InitIInv, NextKeeps, InitPlaces, NextPlaces, PTL DEF Spec
<1> QED
  BY <1>1, <1>2, InitSurvival, NextSurvival, PTL DEF Spec

-----------------------------------------------------------------------------
(***************************************************************************)
(* Why a push overwrites nothing it has no reason to: once a binding of    *)
(* both directions was transferred, its variable and its value are equal,  *)
(* or one of them was changed since, or the value does not fit (Fresh).    *)
(* The pulls before a round of pushes transfer every binding that did not  *)
(* fail, up to the first one that throws (Cut); and if that one is pushed  *)
(* as well, the pushes come no further either.                             *)
(***************************************************************************)

\* The variable has what the value has, or the property has an excuse.
Fresh(b) ==
    \/ b \in prog.touched \cup prog.moved
    \/ content[b] = prog.var[b]
    \/ content[b] \notin Fitting(b)

\* The pulls did not come so far.
Cut(j) ==
    \E i \in 1 .. Len(Bindings) :
        i < j /\ Bindings[i] \in prog.failed /\ Pulls(Bindings[i])

\* The pulls of this round have been at the binding, or would have.
Due(j) == prog.pc \in {"compute", "push"} \/ (prog.pc = "pull" /\ j < prog.at)
Settled(b) == Policy[b] = "PushAndPull" /\ b \in prog.registered \ prog.failed

PulledOK ==
    \A j \in 1 .. Len(Bindings) :
        Due(j) /\ Settled(Bindings[j]) => Fresh(Bindings[j]) \/ Cut(j)

\* The pushes have passed only bindings that are not pushed, or did not fail.
PushedOK ==
    prog.pc = "push" =>
        \A i \in 1 .. Len(Bindings) :
            i < prog.at /\ Bindings[i] \in prog.failed => ~Pushes(Bindings[i])

RoundOK ==
    /\ prog.pc \in {"pull", "compute", "push"} => prog.loops
    /\ prog.pc \in {"function", "compute"} => prog.at = 1
    /\ prog.failed \subseteq prog.clash
OverwriteInv == PulledOK /\ PushedOK /\ RoundOK

-----------------------------------------------------------------------------
\* A program that goes on to the next binding, or to another step.
LEMMA NextFields ==
    ASSUME NEW p \in Programs, NEW pc \in Steps
    PROVE  /\ p.at < Len(Bindings) => Next1(p, pc).pc = p.pc /\ Next1(p, pc).at = p.at + 1
           /\ ~(p.at < Len(Bindings)) => Next1(p, pc).pc = pc /\ Next1(p, pc).at = 1
           /\ Thrown(p, pc).pc = pc /\ Thrown(p, pc).at = 1
           /\ Next1(p, pc).loops = p.loops /\ Thrown(p, pc).loops = p.loops
           /\ Next1(p, pc).var = p.var /\ Thrown(p, pc).var = p.var
           /\ Next1(p, pc).touched = p.touched /\ Thrown(p, pc).touched = p.touched
           /\ Next1(p, pc).moved = p.moved /\ Thrown(p, pc).moved = p.moved
           /\ Same(Next1(p, pc), p) /\ Same(Thrown(p, pc), p)
BY DEF Programs, Next1, Thrown, Same

\* The same of the next state.
LEMMA GoesOn ==
    ASSUME NEW p \in Programs, NEW pc \in Steps, prog' = Next1(p, pc)
    PROVE  /\ prog'.loops = p.loops /\ prog'.var = p.var /\ prog'.touched = p.touched
           /\ prog'.moved = p.moved /\ Same(prog', p)
           /\ \/ p.at < Len(Bindings) /\ prog'.pc = p.pc /\ prog'.at = p.at + 1
              \/ p.at = Len(Bindings) /\ prog'.pc = pc /\ prog'.at = 1
<1>1. p.at \in 1 .. Len(Bindings) /\ Len(Bindings) \in Nat
  BY BoundAre DEF Programs
<1>2. p.at < Len(Bindings) \/ p.at = Len(Bindings)
  BY <1>1
<1> QED
  BY <1>1, <1>2, NextFields

\* And of a program that leaves a round.
LEMMA BreaksOff ==
    ASSUME NEW p \in Programs, NEW pc \in Steps, prog' = Thrown(p, pc)
    PROVE  /\ prog'.loops = p.loops /\ prog'.var = p.var /\ prog'.touched = p.touched
           /\ prog'.moved = p.moved /\ Same(prog', p)
           /\ prog'.pc = pc /\ prog'.at = 1
BY NextFields

\* What fits a variable is not changed by it.
LEMMA Fits ==
    ASSUME NEW b \in Bound, NEW x \in Nat
    PROVE  Narrowed(b, x) \in Fitting(b) /\ (x \in Fitting(b) => Narrowed(b, x) = x)
<1>1. PICK w \in Nat \ {0} : w = Width[b]
  BY BoundAre
<1>2. x % w \in 0 .. w - 1 /\ (x \in 0 .. w - 1 => x % w = x)
  <2>1. x % w \in 0 .. w - 1
    OBVIOUS
  <2>2. x \in 0 .. w - 1 => x % w = x
    OBVIOUS
  <2> QED
    BY <2>1, <2>2
<1> QED
  BY <1>1, <1>2 DEF Narrowed, Fitting

\* What was registered and did not fail is there; what failed is not, with that type.
LEMMA FailedThrows ==
    ASSUME ProgramOK, RoundOK
    PROVE  /\ \A b \in prog.failed : Throws(b) /\ b \in prog.registered
           /\ \A b \in prog.registered : Throws(b) => b \in prog.failed
BY DEF ProgramOK, PoisonOK, Kept, RoundOK, Throws

\* A step that goes on with no round keeps what is due, if it notes what it changes.
LEMMA FreshStays ==
    ASSUME ProgramOK, OverwriteInv, Same(prog', prog),
           prog'.pc = prog.pc, prog'.at = prog.at, prog'.loops = prog.loops,
           \A b \in Pushed : prog.loops =>
               /\ b \in prog.touched => b \in prog'.touched
               /\ b \in prog.moved => b \in prog'.moved
               /\ content'[b] = content[b] \/ b \in prog'.moved
               /\ prog'.var[b] = prog.var[b] \/ b \in prog'.touched
    PROVE  OverwriteInv'
<1>1. ASSUME NEW j \in 1 .. Len(Bindings), Due(j)', Settled(Bindings[j])'
      PROVE  Fresh(Bindings[j])' \/ Cut(j)'
  <2>1. Due(j) /\ Settled(Bindings[j]) /\ prog.loops
    BY <1>1 DEF Due, Settled, Same, OverwriteInv, RoundOK
  <2>2. Bindings[j] \in Pushed
    BY <2>1, BoundAre DEF Settled, Pushed, Pushes
  <2>3. Cut(j) => Cut(j)'
    BY DEF Cut, Same
  <2> QED
    BY <2>1, <2>2, <2>3 DEF OverwriteInv, PulledOK, Fresh
<1> QED
  BY <1>1 DEF OverwriteInv, PulledOK, PushedOK, RoundOK, Same

\* Others note the values they change, and the command the variables.
LEMMA OthersKeepFresh ==
    ASSUME ProgramOK, OverwriteInv, Noticed \/ (FunctionRuns /\ content' = content)
    PROVE  OverwriteInv'
<1> prog \in Programs
  BY DEF ProgramOK
<1>0. prog' \in Programs /\ Same(prog', prog)
  BY NoticedPrograms
<1>1. CASE Noticed
  <2> DEFINE moved == prog.moved \cup {b \in Pushed : content'[b] # content[b]}
  <2>1. prog' = IF prog.loops THEN [prog EXCEPT !.moved = moved] ELSE prog
    BY <1>1 DEF Noticed
  <2>2. \A b \in Pushed : (b \in prog.moved => b \in moved) /\ (content'[b] = content[b] \/ b \in moved)
    OBVIOUS
  <2> HIDE DEF moved
  <2>3. /\ prog'.pc = prog.pc /\ prog'.at = prog.at /\ prog'.loops = prog.loops
        /\ prog'.touched = prog.touched /\ prog'.var = prog.var
        /\ prog.loops => prog'.moved = moved
    BY <2>1 DEF Programs
  <2> QED
    BY <1>0, <2>2, <2>3, FreshStays
<1>2. CASE FunctionRuns /\ content' = content
  <2>1. CASE prog' = prog
    BY <1>2, <2>1, FreshStays DEF Same
  <2>2. CASE prog' # prog
    <3>1. PICK b \in Bound : \E x \in Fitting(b) : prog' = Assigned(prog, b, x)
      BY <1>2, <2>2 DEF FunctionRuns
    <3>2. PICK x \in Fitting(b) : prog' = Assigned(prog, b, x)
      BY <3>1
    <3>3. /\ prog'.pc = prog.pc /\ prog'.at = prog.at /\ prog'.loops = prog.loops
          /\ prog'.moved = prog.moved /\ prog'.touched = prog.touched \cup ({b} \cap Pushed)
          /\ \A c \in Bound : c = b \/ prog'.var[c] = prog.var[c]
      BY <3>2 DEF Assigned, Programs
    <3>4. Pushed \subseteq Bound
      BY BoundAre
    <3> QED
      BY <1>0, <1>2, <3>3, <3>4, FreshStays
  <2> QED
    BY <2>1, <2>2
<1> QED
  BY <1>1, <1>2

\* The other code of the program leaves the bindings alone.
LEMMA OthersLeaveBound ==
    ASSUME ProgramOK, RequestsOK, OtherCode
    PROVE  prog' = prog /\ \A b \in Bound : content'[b] = content[b]
<1>1. \A b \in Bound : b \in Name /\ b \notin Node /\ b \notin prog.others
  BY BoundAre, RequestsAssumption DEF Values, Named, Types, Node, ProgramOK, Programs, BoundNames
<1>2. inserting # Absent => inserting \in Node
  BY DEF RequestsOK, InsertingOK
<1> QED
  BY <1>1, <1>2 DEF OtherCode, BeginInsert, EndInsert, Declare, bindVars, RequestsOK, ContentOK

\* Two bindings are of two values.
LEMMA Distinct ==
    ASSUME ProgramOK, NEW j \in 1 .. Len(Bindings), j # prog.at
    PROVE  Bindings[j] # Holding /\ prog.at \in 1 .. Len(Bindings)
<1>1. DOMAIN Bindings = 1 .. Len(Bindings) /\ prog.at \in 1 .. Len(Bindings)
  BY BindAssumption DEF ProgramOK, Programs
<1> QED
  BY <1>1, BindAssumption DEF IsInjective, Holding

\* The declarations come before any round.
LEMMA DeclareFresh ==
    ASSUME ProgramOK, OverwriteInv,
           Construct \/ BindNew \/ DefaultValue \/ BindExisting \/ NewFunction
    PROVE  OverwriteInv'
<1> USE BoundAre
<1> prog \in Programs /\ Holding \in Bound
  BY HoldingBound DEF ProgramOK
<1>1. ASSUME prog'.pc \in {"bind", "default", "function", "done"}, prog'.failed \subseteq prog'.clash,
             prog'.pc = "function" => prog'.at = 1
      PROVE  OverwriteInv'
  BY <1>1 DEF OverwriteInv, PulledOK, PushedOK, RoundOK, Due
<1>2. CASE Construct
  <2>1. prog'.pc = "bind" /\ prog'.failed = prog.failed /\ prog'.clash = prog.clash
    BY <1>2 DEF Construct, Programs
  <2> QED
    BY <1>1, <2>1 DEF OverwriteInv, RoundOK
<1>3. ASSUME NEW p \in Programs, p.pc = "bind", p.failed \subseteq p.clash, prog' = Next1(p, "function")
      PROVE  OverwriteInv'
  <2>1. /\ prog'.pc = "bind" \/ (prog'.pc = "function" /\ prog'.at = 1)
        /\ prog'.failed = p.failed /\ prog'.clash = p.clash
    BY <1>3, GoesOn DEF Steps, Same
  <2> QED
    BY <1>1, <1>3, <2>1
<1>4. CASE BindNew /\ Holding \in prog.clash
  <2> DEFINE p == [Register(prog, Holding) EXCEPT !.failed = @ \cup {Holding}]
  <2>1. p \in Programs /\ p.failed = prog.failed \cup {Holding}
    BY RegisterPrograms
  <2>2. p.pc = prog.pc /\ p.clash = prog.clash
    BY DEF Register, Programs
  <2>3. prog' = Next1(p, "function") /\ prog.pc = "bind"
    BY <1>4 DEF BindNew
  <2> HIDE DEF p
  <2> QED
    BY <1>3, <1>4, <2>1, <2>2, <2>3 DEF OverwriteInv, RoundOK
<1>5. CASE BindNew /\ Holding \notin prog.clash
  <2>1. prog' = [Register(prog, Holding) EXCEPT !.pc = "default"]
    BY <1>5 DEF BindNew
  <2>2. prog'.pc = "default" /\ prog'.failed = prog.failed /\ prog'.clash = prog.clash
    BY <2>1 DEF Register, Programs
  <2> QED
    BY <1>1, <2>2 DEF OverwriteInv, RoundOK
<1>6. CASE DefaultValue
  <2> DEFINE p == [prog EXCEPT !.pc = "bind"]
  <2>1. p \in Programs /\ p.pc = "bind" /\ p.failed = prog.failed /\ p.clash = prog.clash
    BY DEF Programs, Steps
  <2>2. prog' = Next1(p, "function")
    BY <1>6 DEF DefaultValue
  <2> HIDE DEF p
  <2> QED
    BY <1>3, <2>1, <2>2 DEF OverwriteInv, RoundOK
<1>7. CASE BindExisting
  <2> DEFINE p == RegisteredExisting(Holding)
  <2>1. p \in Programs /\ p.pc = prog.pc /\ p.failed = prog.failed /\ p.clash = prog.clash
    <3> DEFINE q == Register(prog, Holding)
    <3>1. q \in Programs
      BY RegisterPrograms
    <3>2. q.pc = prog.pc /\ q.failed = prog.failed /\ q.clash = prog.clash
      BY DEF Register, Programs
    <3> QED
      BY <3>1, <3>2 DEF RegisteredExisting
  <2>2. prog' = Next1(p, "function") /\ prog.pc = "bind"
    BY <1>7 DEF BindExisting
  <2> HIDE DEF p
  <2> QED
    BY <1>3, <2>1, <2>2 DEF OverwriteInv, RoundOK
<1>8. CASE NewFunction
  <2>1. /\ prog'.pc = IF prog.loops THEN "pull" ELSE "done"
        /\ prog'.at = prog.at /\ prog'.loops = prog.loops
        /\ prog'.failed = prog.failed /\ prog'.clash = prog.clash
    BY <1>8 DEF NewFunction, Programs
  <2>2. prog.at = 1
    BY <1>8 DEF NewFunction, OverwriteInv, RoundOK
  <2> QED
    BY <2>1, <2>2 DEF OverwriteInv, PulledOK, PushedOK, RoundOK, Due
<1> QED
  BY <1>2, <1>4, <1>5, <1>6, <1>7, <1>8

\* A pull transfers its binding, passes it over, or throws at one that failed.
LEMMA PullFresh ==
    ASSUME ProgramOK, ContentOK, OverwriteInv, Pull
    PROVE  OverwriteInv'
<1> USE BoundAre
<1> prog \in Programs /\ Holding \in Bound /\ prog.pc = "pull" /\ prog.loops
  BY HoldingBound DEF ProgramOK, Pull, OverwriteInv, RoundOK
<1>0. content' = content /\ prog.at \in 1 .. Len(Bindings)
  BY DEF Pull, Programs
<1>1. ASSUME NEW p \in Programs, Same(p, prog), p.at = prog.at, p.pc = prog.pc, p.loops = prog.loops,
             prog' = Next1(p, "compute"),
             \A j \in 1 .. Len(Bindings) :
                j <= prog.at /\ Settled(Bindings[j]) =>
                    \/ Cut(j)
                    \/ Bindings[j] \in p.touched \cup p.moved
                    \/ content[Bindings[j]] = p.var[Bindings[j]]
                    \/ content[Bindings[j]] \notin Fitting(Bindings[j])
      PROVE  OverwriteInv'
  <2>1. /\ prog'.loops = p.loops /\ prog'.var = p.var /\ prog'.touched = p.touched
        /\ prog'.moved = p.moved /\ Same(prog', p)
        /\ \/ prog.at < Len(Bindings) /\ prog'.pc = "pull" /\ prog'.at = prog.at + 1
           \/ prog.at = Len(Bindings) /\ prog'.pc = "compute" /\ prog'.at = 1
    BY <1>1, GoesOn DEF Steps
  <2>2. ASSUME NEW j \in 1 .. Len(Bindings), Due(j)', Settled(Bindings[j])'
        PROVE  Fresh(Bindings[j])' \/ Cut(j)'
    <3>1. j <= prog.at
      BY <1>0, <2>1, <2>2 DEF Due
    <3>2. Settled(Bindings[j])
      BY <1>1, <2>1, <2>2 DEF Settled, Same
    <3>3. Cut(j) => Cut(j)'
      BY <1>1, <2>1 DEF Cut, Same
    <3> QED
      BY <1>0, <1>1, <2>1, <3>1, <3>2, <3>3 DEF Fresh
  <2> QED
    BY <1>1, <2>1, <2>2 DEF OverwriteInv, PulledOK, PushedOK, RoundOK, Same
<1>2. \A j \in 1 .. Len(Bindings) :
          j < prog.at /\ Settled(Bindings[j]) => Fresh(Bindings[j]) \/ Cut(j)
  BY DEF OverwriteInv, PulledOK, Due
<1>3. CASE ~Imports(Holding)
  <2>1. ~Settled(Holding)
    BY <1>3 DEF Imports, Settled, Pulls
  <2>2. \A j \in 1 .. Len(Bindings) : j <= prog.at /\ Settled(Bindings[j]) => j < prog.at
    BY <1>0, <2>1, Distinct DEF Holding
  <2>3. prog' = Next1(prog, "compute") /\ Same(prog, prog)
    BY <1>3 DEF Pull, Same
  <2> QED
    BY <1>1, <1>2, <2>2, <2>3 DEF Fresh
<1>4. CASE Imports(Holding) /\ Throws(Holding)
  <2>1. Holding \in prog.failed
    BY <1>4, FailedThrows DEF Imports, OverwriteInv
  <2>2. prog' = Missed(prog, "compute")
    BY <1>4 DEF Pull
  <2> DEFINE p == [prog EXCEPT !.thrown = @ \cup {Bindings[prog.at]}]
  <2>3. /\ p \in Programs /\ prog' = Thrown(p, "compute")
        /\ p.registered = prog.registered /\ p.failed = prog.failed /\ p.clash = prog.clash
        /\ p.touched = prog.touched /\ p.moved = prog.moved /\ p.var = prog.var
        /\ p.loops = prog.loops
    BY <1>0, <2>2 DEF Missed, Programs
  <2> HIDE DEF p
  <2>4. /\ prog'.pc = "compute" /\ prog'.at = 1 /\ prog'.loops = prog.loops
        /\ prog'.registered = prog.registered /\ prog'.failed = prog.failed
        /\ prog'.clash = prog.clash /\ prog'.touched = prog.touched
        /\ prog'.moved = prog.moved /\ prog'.var = prog.var
    BY <2>3, BreaksOff DEF Steps, Same
  <2>5. ASSUME NEW j \in 1 .. Len(Bindings), Settled(Bindings[j])'
        PROVE  Fresh(Bindings[j])' \/ Cut(j)'
    <3>1. Settled(Bindings[j])
      BY <2>4, <2>5 DEF Settled
    <3>2. CASE j < prog.at
      BY <1>0, <1>2, <2>4, <3>1, <3>2 DEF Fresh, Cut
    <3>3. CASE j = prog.at
      BY <2>1, <3>1, <3>3 DEF Settled, Holding
    <3>4. CASE j > prog.at
      BY <1>0, <1>4, <2>1, <2>4, <3>4 DEF Cut, Imports, Holding
    <3> QED
      BY <1>0, <3>2, <3>3, <3>4
  <2> QED
    BY <2>4, <2>5 DEF OverwriteInv, PulledOK, PushedOK, RoundOK
<1>5. CASE Imports(Holding) /\ ~Throws(Holding)
  <2> DEFINE x == Narrowed(Holding, content[Holding])
             p == [Transferred(prog, Holding) EXCEPT !.var[Holding] = x]
  <2>1. prog' = Next1(p, "compute")
    BY <1>5 DEF Pull
  <2>2. content[Holding] \in Nat
    <3>1. Holding \in Name /\ Holding # Root /\ content[Holding] \in Datum \cup {Absent}
      BY RequestsAssumption DEF ContentOK, Content
    <3>2. content[Holding] # Absent
      BY <1>5, <3>1 DEF Throws, There
    <3> QED
      BY <3>1, <3>2, BindAssumption
  <2>3. x \in Fitting(Holding) /\ (content[Holding] \in Fitting(Holding) => x = content[Holding])
    BY <2>2, Fits
  <2> HIDE DEF x
  <2>4. p \in Programs /\ Same(p, prog)
    BY <2>3, TransferredPrograms
  <2>5. /\ p.at = prog.at /\ p.pc = prog.pc /\ p.loops = prog.loops
        /\ p.touched = prog.touched \ {Holding} /\ p.moved = prog.moved \ {Holding}
        /\ \A b \in Bound : p.var[b] = IF b = Holding THEN x ELSE prog.var[b]
    BY DEF Transferred, Programs
  <2> HIDE DEF p
  <2>6. ASSUME NEW j \in 1 .. Len(Bindings), j <= prog.at, Settled(Bindings[j])
        PROVE  \/ Cut(j)
               \/ Bindings[j] \in p.touched \cup p.moved
               \/ content[Bindings[j]] = p.var[Bindings[j]]
               \/ content[Bindings[j]] \notin Fitting(Bindings[j])
    <3>1. CASE j = prog.at
      BY <2>3, <2>5, <3>1 DEF Holding
    <3>2. CASE j < prog.at
      <4>1. Bindings[j] # Holding
        BY <1>0, <3>2, Distinct
      <4> QED
        BY <1>2, <2>5, <2>6, <3>2, <4>1 DEF Fresh
    <3> QED
      BY <1>0, <2>6, <3>1, <3>2
  <2> QED
    BY <1>1, <2>1, <2>4, <2>5, <2>6
<1> QED
  BY <1>3, <1>4, <1>5

\* The program's own code is noted.
LEMMA ComputeFresh ==
    ASSUME ProgramOK, OverwriteInv, Compute
    PROVE  OverwriteInv'
<1> prog \in Programs /\ Pushed \subseteq Bound
  BY BoundAre DEF ProgramOK
<1>1. content' = content /\ prog.pc = "compute" /\ prog.at = 1
  BY DEF Compute, OverwriteInv, RoundOK
<1>2. /\ prog'.pc = "push" /\ prog'.at = prog.at /\ prog'.loops = prog.loops /\ Same(prog', prog)
      /\ prog'.moved = prog.moved /\ prog.touched \subseteq prog'.touched
      /\ \A b \in Pushed : prog'.var[b] = prog.var[b] \/ b \in prog'.touched
  <2>1. CASE prog' = [prog EXCEPT !.pc = "push"]
    BY <2>1 DEF Programs, Same
  <2>2. CASE \E b \in Bound : \E x \in Fitting(b) : prog' = [Assigned(prog, b, x) EXCEPT !.pc = "push"]
    <3>1. PICK b \in Bound : \E x \in Fitting(b) : prog' = [Assigned(prog, b, x) EXCEPT !.pc = "push"]
      BY <2>2
    <3>2. PICK x \in Fitting(b) : prog' = [Assigned(prog, b, x) EXCEPT !.pc = "push"]
      BY <3>1
    <3> QED
      BY <3>2 DEF Assigned, Programs, Same
  <2> QED
    BY <2>1, <2>2 DEF Compute
<1>3. ASSUME NEW j \in 1 .. Len(Bindings), Settled(Bindings[j])'
      PROVE  Fresh(Bindings[j])' \/ Cut(j)'
  <2>1. Settled(Bindings[j]) /\ (Cut(j) => Cut(j)')
    BY <1>2, <1>3 DEF Settled, Cut, Same
  <2>2. Bindings[j] \in Pushed
    BY <2>1, BoundAre DEF Settled, Pushed, Pushes
  <2> QED
    BY <1>1, <1>2, <2>1, <2>2 DEF OverwriteInv, PulledOK, Due, Fresh
<1> QED
  BY <1>1, <1>2, <1>3 DEF OverwriteInv, PulledOK, PushedOK, RoundOK, Same

\* A push passes over its binding, transfers it, or starts the next round.
LEMMA PushFresh ==
    ASSUME ProgramOK, ContentOK, OverwriteInv, Push
    PROVE  OverwriteInv'
<1> USE BoundAre
<1> prog \in Programs /\ Holding \in Bound /\ prog.pc = "push" /\ prog.loops
  BY HoldingBound DEF ProgramOK, Push, OverwriteInv, RoundOK
<1>0. prog.at \in 1 .. Len(Bindings)
  BY DEF Programs
<1>1. ASSUME prog'.pc = "pull", prog'.at = 1, prog'.loops, prog'.failed = prog.failed,
             prog'.clash = prog.clash
      PROVE  OverwriteInv'
  BY <1>1 DEF OverwriteInv, PulledOK, PushedOK, RoundOK, Due
<1>2. ASSUME NEW p \in Programs, Same(p, prog), p.at = prog.at, p.pc = prog.pc, p.loops = prog.loops,
             prog' = Next1(p, "pull"), Holding \in prog.failed => ~Pushes(Holding),
             p.var = prog.var,
             \A b \in Bound \ {Holding} : /\ content'[b] = content[b]
                                          /\ b \in prog.touched => b \in p.touched
                                          /\ b \in prog.moved => b \in p.moved,
             \/ /\ content'[Holding] = content[Holding] /\ p.touched = prog.touched
                /\ p.moved = prog.moved
             \/ content'[Holding] = prog.var[Holding]
      PROVE  OverwriteInv'
  <2>1. /\ prog'.loops = p.loops /\ prog'.var = p.var /\ prog'.touched = p.touched
        /\ prog'.moved = p.moved /\ Same(prog', p)
        /\ \/ prog.at < Len(Bindings) /\ prog'.pc = "push" /\ prog'.at = prog.at + 1
           \/ prog'.pc = "pull" /\ prog'.at = 1
    BY <1>2, GoesOn DEF Steps
  <2>2. CASE prog'.pc = "pull" /\ prog'.at = 1
    BY <1>1, <1>2, <2>1, <2>2 DEF Same
  <2>3. CASE prog.at < Len(Bindings) /\ prog'.pc = "push" /\ prog'.at = prog.at + 1
    <3>1. ASSUME NEW j \in 1 .. Len(Bindings), Settled(Bindings[j])'
          PROVE  Fresh(Bindings[j])' \/ Cut(j)'
      <4>1. Settled(Bindings[j]) /\ (Cut(j) => Cut(j)')
        BY <1>2, <2>1, <3>1 DEF Settled, Cut, Same
      <4>2. Fresh(Bindings[j]) \/ Cut(j)
        BY <4>1 DEF OverwriteInv, PulledOK, Due
      <4>3. CASE Bindings[j] = Holding
        BY <1>2, <2>1, <4>1, <4>2, <4>3 DEF Fresh
      <4>4. CASE Bindings[j] # Holding
        BY <1>2, <2>1, <4>1, <4>2, <4>4 DEF Fresh
      <4> QED
        BY <4>3, <4>4
    <3>2. PushedOK'
      <4> SUFFICES ASSUME NEW i \in 1 .. Len(Bindings), i < prog'.at, Bindings[i] \in prog'.failed
                   PROVE  ~Pushes(Bindings[i])
        BY DEF PushedOK
      <4>1. i < prog.at \/ i = prog.at
        BY <1>0, <2>3
      <4> QED
        BY <1>2, <2>1, <4>1 DEF OverwriteInv, PushedOK, Holding, Same
    <3> QED
      BY <1>2, <2>1, <2>3, <3>1, <3>2 DEF OverwriteInv, PulledOK, RoundOK, Same
  <2> QED
    BY <2>1, <2>2, <2>3
<1>3. CASE ~Exports(Holding)
  <2>1. prog' = Next1(prog, "pull") /\ content' = content /\ Same(prog, prog)
    BY <1>3 DEF Push, Same
  <2>2. Holding \in prog.failed => ~Pushes(Holding)
    BY <1>3, FailedThrows DEF Exports, OverwriteInv
  <2> QED
    BY <1>2, <2>1, <2>2
<1>4. CASE Exports(Holding) /\ Throws(Holding)
  <2>1. prog' = Missed(prog, "pull")
    BY <1>4 DEF Push
  <2>2. /\ prog'.pc = "pull" /\ prog'.at = 1 /\ prog'.loops = prog.loops
        /\ prog'.failed = prog.failed /\ prog'.clash = prog.clash
    BY <2>1 DEF Missed, Thrown, Programs
  <2> QED
    BY <1>1, <2>2
<1>5. CASE Exports(Holding) /\ ~Throws(Holding)
  <2> DEFINE p == Transferred(prog, Holding)
  <2>1. p \in Programs /\ Same(p, prog)
    BY TransferredPrograms
  <2>2. /\ p.at = prog.at /\ p.pc = prog.pc /\ p.loops = prog.loops /\ p.var = prog.var
        /\ p.touched = prog.touched \ {Holding} /\ p.moved = prog.moved \ {Holding}
    BY DEF Transferred, Programs
  <2>3. content' = [content EXCEPT ![Holding] = prog.var[Holding]]
        /\ (prog' = Next1(p, "pull") \/ prog' = Thrown(p, "pull"))
    BY <1>5 DEF Push
  <2>4. content'[Holding] = prog.var[Holding] /\ \A b \in Bound \ {Holding} : content'[b] = content[b]
    BY <2>3 DEF ContentOK
  <2>5. Holding \notin prog.failed
    BY <1>5, FailedThrows DEF OverwriteInv
  <2> HIDE DEF p
  <2>6. CASE prog' = Next1(p, "pull")
    BY <1>2, <2>1, <2>2, <2>4, <2>5, <2>6
  <2>7. CASE prog' = Thrown(p, "pull")
    <3>1. prog'.pc = "pull" /\ prog'.at = 1 /\ prog'.loops = p.loops /\ Same(prog', p)
      BY <2>1, <2>7, BreaksOff DEF Steps
    <3> QED
      BY <1>1, <2>1, <2>2, <3>1 DEF Same
  <2> QED
    BY <2>3, <2>6, <2>7
<1> QED
  BY <1>3, <1>4, <1>5

-----------------------------------------------------------------------------
\* A program that starts has no round to keep.
LEMMA InitOverwrite == Init => OverwriteInv
BY DEF Init, BindInit, FreshProgram, OverwriteInv, PulledOK, PushedOK, RoundOK, Due

\* Every step keeps what the rounds have settled.
LEMMA NextOverwrite == IInv /\ OverwriteInv /\ [Next]_vars => OverwriteInv'
<1> SUFFICES ASSUME IInv, OverwriteInv, [Next]_vars
             PROVE  OverwriteInv'
  OBVIOUS
<1> RequestsOK /\ ShellsOK /\ QuietOK /\ ProgramOK /\ ContentOK
  BY DEF IInv, RequestsOK
<1>1. ASSUME prog' = prog, \A b \in Bound : content'[b] = content[b]
      PROVE  OverwriteInv'
  BY <1>1, BoundAre, FreshStays DEF Same
<1>2. ASSUME NEW c \in Client, ServerTakes(c) \/ ServerActs(c) \/ ServerEndsCall(c)
      PROVE  OverwriteInv'
  <2>1. CASE ServerTakes(c)
    BY <1>1, <2>1 DEF ServerTakes, Begin, BeginConcurrently, bindVars
  <2>2. CASE ServerActs(c)
    BY <2>2, OthersKeepFresh DEF ServerActs
  <2>3. CASE ServerEndsCall(c)
    BY <2>3, OthersKeepFresh DEF ServerEndsCall, EndCall
  <2> QED
    BY <1>2, <2>1, <2>2, <2>3
<1>3. ASSUME NEW c \in Client, Program(c)
      PROVE  OverwriteInv'
  BY <1>1, <1>3 DEF Program, Send, Receive, bindVars
<1>4. ASSUME NEW s \in Shell, User(s)
      PROVE  OverwriteInv'
  BY <1>1, <1>4, UserLines DEF User, bindVars
<1>5. CASE Robot
  BY <1>5, DeclareFresh, PullFresh, ComputeFresh, PushFresh DEF Robot, ProgramStep
<1>6. CASE OtherThread
  BY <1>1, <1>6, OthersKeepFresh DEF OtherThread, WrapperBind, WrapperSet
<1>7. CASE ProgramRestarts
  BY <1>7 DEF ProgramRestarts, FreshProgram, OverwriteInv, PulledOK, PushedOK, RoundOK, Due
<1>8. CASE UNCHANGED vars
  BY <1>1, <1>8 DEF vars, requestVars, bindVars
<1>9. CASE Others
  BY <1>1, <1>9, OthersLeaveBound DEF Others
<1> QED
  BY <1>2, <1>3, <1>4, <1>5, <1>6, <1>7, <1>8, <1>9 DEF Next

\* A push that changes a value has a reason, or inherits a loss of pull and push.
LEMMA PushHasReason ==
    ASSUME ProgramOK, ContentOK, OverwriteInv, Push, NEW b \in Bound, content'[b] # content[b]
    PROVE  \/ b \in prog.touched \cup prog.moved
           \/ Policy[b] = "PushOnly"
           \/ content[b] \notin Fitting(b)
           \/ Unpulled(b)
<1> USE BoundAre
<1> prog \in Programs /\ Holding \in Bound /\ prog.pc = "push"
  BY HoldingBound DEF ProgramOK, Push
<1>1. prog.at \in 1 .. Len(Bindings) /\ DOMAIN Bindings = 1 .. Len(Bindings)
  BY BindAssumption DEF Programs
<1>2. /\ Exports(Holding) /\ ~Throws(Holding) /\ b = Holding
      /\ content'[b] = prog.var[b]
  BY DEF Push, ContentOK
<1>3. Holding \in prog.registered \ prog.failed
  BY <1>2, FailedThrows DEF Exports, OverwriteInv
<1>4. Policy[b] # "PushOnly" => Settled(b)
  BY <1>2, <1>3 DEF Settled, Exports, Pushes
<1>5. ASSUME Settled(b), Cut(prog.at)
      PROVE  Unpulled(b)
  <2>1. PICK i \in 1 .. Len(Bindings) :
            i < prog.at /\ Bindings[i] \in prog.failed /\ Pulls(Bindings[i])
    BY <1>5 DEF Cut
  <2>2. ~Pushes(Bindings[i])
    BY <2>1 DEF OverwriteInv, PushedOK
  <2>3. Policy[Bindings[i]] = "PullOnly"
    BY <2>1, <2>2 DEF Pulls, Pushes
  <2> QED
    BY <1>1, <1>2, <2>1, <2>3 DEF Unpulled, Holding
<1>6. Settled(b) => Fresh(b) \/ Cut(prog.at)
  BY <1>1, <1>2 DEF OverwriteInv, PulledOK, Due, Holding
<1> QED
  BY <1>2, <1>4, <1>5, <1>6 DEF Fresh

\* What a step has to show for NoStaleOverwrite.
Overwrites ==
    \A b \in Bound :
        ProgramMoves /\ prog.pc = "push" /\ content'[b] # content[b]
            => \/ b \in prog.touched \cup prog.moved
               \/ Policy[b] = "PushOnly"
               \/ content[b] \notin Fitting(b)
               \/ Unpulled(b)

\* Only a push moves a program that pushes.
LEMMA StepOverwrites == IInv /\ OverwriteInv /\ [Next]_vars => Overwrites
<1> SUFFICES ASSUME IInv, OverwriteInv, [Next]_vars, NEW b \in Bound,
                    ProgramMoves, prog.pc = "push", content'[b] # content[b]
             PROVE  \/ b \in prog.touched \cup prog.moved
                    \/ Policy[b] = "PushOnly"
                    \/ content[b] \notin Fitting(b)
                    \/ Unpulled(b)
  BY DEF Overwrites
<1> ProgramOK /\ ContentOK /\ RequestsOK /\ ShellsOK /\ QuietOK /\ prog \in Programs
  BY DEF IInv, RequestsOK, ProgramOK
<1>1. ~Noticed /\ ~FunctionRuns /\ prog' # prog
  <2>1. prog' # prog
    BY DEF ProgramMoves
  <2>2. ~Noticed
    BY DEF ProgramMoves, Noticed, Programs
  <2>3. ASSUME FunctionRuns
        PROVE  FALSE
    <3>1. PICK c, x : prog' = Assigned(prog, c, x)
      BY <2>1, <2>3 DEF FunctionRuns
    <3>2. prog'.pc = prog.pc /\ prog'.at = prog.at
      BY <3>1 DEF Assigned, Programs
    <3> QED
      BY <3>2 DEF ProgramMoves
  <2> QED
    BY <2>1, <2>2, <2>3
<1>2. ~ProgramRestarts
  BY DEF ProgramMoves, ProgramRestarts, FreshProgram
<1>3. \A s \in Shell : ~User(s)
  BY <1>1 DEF User, bindVars
<1>4. \A c \in Client : ~ServerTakes(c) /\ ~ServerActs(c) /\ ~ServerEndsCall(c) /\ ~Program(c)
  BY <1>1 DEF ServerTakes, ServerActs, ServerEndsCall, Program, bindVars
<1>5. ~OtherThread
  BY <1>1 DEF OtherThread, WrapperBind, WrapperSet
<1>8. ~Others
  BY <1>1, OthersLeaveBound DEF Others
<1>6. Robot
  BY <1>1, <1>2, <1>3, <1>4, <1>5, <1>8 DEF Next, vars, bindVars
<1>7. Push
  BY <1>6 DEF Robot, ProgramStep, Construct, BindNew, DefaultValue, BindExisting, NewFunction,
              Pull, Compute
<1> QED
  BY <1>7, PushHasReason

\* A push changes a value only if the program assigned the variable or somebody the
\* value since they were transferred, if it is never pulled or does not fit, or if a
\* bindNew that threw keeps the pulls from it: for any bindings, in any order.
THEOREM Overwriting == Spec => NoStaleOverwrite
<1>1. Spec => [](IInv /\ OverwriteInv)
  BY InitIInv, NextKeeps, InitOverwrite, NextOverwrite, PTL DEF Spec
<1>2. Overwrites => [\A b \in Bound :
          ProgramMoves /\ prog.pc = "push" /\ content'[b] # content[b]
              => \/ b \in prog.touched \cup prog.moved
                 \/ Policy[b] = "PushOnly"
                 \/ content[b] \notin Fitting(b)
                 \/ Unpulled(b)]_<<prog, content>>
  BY DEF Overwrites
<1> QED
  BY <1>1, <1>2, StepOverwrites, PTL DEF Spec, NoStaleOverwrite

-----------------------------------------------------------------------------
(***************************************************************************)
(* Why a node that was downloaded shows all that was there when the        *)
(* download began, whatever is declared meanwhile: each of these names is  *)
(* found, or the list of its kind is still to be asked for, or under way,  *)
(* or has it in its answer (Coming).  A restart in between takes the       *)
(* download out of the promise: it began before, and says so (since).      *)
(***************************************************************************)

\* A download asks for no list of all commands, which comes after it.
Listings == {q \in Request : q.op # "all"}
ListOf(r, i) == ListNames(r.loading, Kind[i])

\* What a download knows is there, and it goes on to ask for what it does not know.
Grounded(r) ==
    /\ r.found \subseteq Present
    /\ r.before \subseteq {i \in Present : In[i] = r.loading}
    /\ r.todo \in Seq(Listings)
Awaited(r, i) == i \in r.found \/ ListOf(r, i) \in ToSet(r.todo)
Coming(r, l, i) ==
    \/ Awaited(r, i)
    \/ l.at \in {"asked", "taken"} /\ l.req = ListOf(r, i)
    \/ l.at = "answered" /\ l.req = ListOf(r, i) /\ i \in l.reply.names
    \/ l.at = "answered" /\ l.reply.kind = "error"

LineGrounded(l) ==
    /\ l.at \in {"asked", "taken", "answered"} => l.req.op # "all"
    /\ l.at = "answered" => l.reply.names \subseteq Present

\* A download of the program that still runs, between two requests and at any time.
Running1(r) == r.loading # Absent /\ r.since = restarts
Whole(r) == /\ r.loading # Absent => r.since <= restarts
            /\ Running1(r) => Grounded(r) /\ \A i \in r.before : Awaited(r, i)
WholeWith(r, l) ==
    /\ r.loading # Absent => r.since <= restarts
    /\ Running1(r) => Grounded(r) /\ LineGrounded(l) /\ \A i \in r.before : Coming(r, l, i)

DownloadInv == \A s \in Shell : WholeWith(shell[s], line[s])

\* What a shell that becomes r shows of the nodes it has downloaded by it.
Shown(r, x) ==
    \A n \in Node :
        ~r.copy[n].loaded /\ x.copy[n].loaded /\ r.since = restarts =>
            r.before \subseteq x.copy[n].names /\ x.copy[n].names \subseteq Present

-----------------------------------------------------------------------------
\* A shell that downloads nothing promises nothing.
LEMMA AtRest ==
    ASSUME NEW r, r.loading = Absent
    PROVE  Whole(r)
BY DEF Whole, Running1

\* A shell whose copy is what it was shows nothing new.
LEMMA NothingNew ==
    ASSUME NEW r, NEW x, x.copy = r.copy
    PROVE  Shown(r, x)
BY DEF Shown

\* A shell that comes back to its prompt, ends or crashes.
LEMMA PromptRests ==
    ASSUME NEW r \in Shells
    PROVE  \A x \in {Prompt(r), Ended(r), Crashed(r), Failed(r)} :
              x.loading = Absent /\ x.copy = r.copy
<1>0. r \in ShellFields /\ Prompt(r) \in ShellFields
  BY PromptShells DEF Shells
<1>1. Prompt(r) \in ShellFields /\ Prompt(r).loading = Absent /\ Prompt(r).copy = r.copy
  BY <1>0 DEF Prompt, ShellFields
<1>2. Ended(r).loading = Absent /\ Ended(r).copy = r.copy
  BY <1>1 DEF Ended, ShellFields
<1>3. Crashed(r).loading = Absent /\ Crashed(r).copy = r.copy
  BY <1>1 DEF Crashed, ShellFields
<1> QED
  BY <1>1, <1>2, <1>3 DEF Failed

\* A download begins by asking for the names of every kind.
LEMMA LoadWhole ==
    ASSUME NEW r \in Shells, NEW n \in Node, restarts \in Nat
    PROVE  Whole(Load(r, n)) /\ Load(r, n).copy = r.copy
<1> DEFINE todo == [i \in 1 .. Len(Kinds) |-> ListNames(n, Kinds[i])]
           before == {i \in Name : In[i] = n /\ There(i)}
<1>1. Len(Kinds) = 8
  BY DEF Kinds
<1>2. todo \in Seq(Listings)
  <2>1. \A i \in 1 .. 8 : ListNames(n, Kinds[i]) \in Listings
    BY SimpleList DEF Listings, ListNames, Message
  <2> QED
    BY <1>1, <2>1
<1>3. \A i \in Name : ListNames(n, Kind[i]) \in ToSet(todo)
  <2>1. ASSUME NEW i \in Name
        PROVE  \E k \in 1 .. 8 : Kind[i] = Kinds[k]
    BY <1>1, RequestsAssumption DEF ToSet, Kinds
  <2>2. DOMAIN todo = 1 .. 8
    BY <1>1
  <2> QED
    BY <1>1, <2>1, <2>2 DEF ToSet
<1>4. before \subseteq {i \in Present : In[i] = n}
  BY DEF Present
<1>5. r \in ShellFields
  BY DEF Shells
<1>6. Load(r, n) = [r EXCEPT !.loading = n, !.found = {}, !.todo = todo, !.before = before,
                             !.since = restarts]
  BY DEF Load
<1> HIDE DEF todo, before
<1>7. /\ Load(r, n).loading = n /\ Load(r, n).found = {} /\ Load(r, n).todo = todo
      /\ Load(r, n).before = before /\ Load(r, n).since = restarts /\ Load(r, n).copy = r.copy
  BY <1>5, <1>6 DEF ShellFields
<1> QED
  BY <1>2, <1>3, <1>4, <1>7 DEF Whole, Running1, Grounded, Awaited, ListOf, Present

\* A shell that has its node asks for what was typed, and downloads nothing.
LEMMA WithNodeRests ==
    ASSUME NEW r \in Shells, r.loading = Absent, r.doing \in Typing, NEW n \in Node
    PROVE  WithNode(r, n).loading = Absent /\ WithNode(r, n).copy = r.copy
<1>1. \A todo : [r EXCEPT !.todo = todo].loading = Absent /\ [r EXCEPT !.todo = todo].copy = r.copy
  BY DEF Shells, ShellFields
<1>2. CASE r.doing = "cd"
  <2> DEFINE p == [r EXCEPT !.path = n]
  <2>1. p \in Shells /\ p.copy = r.copy
    BY DEF Shells, ShellFields
  <2>2. WithNode(r, n) = Prompt(p)
    BY <1>2 DEF WithNode
  <2> HIDE DEF p
  <2> QED
    BY <2>1, <2>2, PromptRests
<1>3. CASE r.doing = "pool"
  <2>1. WithNode(r, n) = WithPool(r, n)
    BY <1>3 DEF WithNode
  <2> QED
    BY <1>1, <2>1, PromptRests DEF WithPool
<1>4. CASE r.doing \in {"get", "set"}
  <2>1. r.doing # "cd" /\ r.doing # "pool"
    BY <1>4
  <2>2. WithNode(r, n) = WithValue(r, n)
    BY <2>1 DEF WithNode
  <2> QED
    BY <1>1, <2>2, PromptRests DEF WithValue
<1> QED
  BY <1>2, <1>3, <1>4 DEF Typing

\* A shell that goes on with what was typed may begin a download.
LEMMA GoOnWhole ==
    ASSUME NEW r \in Shells, r.loading = Absent, r.doing \in Typing, restarts \in Nat
    PROVE  Whole(GoOn(r)) /\ GoOn(r).copy = r.copy
<1>1. NodeOf(r) \in Node
  BY NodeOfShells
<1>2. \/ GoOn(r) \in {Prompt(r), Crashed(r)}
      \/ GoOn(r) = WithNode(r, NodeOf(r))
      \/ \E m \in Node : GoOn(r) = Load(r, m)
  BY <1>1, GoesOnWith DEF Lacking
<1>3. CASE GoOn(r) \in {Prompt(r), Crashed(r)}
  BY <1>3, PromptRests, AtRest
<1>4. CASE GoOn(r) = WithNode(r, NodeOf(r))
  BY <1>1, <1>4, WithNodeRests, AtRest
<1>5. CASE \E m \in Node : GoOn(r) = Load(r, m)
  BY <1>5, LoadWhole
<1> QED
  BY <1>2, <1>3, <1>4, <1>5

\* An answer brings the names of its kind.
LEMMA ToldWhole ==
    ASSUME NEW r \in Shells, r.doing \notin Quiet, NEW l \in Lines, l.at = "answered",
           l.reply.kind # "error", WholeWith(r, l)
    PROVE  LET x == Told(r, l.req, l.reply)
           IN  /\ Whole(x) /\ x.copy = r.copy /\ x.loading = r.loading /\ x.since = r.since
               /\ x.before = r.before /\ x.doing = r.doing
<1> DEFINE req == l.req
           reply == l.reply
           x == Told(r, req, reply)
<1>1. r \in ShellFields /\ req \in Request /\ reply \in Replies
  BY DEF Shells, Lines
<1>2. CASE req.op = "list"
  <2> DEFINE details == DetailsOf(reply.names, req.arg)
             todo == details \o r.todo
             found == r.found \cup reply.names
  <2>1. x = [r EXCEPT !.found = found, !.todo = todo]
    BY <1>2 DEF Told
  <2>2. ASSUME Running1(r)
        PROVE  /\ found \subseteq Present /\ todo \in Seq(Listings)
               /\ ToSet(r.todo) \subseteq ToSet(todo)
    <3>1. r.todo \in Seq(Listings) /\ r.found \subseteq Present /\ reply.names \subseteq Present
      BY <2>2 DEF WholeWith, Grounded, LineGrounded
    <3>2. details \in Seq(Listings)
      <4>1. reply.names \in SUBSET Name
        BY <1>1 DEF Replies
      <4>2. \A n \in reply.names : Describe(n) \in Listings /\ Get(n) \in Listings
        BY <4>1, Simple DEF Listings, Describe, Get, Message
      <4> QED
        BY <4>1, <4>2, DetailsIn
    <3> HIDE DEF details
    <3>3. todo \in Seq(Listings)
      BY <3>1, <3>2
    <3>4. ASSUME NEW i \in 1 .. Len(r.todo)
          PROVE  /\ Len(details) + i \in 1 .. Len(todo)
                 /\ todo[Len(details) + i] = r.todo[i]
      BY <3>1, <3>2
    <3>5. DOMAIN r.todo = 1 .. Len(r.todo) /\ DOMAIN todo = 1 .. Len(todo)
      BY <3>1, <3>3
    <3> HIDE DEF todo
    <3> QED
      BY <3>1, <3>3, <3>4, <3>5 DEF ToSet
  <2> HIDE DEF todo, found
  <2>3. /\ x.found = found /\ x.todo = todo /\ x.copy = r.copy /\ x.loading = r.loading
        /\ x.since = r.since /\ x.before = r.before /\ x.doing = r.doing
    BY <1>1, <2>1 DEF ShellFields
  <2>4. ASSUME Running1(r), NEW i \in r.before
        PROVE  Awaited(x, i)
    BY <2>2, <2>3, <2>4 DEF WholeWith, Coming, Awaited, ListOf, found
  <2> HIDE DEF x
  <2> QED
    BY <2>2, <2>3, <2>4 DEF WholeWith, Whole, Running1, Grounded, x
<1>3. CASE req.op # "list"
  <2>1. ASSUME Running1(r)
        PROVE  req.op # "all"
    BY <2>1 DEF WholeWith, LineGrounded
  <2>2. ASSUME Running1(r), NEW i \in r.before
        PROVE  Awaited(r, i)
    <3>1. Coming(r, l, i)
      BY <2>2 DEF WholeWith
    <3>2. req # ListOf(r, i)
      BY <1>3 DEF ListOf, ListNames, Message
    <3> QED
      BY <3>1, <3>2 DEF Coming
  <2>3. CASE req.op = "all"
    <3> DEFINE todo == DetailsOf(reply.names, "command")
    <3>1. x = [r EXCEPT !.todo = todo]
      BY <2>3 DEF Told
    <3> HIDE DEF todo
    <3>2. /\ x.copy = r.copy /\ x.loading = r.loading
          /\ x.since = r.since /\ x.before = r.before /\ x.doing = r.doing
      BY <1>1, <3>1 DEF ShellFields
    <3> HIDE DEF x
    <3> QED
      BY <2>1, <2>3, <3>2 DEF WholeWith, Whole, Running1, x
  <2>4. CASE req.op # "all"
    <3> DEFINE remote == r.remote \cup {req.name}
    <3>1. x = [r EXCEPT !.remote = remote] \/ x = r
      BY <1>3, <2>4 DEF Told
    <3> HIDE DEF remote
    <3>2. /\ x.copy = r.copy /\ x.loading = r.loading /\ x.found = r.found /\ x.todo = r.todo
          /\ x.since = r.since /\ x.before = r.before /\ x.doing = r.doing
      BY <1>1, <3>1 DEF ShellFields
    <3> HIDE DEF x
    <3> QED
      BY <2>2, <3>2 DEF WholeWith, Whole, Running1, Grounded, Awaited, ListOf, x
  <2> QED
    BY <2>3, <2>4
<1> QED
  BY <1>2, <1>3

\* A download that has no more to ask has found all that it had to.
LEMMA CompletedShows ==
    ASSUME NEW r \in Shells, restarts \in Nat, Whole(r), r.todo = <<>>, r.doing \notin Quiet
    PROVE  Whole(Completed(r)) /\ Shown(r, Completed(r))
<1> DEFINE whole == [r EXCEPT !.copy[r.loading] = Loaded(r.found), !.loading = Absent,
                              !.found = {}, !.before = {}, !.since = 0]
<1>1. CASE r.loading = Absent
  <2>1. Completed(r) = Prompt(r)
    BY <1>1 DEF Completed
  <2> QED
    BY <2>1, PromptRests, AtRest, NothingNew
<1>2. CASE r.loading # Absent
  <2>1. /\ r.loading \in Node /\ r.found \in SUBSET Name
        /\ Loaded(r.found) \in [loaded : BOOLEAN, names : SUBSET Name]
        /\ Loaded(r.found).names = r.found
    BY <1>2 DEF Loaded, Shells, ShellFields
  <2>2. /\ whole \in Shells /\ whole.doing = r.doing /\ whole.loading = Absent
        /\ \A n \in Node : whole.copy[n] = IF n = r.loading THEN Loaded(r.found) ELSE r.copy[n]
    BY <1>2, <2>1 DEF Shells, ShellFields
  <2>3. Completed(r) = IF Syncing(r) THEN [whole EXCEPT !.remote = {}, !.todo = <<ListAllCommands>>]
                       ELSE GoOn(whole)
    BY <1>2 DEF Completed
  <2> HIDE DEF whole
  <2>4. Whole(Completed(r)) /\ Completed(r).copy = whole.copy
    <3>1. CASE Syncing(r)
      <4> DEFINE todo == <<ListAllCommands>>
                 x == [whole EXCEPT !.remote = {}, !.todo = todo]
      <4>1. Completed(r) = x
        BY <2>3, <3>1
      <4> HIDE DEF todo
      <4>2. x.loading = Absent /\ x.copy = whole.copy
        BY <2>2 DEF Shells, ShellFields
      <4> QED
        BY <4>1, <4>2, AtRest
    <3>2. CASE ~Syncing(r)
      <4>1. whole.doing \in Typing
        BY <1>2, <2>2, <3>2 DEF Shells, Syncing
      <4> QED
        BY <2>2, <2>3, <3>2, <4>1, GoOnWhole
    <3> QED
      BY <3>1, <3>2
  <2>5. ASSUME r.since = restarts
        PROVE  r.before \subseteq r.found /\ r.found \subseteq Present
    BY <1>2, <2>5 DEF Whole, Running1, Grounded, Awaited, ToSet
  <2> QED
    BY <2>1, <2>2, <2>4, <2>5 DEF Shown
<1> QED
  BY <1>1, <1>2

-----------------------------------------------------------------------------
\* A shell that reads its answer shows a node only if all of it was told.
LEMMA ReplyDownloads ==
    ASSUME RequestsOK, ShellsOK, QuietOK, NEW s \in Shell, WholeWith(shell[s], line[s]), OnReply(s)
    PROVE  \E x \in Shells : Continue(s, x) /\ Whole(x) /\ Shown(shell[s], x)
<1> DEFINE t == shell[s]
           r == Told(t, line[s].req, line[s].reply)
<1>1. t \in Shells /\ restarts \in Nat
  BY DEF RequestsOK, ShellsOK
<1>2. line[s] \in Lines /\ line[s].at = "answered" /\ t.doing \notin Quiet
  BY ShellAssumption DEF RequestsOK, LinesOK, OnReply, QuietOK, IsIdle
<1>3. line[s].req \in Request /\ line[s].reply \in Replies
  BY <1>2 DEF Lines
<1>4. Continue(s, IF line[s].reply.kind = "error" THEN Failed(t)
                  ELSE IF r.todo = <<>> THEN Completed(r) ELSE r)
  BY DEF OnReply
<1>5. CASE line[s].reply.kind = "error"
  <2>1. Failed(t) \in Shells /\ Failed(t).loading = Absent /\ Failed(t).copy = t.copy
    BY <1>1, FailedShells, PromptRests
  <2> QED
    BY <1>4, <1>5, <2>1, AtRest, NothingNew
<1>6. CASE line[s].reply.kind # "error"
  <2>1. r \in Shells
    BY <1>1, <1>2, <1>3, ToldShells
  <2>2. /\ Whole(r) /\ r.copy = t.copy /\ r.since = t.since
        /\ r.before = t.before /\ r.doing = t.doing
    BY <1>1, <1>2, <1>6, ToldWhole
  <2> HIDE DEF r
  <2>3. CASE r.todo = <<>>
    <3>1. Completed(r) \in Shells
      BY <1>1, <2>1, CompletedShells
    <3>2. Whole(Completed(r)) /\ Shown(r, Completed(r))
      BY <1>1, <1>2, <2>1, <2>2, <2>3, CompletedShows
    <3>3. Shown(t, Completed(r))
      BY <2>2, <3>2 DEF Shown
    <3> QED
      BY <1>4, <1>6, <2>3, <3>1, <3>2, <3>3
  <2>4. CASE r.todo # <<>>
    BY <1>4, <1>6, <2>1, <2>2, <2>4, NothingNew
  <2> QED
    BY <2>3, <2>4
<1> QED
  BY <1>5, <1>6

\* So does a shell whose user types: a download that begins shows nothing yet.
LEMMA UserDownloads ==
    ASSUME RequestsOK, ShellsOK, QuietOK, NEW s \in Shell, WholeWith(shell[s], line[s]), ShellStep(s)
    PROVE  \E x \in Shells : Continue(s, x) /\ Whole(x) /\ Shown(shell[s], x)
<1> DEFINE t == shell[s]
<1> t \in Shells /\ Root \in Node /\ Root \in AnyName /\ restarts \in Nat
  BY DEF RequestsOK, ShellsOK, Node, AnyName
<1>1. t.doing \in {"new", "prompt"} => t.loading = Absent
  BY DEF Shells, Typing
<1>2. \A doing, target : /\ Typed(s, doing, target).loading = t.loading
                         /\ Typed(s, doing, target).copy = t.copy
  BY DEF Typed, Shells, ShellFields
<1>3. ASSUME NEW r \in Shells, r.doing \in Typing, r.loading = Absent, r.copy = t.copy,
             Continue(s, GoOn(r))
      PROVE  \E x \in Shells : Continue(s, x) /\ Whole(x) /\ Shown(t, x)
  <2>1. GoOn(r) \in Shells /\ Whole(GoOn(r)) /\ GoOn(r).copy = t.copy
    BY <1>3, GoOnShells, GoOnWhole
  <2> QED
    BY <1>3, <2>1, NothingNew
<1>4. CASE Sync(s)
  <2>1. CASE t.doing = "new"
    <3> DEFINE r == Typed(s, "start", Root)
    <3>1. r \in Shells /\ r.doing = "start" /\ r.copy = t.copy
      BY <1>2, <2>1, TypedShells DEF Doings
    <3>2. Continue(s, Load(r, Root))
      BY <1>4, <2>1 DEF Sync, AtPrompt
    <3> HIDE DEF r
    <3>3. Load(r, Root) \in Shells /\ Whole(Load(r, Root)) /\ Load(r, Root).copy = t.copy
      BY <3>1, LoadShells, LoadWhole
    <3> QED
      BY <3>2, <3>3, NothingNew
  <2>2. CASE AtPrompt(s) /\ Tree(t).loaded
    <3> DEFINE r == Typed(s, "sync", Root)
    <3>1. r \in Shells /\ r.doing = "sync"
      BY <2>2, TypedShells DEF Doings, AtPrompt
    <3>2. Continue(s, Load(Forgotten(r), Root))
      BY <1>4, <2>2 DEF Sync, AtPrompt
    <3> HIDE DEF r
    <3>3. /\ Forgotten(r) \in Shells /\ Forgotten(r).doing = "sync"
          /\ \A n \in Node : ~Forgotten(r).copy[n].loaded
      BY <3>1 DEF Forgotten, Shells, ShellFields, NotLoaded
    <3> DEFINE f == Forgotten(r)
    <3> HIDE DEF f
    <3>4. Load(f, Root) \in Shells /\ Whole(Load(f, Root)) /\ Load(f, Root).copy = f.copy
      BY <3>3, LoadShells, LoadWhole DEF f
    <3>5. Shown(t, Load(f, Root))
      BY <3>3, <3>4 DEF Shown, f
    <3> QED
      BY <3>2, <3>4, <3>5 DEF f
  <2>3. CASE AtPrompt(s) /\ ~Tree(t).loaded
    <3>1. Continue(s, Crashed(t))
      BY <1>4, <2>3 DEF Sync, AtPrompt
    <3>2. Crashed(t) \in Shells /\ Crashed(t).loading = Absent /\ Crashed(t).copy = t.copy
      BY PromptShells, PromptRests
    <3> QED
      BY <3>1, <3>2, AtRest, NothingNew
  <2> QED
    BY <1>4, <2>1, <2>2, <2>3 DEF Sync
<1>5. CASE ChangePath(s)
  <2>1. PICK n \in Node : Continue(s, GoOn(Typed(s, "cd", n)))
    BY <1>5 DEF ChangePath
  <2>2. n \in AnyName /\ t.doing = "prompt"
    BY <1>5 DEF Node, AnyName, ChangePath, AtPrompt
  <2> DEFINE r == Typed(s, "cd", n)
  <2>3. r \in Shells /\ r.doing \in Typing /\ r.loading = Absent /\ r.copy = t.copy
    BY <1>1, <1>2, <2>2, TypedShells DEF Doings, Typing
  <2> HIDE DEF r
  <2> QED
    BY <1>3, <2>1, <2>3 DEF r
<1>6. CASE GetOrSet(s)
  <2>1. PICK v \in Values :
            \/ Continue(s, GoOn(Typed(s, "get", v)))
            \/ \E x \in TypedData : Continue(s, GoOn([Typed(s, "set", v) EXCEPT !.typed = x]))
    BY <1>6 DEF GetOrSet
  <2>2. v \in AnyName /\ t.doing = "prompt"
    BY <1>6 DEF AnyName, GetOrSet, AtPrompt, Values, Named
  <2>3. CASE Continue(s, GoOn(Typed(s, "get", v)))
    <3> DEFINE r == Typed(s, "get", v)
    <3>1. r \in Shells /\ r.doing \in Typing /\ r.loading = Absent /\ r.copy = t.copy
      BY <1>1, <1>2, <2>2, TypedShells DEF Doings, Typing
    <3> HIDE DEF r
    <3> QED
      BY <1>3, <2>3, <3>1 DEF r
  <2>4. CASE \E x \in TypedData : Continue(s, GoOn([Typed(s, "set", v) EXCEPT !.typed = x]))
    <3>1. PICK x \in TypedData : Continue(s, GoOn([Typed(s, "set", v) EXCEPT !.typed = x]))
      BY <2>4
    <3> DEFINE r == [Typed(s, "set", v) EXCEPT !.typed = x]
    <3>2. r \in Shells /\ r.doing = "set"
      BY <2>2, TypedSet, ShellAssumption DEF AtPrompt
    <3>3. r.copy = t.copy /\ r.loading = t.loading
      BY DEF Typed, Shells, ShellFields
    <3> HIDE DEF r
    <3> QED
      BY <1>1, <1>3, <2>2, <3>1, <3>2, <3>3 DEF r, Typing
  <2> QED
    BY <2>1, <2>3, <2>4
<1>7. CASE Pool(s)
  <2> DEFINE r == Typed(s, "pool", Root)
  <2>1. t.doing = "prompt" /\ Continue(s, GoOn(r))
    BY <1>7 DEF Pool, AtPrompt
  <2>2. r \in Shells /\ r.doing \in Typing /\ r.loading = Absent /\ r.copy = t.copy
    BY <1>1, <1>2, <2>1, TypedShells DEF Doings, Typing
  <2> HIDE DEF r
  <2> QED
    BY <1>3, <2>1, <2>2
<1>8. CASE Remote(s)
  <2>1. PICK c \in t.remote :
            Continue(s, [Typed(s, "call", c) EXCEPT !.todo = <<CallCommand(c)>>])
    BY <1>8 DEF Remote
  <2>2. c \in AnyName /\ t.doing = "prompt"
    BY <1>8 DEF Shells, ShellFields, Remote, AtPrompt
  <2> DEFINE todo == <<CallCommand(c)>>
             r == Typed(s, "call", c)
             x == [r EXCEPT !.todo = todo]
  <2>3. todo \in Seq(Request)
    BY <2>2 DEF CallCommand, Message, Request, Operations, Content
  <2>4. r \in Shells /\ r.doing = "call" /\ r.loading = Absent /\ r.copy = t.copy
    BY <1>1, <1>2, <2>2, TypedShells DEF Doings
  <2>5. Continue(s, x)
    BY <2>1
  <2> HIDE DEF todo, r
  <2>6. x \in Shells /\ x.loading = Absent /\ x.copy = t.copy
    BY <2>3, <2>4 DEF Shells, ShellFields, Quiet
  <2> HIDE DEF x
  <2> QED
    BY <2>5, <2>6, AtRest, NothingNew
<1>9. CASE OnReply(s)
  BY <1>9, ReplyDownloads
<1> QED
  BY <1>4, <1>5, <1>6, <1>7, <1>8, <1>9 DEF ShellStep

\* A request that is sent is awaited on the line.
LEMMA ContinueDownloads ==
    ASSUME RequestsOK, ShellsOK, NEW s \in Shell, NEW r \in Shells, Continue(s, r), Whole(r)
    PROVE  WholeWith(shell[s], line[s])'
<1> s \in Client /\ LinesOK /\ content' = content /\ restarts' = restarts
  BY ShellAssumption DEF RequestsOK, Continue
<1>1. CASE r.todo = <<>>
  <2>1. shell'[s] = r /\ line'[s] = Idle
    BY <1>1 DEF Continue, ShellsOK, LinesOK
  <2>2. WholeWith(r, Idle)
    BY DEF Whole, WholeWith, LineGrounded, Coming, Idle
  <2> QED
    BY <2>1, <2>2 DEF WholeWith, Running1, Grounded, LineGrounded, Coming, Awaited, Present, There
<1>2. CASE r.todo # <<>>
  <2> DEFINE t == Tail(r.todo)
             x == [r EXCEPT !.todo = t]
             q == Head(r.todo)
  <2>1. r \in ShellFields /\ r.todo \in Seq(Request)
    BY DEF Shells, ShellFields
  <2>2. t \in Seq(Request) /\ (r.todo \in Seq(Listings) => t \in Seq(Listings) /\ q \in Listings)
    BY <1>2, <2>1
  <2>3. \A y \in ToSet(r.todo) : y = q \/ y \in ToSet(t)
    <3>1. ASSUME NEW i \in 1 .. Len(r.todo), i # 1
          PROVE  i - 1 \in 1 .. Len(t) /\ t[i - 1] = r.todo[i]
      BY <1>2, <2>1, <3>1
    <3>2. r.todo[1] = q /\ DOMAIN r.todo = 1 .. Len(r.todo) /\ DOMAIN t = 1 .. Len(t)
      BY <1>2, <2>1, <2>2
    <3> HIDE DEF t, q
    <3> QED
      BY <3>1, <3>2 DEF ToSet
  <2>4. shell'[s] = x /\ line'[s] = Asked(q)
    BY <1>2 DEF Continue, ShellsOK, LinesOK
  <2> HIDE DEF t, q
  <2>5. /\ x.todo = t /\ x.loading = r.loading /\ x.found = r.found
        /\ x.before = r.before /\ x.since = r.since
    BY <2>1 DEF ShellFields
  <2> HIDE DEF x
  <2>6. Asked(q).at = "asked" /\ Asked(q).req = q
    BY DEF Asked
  <2>7. ASSUME Running1(x)
        PROVE  /\ Grounded(x) /\ LineGrounded(Asked(q))
               /\ \A i \in x.before : Coming(x, Asked(q), i)
    <3>1. Grounded(r) /\ \A i \in r.before : Awaited(r, i)
      BY <2>5, <2>7 DEF Whole, Running1
    <3>2. Grounded(x)
      BY <2>2, <2>5, <3>1 DEF Grounded
    <3>3. LineGrounded(Asked(q))
      BY <2>2, <2>6, <3>1 DEF Grounded, LineGrounded, Listings
    <3>4. ASSUME NEW i \in x.before
          PROVE  Coming(x, Asked(q), i)
      BY <2>3, <2>5, <2>6, <3>1 DEF Awaited, Coming, ListOf
    <3> QED
      BY <3>2, <3>3, <3>4
  <2>8. x.loading # Absent => x.since <= restarts
    BY <2>5 DEF Whole
  <2>9. WholeWith(x, Asked(q))
    BY <2>7, <2>8 DEF WholeWith
  <2> QED
    BY <2>4, <2>9 DEF WholeWith, Running1, Grounded, LineGrounded, Coming, Awaited, Present, There
<1> QED
  BY <1>1, <1>2

\* The request of a shell waits, is taken, or is answered with all that it asked for.
LEMMA LineMoves ==
    ASSUME ShellsOK, NEW s \in Shell, WholeWith(shell[s], line[s]), Remains,
           shell' = shell, restarts' = restarts,
           \/ line'[s] = line[s]
           \/ /\ line[s].at = "asked" /\ line'[s].at = "taken" /\ line'[s].req = line[s].req
           \/ /\ line[s].at = "taken" /\ line'[s].at = "answered" /\ line'[s].req = line[s].req
              /\ line'[s].reply.names \subseteq Present \/ line[s].req.op = "all"
              /\ \/ line'[s].reply.kind = "error"
                 \/ \A i \in Present : line[s].req = ListNames(In[i], Kind[i])
                                          => i \in line'[s].reply.names
    PROVE  WholeWith(shell[s], line[s])'
<1> DEFINE r == shell[s]
<1>1. Present \subseteq Present'
  BY DEF Present, There, Remains
<1>2. CASE ~Running1(r) \/ r.loading = Absent
  BY <1>2 DEF WholeWith, Running1
<1>3. CASE Running1(r) /\ r.loading # Absent
  <2>1. Grounded(r) /\ LineGrounded(line[s]) /\ \A i \in r.before : Coming(r, line[s], i)
    BY <1>3 DEF WholeWith
  <2>2. Grounded(r)'
    BY <1>1, <2>1 DEF Grounded, Listings
  <2>3. LineGrounded(line[s])'
    BY <1>1, <2>1 DEF LineGrounded
  <2>4. ASSUME NEW i \in r.before
        PROVE  Coming(r, line[s], i)'
    <3>1. i \in Present /\ In[i] = r.loading
      BY <2>1 DEF Grounded
    <3>2. ListOf(r, i) = ListNames(In[i], Kind[i])
      BY <3>1 DEF ListOf
    <3>3. Coming(r, line[s], i)
      BY <2>1
    <3>4. Awaited(r, i)' <=> Awaited(r, i)
      BY DEF Awaited, ListOf
    <3>5. ListOf(r, i)' = ListOf(r, i)
      BY DEF ListOf
    <3> QED
      BY <3>1, <3>2, <3>3, <3>4, <3>5 DEF Coming
  <2> QED
    BY <2>2, <2>3, <2>4 DEF WholeWith
<1> QED
  BY <1>2, <1>3

\* What the server does keeps every download whole.
LEMMA ServerDownloads ==
    ASSUME RequestsOK, ShellsOK, NEW s \in Shell, WholeWith(shell[s], line[s]), shell' = shell,
           NEW c \in Client, Serve(c) \/ EndCall(c)
    PROVE  WholeWith(shell[s], line[s])'
<1> s \in Client /\ LinesOK /\ Remains
  BY ShellAssumption, ServerTyped DEF RequestsOK
<1>1. restarts' = restarts
  BY DEF Serve, Refuse, List, ListAll, ListCommands, ListChildren, ListedAll, Details, GetValue,
         SetValue, CallResult, Answer, EndCall
<1>2. Taken(c) /\ (line' = line \/ \E reply : Answer(c, reply))
  BY ServerTouches
<1>3. CASE line'[s] = line[s]
  BY <1>1, <1>3, LineMoves
<1>4. CASE line'[s] # line[s]
  <2>1. s = c
    BY <1>2, <1>4 DEF Answer, LinesOK
  <2> DEFINE r == line[s].req
  <2>2. line[s].at = "taken"
    BY <1>2, <2>1 DEF Taken
  <2>3. ASSUME NEW reply, Answer(s, reply)
        PROVE  line'[s].at = "answered" /\ line'[s].req = r /\ line'[s].reply = reply
    BY <2>3 DEF Answer, LinesOK
  <2>4. \A n \in Node : \A kind : Listed(n, kind) \subseteq Present
    BY DEF Listed, Named, Present
  <2>5. /\ Done.names = {} /\ Error.names = {} /\ Error.kind = "error"
        /\ \A names, datum : Reply(names, datum).names = names
    BY DEF Done, Error, Reply
  <2>6. ASSUME NEW reply, Answer(s, reply), reply.names \subseteq Present \/ r.op = "all",
               reply.kind = "error" \/ r.op # "list"
        PROVE  WholeWith(shell[s], line[s])'
    <3>1. reply.kind = "error" \/ \A i \in Present : r # ListNames(In[i], Kind[i])
      BY <2>6 DEF ListNames, Message
    <3> QED
      BY <1>1, <2>2, <2>3, <2>6, <3>1, LineMoves
  <2>7. CASE List(s)
    <3> DEFINE reply == Reply(Listed(r.name, r.arg), Absent)
    <3>1. Answer(s, reply)
      BY <2>7 DEF List
    <3>2. reply.names = Listed(r.name, r.arg) /\ reply.names \subseteq Present
      BY <2>5 DEF Listed, Named, Present
    <3>3. ASSUME NEW i \in Present, r = ListNames(In[i], Kind[i])
          PROVE  i \in reply.names
      <4>1. r.name = In[i] /\ r.arg = Kind[i]
        BY <3>3 DEF ListNames, Message
      <4> QED
        BY <3>2, <4>1 DEF Present, Listed, Named
    <3> HIDE DEF reply
    <3> QED
      BY <1>1, <2>2, <2>3, <3>1, <3>2, <3>3, LineMoves
  <2>8. CASE ListedAll(s)
    <3>1. serving = "walking" /\ Answer(s, Reply(walk.found, Absent))
      BY <2>8 DEF ListedAll, Walks
    <3>2. r.op = "all"
      BY <1>2, <2>1, <3>1 DEF RequestsOK, ServingOK
    <3> QED
      BY <2>6, <3>1, <3>2
  <2>9. CASE Refuse(s)
    BY <2>5, <2>6, <2>9 DEF Refuse
  <2>10. CASE Details(s)
    BY <2>5, <2>6, <2>10 DEF Details, Serves
  <2>11. CASE GetValue(s)
    BY <2>5, <2>6, <2>11 DEF GetValue, Serves
  <2>12. CASE SetValue(s)
    BY <2>5, <2>6, <2>12 DEF SetValue, Serves
  <2>13. CASE EndCall(s)
    <3>1. r.op = "call"
      BY <2>2, <2>13, <1>2, <2>1 DEF EndCall, RequestsOK, ServingOK, Taken
    <3> QED
      BY <2>5, <2>6, <2>13, <3>1 DEF EndCall
  <2>14. ~CallResult(s) /\ ~ListAll(s) /\ ~ListCommands(s) /\ ~ListChildren(s)
    BY <1>4 DEF CallResult, ListAll, ListCommands, ListChildren
  <2> QED
    BY <2>1, <2>7, <2>8, <2>9, <2>10, <2>11, <2>12, <2>13, <2>14 DEF Serve
<1> QED
  BY <1>3, <1>4

-----------------------------------------------------------------------------
\* A shell that is not started downloads nothing.
LEMMA InitDownloads == Init => DownloadInv
<1> SUFFICES ASSUME Init, NEW s \in Shell PROVE WholeWith(shell[s], line[s])
  BY DEF DownloadInv
<1>1. shell[s].loading = Absent
  BY DEF Init, ShellInit, NewShell
<1> QED
  BY <1>1 DEF WholeWith, Running1

\* Every step keeps the downloads whole; a restart puts them all behind it.
LEMMA NextDownloads == IInv /\ DownloadInv /\ [Next]_vars => DownloadInv'
<1> SUFFICES ASSUME IInv, DownloadInv, [Next]_vars, NEW s \in Shell
             PROVE  WholeWith(shell[s], line[s])'
  BY DEF DownloadInv
<1> /\ RequestsOK /\ ShellsOK /\ QuietOK /\ ProgramOK /\ LinesOK /\ ContentOK /\ restarts \in Nat
    /\ s \in Client
    /\ shell[s] \in Shells /\ WholeWith(shell[s], line[s])
  BY ShellAssumption DEF IInv, RequestsOK, ShellsOK, DownloadInv
<1>1. ASSUME NEW c \in Client, ServerTakes(c)
      PROVE  WholeWith(shell[s], line[s])'
  <2>1. shell' = shell /\ restarts' = restarts /\ Remains
    BY <1>1 DEF ServerTakes, Begin, BeginConcurrently, Remains
  <2>2. CASE s # c
    <3>1. line'[s] = line[s]
      BY <1>1, <2>2 DEF ServerTakes, Begin, BeginConcurrently, LinesOK
    <3> QED
      BY <2>1, <3>1, LineMoves
  <2>3. CASE s = c
    <3>1. line[s].at = "asked" /\ line'[s] = [line[s] EXCEPT !.at = "taken"]
      BY <1>1, <2>3 DEF ServerTakes, Begin, BeginConcurrently, LinesOK
    <3>2. line[s] \in [at : {"asked"}, req : Request]
      BY <3>1 DEF LinesOK, Lines
    <3>3. line'[s].at = "taken" /\ line'[s].req = line[s].req
      BY <3>1, <3>2
    <3> QED
      BY <2>1, <3>1, <3>3, LineMoves
  <2> QED
    BY <2>2, <2>3
<1>2. ASSUME NEW c \in Client, ServerActs(c) \/ ServerEndsCall(c)
      PROVE  WholeWith(shell[s], line[s])'
  BY <1>2, ServerDownloads DEF ServerActs, ServerEndsCall
<1>3. ASSUME NEW c \in Client \ Shell, Program(c)
      PROVE  WholeWith(shell[s], line[s])'
  <2>1. line'[s] = line[s] /\ shell' = shell /\ restarts' = restarts /\ content' = content
    BY <1>3 DEF Program, Send, Receive, LinesOK
  <2> QED
    BY <2>1, LineMoves DEF Remains
<1>4. ASSUME NEW t \in Shell, User(t)
      PROVE  WholeWith(shell[s], line[s])'
  <2>1. CASE s = t
    <3>1. \E x \in Shells : Continue(s, x) /\ Whole(x)
      BY <1>4, <2>1, UserDownloads DEF User
    <3> QED
      BY <3>1, ContinueDownloads
  <2>2. CASE s # t
    <3>1. \E x \in Shells : Continue(t, x)
      BY <1>4, UserContinues DEF User
    <3>2. line'[s] = line[s] /\ shell'[s] = shell[s] /\ UNCHANGED <<content, restarts>>
      BY <2>2, <3>1 DEF Continue, LinesOK, ShellsOK
    <3> QED
      BY <3>2 DEF WholeWith, Running1, Grounded, LineGrounded, Coming, Awaited, Present, There
  <2> QED
    BY <2>1, <2>2
<1>5. ASSUME Robot \/ OtherThread \/ Others
      PROVE  WholeWith(shell[s], line[s])'
  <2>1. Remains
    BY <1>5, ProgramStepTyped, OtherThreadTyped, OthersTyped DEF Robot, OtherThread, Others
  <2>2. UNCHANGED <<line, restarts, shell>>
    BY <1>5 DEF Robot, OtherThread, Others
  <2> QED
    BY <2>1, <2>2, LineMoves
<1>6. ASSUME ProgramRestarts
      PROVE  WholeWith(shell[s], line[s])'
  <2>1. shell' = shell /\ restarts' = restarts + 1
    BY <1>6 DEF ProgramRestarts, Restart
  <2>2. shell[s].since \in Nat
    BY DEF Shells, ShellFields
  <2>3. CASE shell[s].loading = Absent
    BY <2>1, <2>3 DEF WholeWith, Running1
  <2>4. CASE shell[s].loading # Absent
    <3>1. shell[s].since <= restarts' /\ shell[s].since # restarts'
      BY <2>1, <2>2, <2>4 DEF WholeWith
    <3> QED
      BY <2>1, <3>1 DEF WholeWith, Running1
  <2> QED
    BY <2>3, <2>4
<1>7. CASE UNCHANGED vars
  <2>1. UNCHANGED <<line, shell, content, restarts>>
    BY <1>7 DEF vars, requestVars
  <2> QED
    BY <2>1, LineMoves DEF Remains
<1> QED
  BY <1>1, <1>2, <1>3, <1>4, <1>5, <1>6, <1>7 DEF Next

\* What a step has to show for BrowseComplete.
ShowsAll ==
    \A s \in Shell, n \in Node :
        Downloads(s, n) /\ shell[s].since = restarts
            => /\ shell[s].before \subseteq shell'[s].copy[n].names
               /\ \A i \in shell'[s].copy[n].names : There(i)

\* Only the user of a shell changes its tree.
LEMMA StepBrowses == IInv /\ DownloadInv /\ [Next]_vars => ShowsAll
<1> SUFFICES ASSUME IInv, DownloadInv, [Next]_vars, NEW s \in Shell, NEW n \in Node,
                    Downloads(s, n), shell[s].since = restarts
             PROVE  /\ shell[s].before \subseteq shell'[s].copy[n].names
                    /\ \A i \in shell'[s].copy[n].names : There(i)
  BY DEF ShowsAll
<1> /\ RequestsOK /\ ShellsOK /\ QuietOK /\ LinesOK /\ shell[s] \in Shells
    /\ WholeWith(shell[s], line[s])
  BY DEF IInv, RequestsOK, ShellsOK, DownloadInv
<1>1. shell'[s].copy # shell[s].copy
  BY DEF Downloads
<1>2. User(s)
  <2>1. ASSUME NEW t \in Shell, User(t), t # s
        PROVE  FALSE
    <3>1. \E x \in Shells : Continue(t, x)
      BY <2>1, UserContinues DEF User, RequestsOK
    <3> QED
      BY <1>1, <2>1, <3>1 DEF Continue, ShellsOK
  <2> QED
    BY <1>1, <2>1 DEF Next, vars, ServerTakes, ServerActs, ServerEndsCall, Program, Robot,
                      OtherThread, Others, ProgramRestarts
<1>3. PICK x \in Shells : Continue(s, x) /\ Whole(x) /\ Shown(shell[s], x)
  BY <1>2, UserDownloads DEF User
<1>4. shell'[s].copy = x.copy
  <2>1. [x EXCEPT !.todo = Tail(x.todo)].copy = x.copy
    BY DEF Shells, ShellFields
  <2>2. shell'[s] = x \/ shell'[s] = [x EXCEPT !.todo = Tail(x.todo)]
    BY <1>3 DEF Continue, ShellsOK
  <2> QED
    BY <2>1, <2>2
<1> QED
  BY <1>3, <1>4 DEF Downloads, Shown, Present

\* A node that a shell has downloaded shows all that was there when the download
\* began and nothing that is not there, whatever the program declares and the other
\* clients ask meanwhile, unless the program was started again.
THEOREM Browsing == Spec => BrowseComplete
<1>1. Spec => [](IInv /\ DownloadInv)
  BY InitIInv, NextKeeps, InitDownloads, NextDownloads, PTL DEF Spec
<1>2. ShowsAll => [\A s \in Shell, n \in Node :
          Downloads(s, n) /\ shell[s].since = restarts
              => /\ shell[s].before \subseteq shell'[s].copy[n].names
                 /\ \A i \in shell'[s].copy[n].names : There(i)]_shell
  BY DEF ShowsAll
<1> QED
  BY <1>1, <1>2, StepBrowses, PTL DEF Spec, BrowseComplete

-----------------------------------------------------------------------------
(***************************************************************************)
(* What the copies of the shells are made of (Tidy): what a shell shows in *)
(* a node is in that node, and what it takes for commands of the robot are *)
(* commands.  It tells the two apart by what it is loading when an answer  *)
(* comes, so every request it has sent or will send has to suit that.  A   *)
(* restart loses requests and answers, and makes none unsuitable.          *)
(***************************************************************************)

OfRobot == Named("command")
Inside(n) == {i \in Name : In[i] = n}
\* What a shell may ask while it loads node n, or nothing.
Suiting(n) ==
    {q \in Request : IF n = Absent
                     THEN q.op # "list" /\ (q.op = "describe" => q.name \in OfRobot)
                     ELSE q.op = "list" => q.name = n}
Tidy(r) ==
    /\ r.remote \subseteq OfRobot
    /\ \A n \in Node : r.copy[n].names \subseteq Inside(n)
    /\ r.loading # Absent => r.found \subseteq Inside(r.loading)
    /\ r.todo \in Seq(Suiting(r.loading))
LineTidy(r, l) ==
    /\ l.at \in {"asked", "taken", "answered"} => l.req \in Suiting(r.loading)
    /\ l.at = "answered" => /\ l.req.op = "list" => l.reply.names \subseteq Inside(l.req.name)
                            /\ l.req.op = "all" => l.reply.names \subseteq OfRobot
TidyInv == \A s \in Shell : Tidy(shell[s]) /\ LineTidy(shell[s], line[s])

\* The requests that suit a shell that loads nothing, and one that loads a node.
LEMMA SuitingRequests ==
    /\ \A v \in Values : Get(v) \in Suiting(Absent) /\ \A x \in Datum : Set(v, x) \in Suiting(Absent)
    /\ \A c \in AnyName : CallCommand(c) \in Suiting(Absent)
    /\ ListAllCommands \in Suiting(Absent)
    /\ \A n \in Node : \A i \in 1 .. 8 : ListNames(n, Kinds[i]) \in Suiting(n)
    /\ \A n \in Node \cup {Absent} : \A kind : \A names \in SUBSET Name :
          n # Absent \/ names \subseteq OfRobot => DetailsOf(names, kind) \in Seq(Suiting(n))
<1> Absent \notin Node
  BY RequestsAssumption DEF Node
<1>1. \A v \in Values : Get(v) \in Suiting(Absent) /\ \A x \in Datum : Set(v, x) \in Suiting(Absent)
  <2> TAKE v \in Values
  <2>1. Get(v) \in Request /\ \A x \in Datum : Set(v, x) \in Request
    BY Simple, SimpleSet DEF Values, Named
  <2> QED
    BY <2>1 DEF Suiting, Get, Set, Message
<1>2. \A c \in AnyName : CallCommand(c) \in Suiting(Absent)
  BY DEF Suiting, CallCommand, Message, Request, Operations, Content
<1>3. ListAllCommands \in Suiting(Absent)
  BY DEF ListAllCommands, Message, Suiting, Request, Operations, AnyName, Content
<1>4. \A n \in Node : \A i \in 1 .. 8 : ListNames(n, Kinds[i]) \in Suiting(n)
  <2> TAKE n \in Node
  <2> TAKE i \in 1 .. 8
  <2>1. ListNames(n, Kinds[i]) \in Request /\ n # Absent
    BY SimpleList
  <2> QED
    BY <2>1 DEF Suiting, ListNames, Message
<1>5. ASSUME NEW n \in Node \cup {Absent}, NEW kind, NEW names \in SUBSET Name,
             n # Absent \/ names \subseteq OfRobot
      PROVE  DetailsOf(names, kind) \in Seq(Suiting(n))
  <2>1. \A i \in names : Describe(i) \in Suiting(n) /\ Get(i) \in Suiting(n)
    <3> TAKE i \in names
    <3>1. Describe(i) \in Request /\ Get(i) \in Request
      BY Simple
    <3> QED
      BY <1>5, <3>1 DEF Suiting, Describe, Get, Message
  <2> QED
    BY <2>1, DetailsIn
<1> QED
  BY <1>1, <1>2, <1>3, <1>4, <1>5

\* A shell that comes back to its prompt, ends or crashes.
LEMMA PromptTidy ==
    ASSUME NEW r \in Shells, Tidy(r)
    PROVE  Tidy(Prompt(r)) /\ Tidy(Ended(r)) /\ Tidy(Crashed(r))
<1>1. r \in ShellFields /\ <<>> \in Seq(Suiting(Absent))
  BY DEF Shells
<1>2. \A doing : LET p == [Prompt(r) EXCEPT !.doing = doing]
                 IN  /\ p.remote = r.remote /\ p.copy = r.copy /\ p.loading = Absent
                     /\ p.todo = <<>>
  BY <1>1 DEF Prompt, ShellFields
<1>3. /\ Prompt(r).remote = r.remote /\ Prompt(r).copy = r.copy /\ Prompt(r).loading = Absent
      /\ Prompt(r).todo = <<>>
  BY <1>1 DEF Prompt, ShellFields
<1> QED
  BY <1>1, <1>2, <1>3 DEF Tidy, Ended, Crashed

\* A shell that begins to download a node.
LEMMA LoadTidy ==
    ASSUME NEW r \in Shells, Tidy(r), NEW n \in Node
    PROVE  Tidy(Load(r, n))
<1> DEFINE todo == [i \in 1 .. Len(Kinds) |-> ListNames(n, Kinds[i])]
           before == {i \in Name : In[i] = n /\ There(i)}
<1>1. todo \in Seq(Suiting(n))
  BY SuitingRequests DEF Kinds
<1>2. r \in ShellFields
  BY DEF Shells
<1>3. Load(r, n) = [r EXCEPT !.loading = n, !.found = {}, !.todo = todo, !.before = before,
                             !.since = restarts]
  BY DEF Load
<1> HIDE DEF todo, before
<1> QED
  BY <1>1, <1>2, <1>3 DEF Tidy, ShellFields

\* A shell that asks for something that suits it.
LEMMA TodoTidy ==
    ASSUME NEW r \in Shells, Tidy(r), NEW todo \in Seq(Suiting(r.loading))
    PROVE  Tidy([r EXCEPT !.todo = todo])
BY DEF Tidy, Shells, ShellFields

\* A shell that asks for the values of a node.
LEMMA WithPoolTidy ==
    ASSUME NEW r \in Shells, Tidy(r), r.loading = Absent, NEW n \in Node
    PROVE  Tidy(WithPool(r, n))
<1> DEFINE S == r.copy[n].names \cap Values
           pool == InSomeOrder(S)
           todo == [i \in 1 .. Len(pool) |-> Get(pool[i])]
<1>1. S \in SUBSET Name /\ S \subseteq Values
  BY DEF Values, Named
<1>2. pool \in Seq(S)
  <2>1. Cardinality(S) \in Nat /\ pool \in [1 .. Cardinality(S) -> S]
    BY <1>1, FS_Subset, RequestsAssumption, Ordered
  <2> QED
    BY <2>1, SeqDef
<1> HIDE DEF pool
<1>3. \A i \in 1 .. Len(pool) : Get(pool[i]) \in Suiting(Absent)
  BY <1>1, <1>2, SuitingRequests
<1>4. todo \in Seq(Suiting(r.loading))
  BY <1>2, <1>3
<1>5. WithPool(r, n) = IF pool = <<>> THEN Prompt(r) ELSE [r EXCEPT !.todo = todo]
  BY DEF WithPool, pool
<1> HIDE DEF todo
<1> QED
  BY <1>4, <1>5, TodoTidy, PromptTidy

\* A shell that gets or sets a value.
LEMMA WithValueTidy ==
    ASSUME NEW r \in Shells, Tidy(r), r.loading = Absent, NEW n \in Node, r.doing \in {"get", "set"}
    PROVE  Tidy(WithValue(r, n))
<1> DEFINE q == IF r.doing = "get" THEN Get(r.target) ELSE Set(r.target, r.typed)
           todo == <<q>>
<1>1. q \in Suiting(Absent)
  <2>1. r.target \in Values /\ (r.doing = "set" => r.typed \in Datum)
    BY DEF Shells
  <2>2. CASE r.doing = "get"
    BY <2>1, <2>2, SuitingRequests
  <2>3. CASE r.doing = "set"
    BY <2>1, <2>3, SuitingRequests
  <2> QED
    BY <2>2, <2>3
<1>2. WithValue(r, n) = IF r.target \notin r.copy[n].names THEN Prompt(r)
                        ELSE [r EXCEPT !.todo = todo]
  BY DEF WithValue
<1>3. todo \in Seq(Suiting(r.loading))
  <2> HIDE DEF q
  <2> QED
    BY <1>1
<1> HIDE DEF todo
<1> QED
  BY <1>2, <1>3, TodoTidy, PromptTidy

\* A shell that has the node it was looking for.
LEMMA WithNodeTidy ==
    ASSUME NEW r \in Shells, Tidy(r), r.loading = Absent, NEW n \in Node, r.doing \in Typing
    PROVE  Tidy(WithNode(r, n))
<1>1. CASE r.doing = "cd"
  <2> DEFINE p == [r EXCEPT !.path = n]
  <2>1. p \in Shells /\ Tidy(p)
    BY DEF Shells, ShellFields, Tidy
  <2>2. WithNode(r, n) = Prompt(p)
    BY <1>1 DEF WithNode
  <2> HIDE DEF p
  <2> QED
    BY <2>1, <2>2, PromptTidy
<1>2. CASE r.doing = "pool"
  BY <1>2, WithPoolTidy DEF WithNode
<1>3. CASE r.doing \in {"get", "set"}
  <2>1. r.doing # "cd" /\ r.doing # "pool"
    BY <1>3
  <2>2. WithNode(r, n) = WithValue(r, n)
    BY <2>1 DEF WithNode
  <2> QED
    BY <1>3, <2>2, WithValueTidy
<1> QED
  BY <1>1, <1>2, <1>3 DEF Typing

\* A shell that goes on with what was typed.
LEMMA GoOnTidy ==
    ASSUME NEW r \in Shells, Tidy(r), r.loading = Absent, r.doing \in Typing
    PROVE  Tidy(GoOn(r))
<1>1. NodeOf(r) \in Node
  BY NodeOfShells
<1>2. \/ GoOn(r) \in {Prompt(r), Crashed(r)}
      \/ GoOn(r) = WithNode(r, NodeOf(r))
      \/ \E m \in Node : GoOn(r) = Load(r, m)
  BY <1>1, GoesOnWith DEF Lacking
<1> QED
  BY <1>1, <1>2, PromptTidy, LoadTidy, WithNodeTidy

\* A shell that reads an answer: names go where they were asked for.
LEMMA ToldTidy ==
    ASSUME NEW r \in Shells, Tidy(r), NEW l \in Lines, l.at = "answered", LineTidy(r, l)
    PROVE  Tidy(Told(r, l.req, l.reply)) /\ Told(r, l.req, l.reply).loading = r.loading
<1> DEFINE req == l.req
           reply == l.reply
<1>1. reply.names \in SUBSET Name /\ req \in Suiting(r.loading) /\ r.loading \in Node \cup {Absent}
  BY DEF LineTidy, Lines, Replies, Shells, ShellFields
<1>2. r \in ShellFields
  BY DEF Shells
<1>3. CASE req.op = "list"
  <2> DEFINE details == DetailsOf(reply.names, req.arg)
             todo == details \o r.todo
             found == r.found \cup reply.names
  <2>1. r.loading # Absent /\ req.name = r.loading
    BY <1>1, <1>3 DEF Suiting
  <2>2. details \in Seq(Suiting(r.loading))
    BY <1>1, <2>1, SuitingRequests
  <2>3. todo \in Seq(Suiting(r.loading))
    BY <2>2 DEF Tidy
  <2>4. found \subseteq Inside(r.loading)
    BY <1>3, <2>1 DEF Tidy, LineTidy
  <2>5. Told(r, req, reply) = [r EXCEPT !.found = found, !.todo = todo]
    BY <1>3 DEF Told
  <2> HIDE DEF todo, found
  <2> QED
    BY <1>2, <2>3, <2>4, <2>5 DEF Tidy, ShellFields
<1>4. CASE req.op = "all"
  <2> DEFINE todo == DetailsOf(reply.names, "command")
  <2>1. todo \in Seq(Suiting(r.loading))
    BY <1>1, <1>4, SuitingRequests DEF LineTidy
  <2>2. req.op # "list"
    BY <1>4
  <2>3. Told(r, req, reply) = [r EXCEPT !.todo = todo]
    BY <1>4, <2>2 DEF Told
  <2> HIDE DEF todo
  <2>4. Tidy([r EXCEPT !.todo = todo])
    BY <2>1, TodoTidy
  <2>5. [r EXCEPT !.todo = todo].loading = r.loading
    BY <1>2 DEF ShellFields
  <2> QED
    BY <2>3, <2>4, <2>5
<1>5. CASE req.op \notin {"list", "all"}
  <2> req.op # "list" /\ req.op # "all"
    BY <1>5
  <2>1. CASE req.op = "describe" /\ r.loading = Absent
    <3> DEFINE remote == r.remote \cup {req.name}
    <3>1. remote \subseteq OfRobot
      BY <1>1, <2>1 DEF Tidy, Suiting
    <3>2. Told(r, req, reply) = [r EXCEPT !.remote = remote]
      BY <2>1 DEF Told
    <3> HIDE DEF remote
    <3> QED
      BY <1>2, <3>1, <3>2 DEF Tidy, ShellFields
  <2>2. CASE ~(req.op = "describe" /\ r.loading = Absent)
    <3>1. Told(r, req, reply) = r
      BY <2>2 DEF Told
    <3> QED
      BY <3>1
  <2> QED
    BY <2>1, <2>2
<1> QED
  BY <1>3, <1>4, <1>5

\* A shell that has no more to ask.
LEMMA CompletedTidy ==
    ASSUME NEW r \in Shells, Tidy(r), r.todo = <<>>
    PROVE  Tidy(Completed(r))
<1> DEFINE whole == [r EXCEPT !.copy[r.loading] = Loaded(r.found), !.loading = Absent,
                              !.found = {}, !.before = {}, !.since = 0]
<1>1. CASE r.loading = Absent
  BY <1>1, PromptTidy DEF Completed
<1>2. CASE r.loading # Absent
  <2>1. /\ r.loading \in Node /\ r.found \in SUBSET Name
        /\ Loaded(r.found) \in [loaded : BOOLEAN, names : SUBSET Name]
        /\ Loaded(r.found).names = r.found
    BY <1>2 DEF Loaded, Shells, ShellFields
  <2>2. /\ whole \in Shells /\ whole.doing = r.doing /\ whole.loading = Absent
        /\ whole.todo = <<>> /\ whole.remote = r.remote
        /\ \A n \in Node : whole.copy[n] = IF n = r.loading THEN Loaded(r.found) ELSE r.copy[n]
    BY <1>2, <2>1 DEF Shells, ShellFields
  <2>3. Completed(r) = IF Syncing(r) THEN [whole EXCEPT !.remote = {}, !.todo = <<ListAllCommands>>]
                       ELSE GoOn(whole)
    BY <1>2 DEF Completed
  <2> HIDE DEF whole
  <2>4. <<>> \in Seq(Suiting(Absent))
    OBVIOUS
  <2>5. Tidy(whole)
    BY <1>2, <2>1, <2>2, <2>4 DEF Tidy
  <2>6. CASE Syncing(r)
    <3> DEFINE todo == <<ListAllCommands>>
    <3>1. todo \in Seq(Suiting(Absent))
      BY SuitingRequests
    <3>2. Completed(r) = [whole EXCEPT !.remote = {}, !.todo = todo]
      BY <2>3, <2>6
    <3> HIDE DEF todo
    <3> QED
      BY <2>2, <2>5, <3>1, <3>2 DEF Tidy, Shells, ShellFields
  <2>7. CASE ~Syncing(r)
    <3>1. whole.doing \in Typing
      BY <1>2, <2>2, <2>7 DEF Shells, Syncing
    <3> QED
      BY <2>2, <2>3, <2>5, <2>7, <3>1, GoOnTidy
  <2> QED
    BY <2>6, <2>7
<1> QED
  BY <1>1, <1>2

\* Each step of a shell keeps it tidy.
LEMMA UserTidy ==
    ASSUME RequestsOK, ShellsOK, QuietOK, NEW s \in Shell, ShellStep(s),
           Tidy(shell[s]), LineTidy(shell[s], line[s])
    PROVE  \E r \in Shells : Continue(s, r) /\ Tidy(r)
<1> shell[s] \in Shells /\ Root \in Node /\ Root \in AnyName /\ restarts \in Nat
  BY DEF RequestsOK, ShellsOK, Node, AnyName
<1> DEFINE t == shell[s]
<1>0. t.doing \in {"new", "prompt"} => t.loading = Absent /\ t.todo = <<>>
  BY DEF Shells, Quiet, Typing
<1>1. ASSUME t.doing \in {"new", "prompt"}, NEW doing \in Doings \ {"set"}, NEW target \in AnyName,
             doing = "cd" => target \in Node, doing = "get" => target \in Values
      PROVE  /\ Typed(s, doing, target) \in Shells /\ Tidy(Typed(s, doing, target))
             /\ Typed(s, doing, target).doing = doing /\ Typed(s, doing, target).loading = Absent
  <2>1. Typed(s, doing, target) \in Shells /\ Typed(s, doing, target).doing = doing
    BY <1>1, TypedShells
  <2>2. t \in ShellFields /\ t.loading = Absent
    BY <1>0, <1>1 DEF Shells
  <2> QED
    BY <2>1, <2>2 DEF Typed, Tidy, ShellFields
<1>2. ASSUME NEW r \in Shells, Tidy(r), r.doing \in Typing, r.loading = Absent, Continue(s, GoOn(r))
      PROVE  \E x \in Shells : Continue(s, x) /\ Tidy(x)
  BY <1>2, GoOnShells, GoOnTidy
<1>3. CASE Sync(s)
  <2>1. CASE t.doing = "new"
    <3> DEFINE r == Typed(s, "start", Root)
    <3>1. r \in Shells /\ Tidy(r) /\ r.doing = "start"
      BY <1>1, <2>1 DEF Doings
    <3>2. Continue(s, Load(r, Root))
      BY <1>3, <2>1 DEF Sync, AtPrompt
    <3> HIDE DEF r
    <3> QED
      BY <3>1, <3>2, LoadShells, LoadTidy
  <2>2. CASE AtPrompt(s) /\ Tree(t).loaded
    <3> DEFINE r == Typed(s, "sync", Root)
    <3>1. r \in Shells /\ Tidy(r) /\ r.doing = "sync"
      BY <1>1, <2>2 DEF Doings, AtPrompt
    <3>2. Continue(s, Load(Forgotten(r), Root))
      BY <1>3, <2>2 DEF Sync, AtPrompt
    <3> HIDE DEF r
    <3>3. Forgotten(r) \in Shells /\ Forgotten(r).doing = "sync" /\ Tidy(Forgotten(r))
      BY <3>1 DEF Forgotten, Shells, ShellFields, NotLoaded, Tidy
    <3> QED
      BY <3>2, <3>3, LoadShells, LoadTidy
  <2>3. CASE AtPrompt(s) /\ ~Tree(t).loaded
    <3>1. Continue(s, Crashed(t))
      BY <1>3, <2>3 DEF Sync, AtPrompt
    <3> QED
      BY <3>1, PromptShells, PromptTidy
  <2> QED
    BY <1>3, <2>1, <2>2, <2>3 DEF Sync
<1>4. CASE ChangePath(s)
  <2>1. PICK n \in Node : Continue(s, GoOn(Typed(s, "cd", n)))
    BY <1>4 DEF ChangePath
  <2>2. n \in AnyName /\ t.doing = "prompt"
    BY <1>4 DEF Node, AnyName, ChangePath, AtPrompt
  <2> DEFINE r == Typed(s, "cd", n)
  <2>3. r \in Shells /\ Tidy(r) /\ r.doing \in Typing /\ r.loading = Absent
    BY <1>1, <2>2 DEF Doings, Typing
  <2> HIDE DEF r
  <2> QED
    BY <1>2, <2>1, <2>3 DEF r
<1>5. CASE GetOrSet(s)
  <2>1. PICK v \in Values :
            \/ Continue(s, GoOn(Typed(s, "get", v)))
            \/ \E x \in TypedData : Continue(s, GoOn([Typed(s, "set", v) EXCEPT !.typed = x]))
    BY <1>5 DEF GetOrSet
  <2>2. v \in AnyName /\ t.doing = "prompt"
    BY <1>5 DEF AnyName, GetOrSet, AtPrompt, Values, Named
  <2>3. CASE Continue(s, GoOn(Typed(s, "get", v)))
    <3> DEFINE r == Typed(s, "get", v)
    <3>1. r \in Shells /\ Tidy(r) /\ r.doing \in Typing /\ r.loading = Absent
      BY <1>1, <2>2 DEF Doings, Typing
    <3> HIDE DEF r
    <3> QED
      BY <1>2, <2>3, <3>1 DEF r
  <2>4. CASE \E x \in TypedData : Continue(s, GoOn([Typed(s, "set", v) EXCEPT !.typed = x]))
    <3>1. PICK x \in TypedData : Continue(s, GoOn([Typed(s, "set", v) EXCEPT !.typed = x]))
      BY <2>4
    <3> DEFINE r == [Typed(s, "set", v) EXCEPT !.typed = x]
    <3>2. r \in Shells /\ r.doing = "set"
      BY <2>2, TypedSet, ShellAssumption DEF AtPrompt
    <3>3. r.copy = t.copy /\ r.loading = t.loading /\ r.todo = t.todo /\ r.found = t.found
          /\ r.remote = t.remote
      BY DEF Typed, Shells, ShellFields
    <3> HIDE DEF r
    <3>4. Tidy(r) /\ r.doing \in Typing /\ r.loading = Absent
      BY <1>0, <2>2, <3>2, <3>3 DEF Tidy, Typing
    <3> QED
      BY <1>2, <3>1, <3>2, <3>4 DEF r
  <2> QED
    BY <2>1, <2>3, <2>4
<1>6. CASE Pool(s)
  <2> DEFINE r == Typed(s, "pool", Root)
  <2>1. t.doing = "prompt" /\ Continue(s, GoOn(r))
    BY <1>6 DEF Pool, AtPrompt
  <2>2. r \in Shells /\ Tidy(r) /\ r.doing \in Typing /\ r.loading = Absent
    BY <1>1, <2>1 DEF Doings, Typing
  <2> HIDE DEF r
  <2> QED
    BY <1>2, <2>1, <2>2
<1>7. CASE Remote(s)
  <2>1. PICK c \in t.remote :
            Continue(s, [Typed(s, "call", c) EXCEPT !.todo = <<CallCommand(c)>>])
    BY <1>7 DEF Remote
  <2>2. c \in AnyName /\ t.doing = "prompt"
    BY <1>7 DEF Shells, ShellFields, Remote, AtPrompt
  <2> DEFINE todo == <<CallCommand(c)>>
             r == Typed(s, "call", c)
  <2>3. todo \in Seq(Request) /\ todo \in Seq(Suiting(Absent))
    <3>1. CallCommand(c) \in Suiting(Absent) /\ CallCommand(c) \in Request
      BY <2>2, SuitingRequests DEF Suiting
    <3> QED
      BY <3>1
  <2>4. r \in Shells /\ Tidy(r) /\ r.doing = "call" /\ r.loading = Absent
    BY <1>1, <2>2 DEF Doings
  <2> HIDE DEF todo, r
  <2>5. [r EXCEPT !.todo = todo] \in Shells
    BY <2>3, <2>4 DEF Shells, ShellFields, Quiet
  <2>6. Tidy([r EXCEPT !.todo = todo])
    BY <2>3, <2>4, TodoTidy
  <2> QED
    BY <2>1, <2>5, <2>6 DEF todo, r
<1>8. CASE OnReply(s)
  <2>1. line[s] \in Lines /\ line[s].at = "answered" /\ t.doing \notin Quiet
    BY <1>8, ShellAssumption DEF RequestsOK, LinesOK, OnReply, QuietOK, IsIdle
  <2>2. line[s].req \in Request /\ line[s].reply \in Replies
    BY <2>1 DEF Lines
  <2> DEFINE r == Told(t, line[s].req, line[s].reply)
  <2>3. Continue(s, IF line[s].reply.kind = "error" THEN Failed(t)
                    ELSE IF r.todo = <<>> THEN Completed(r) ELSE r)
    BY <1>8 DEF OnReply
  <2>4. Failed(t) \in Shells /\ Tidy(Failed(t))
    <3>1. Failed(t) \in {Prompt(t), Ended(t), Crashed(t)}
      <4>1. CASE t.doing = "start"
        BY <4>1 DEF Failed
      <4>2. CASE t.doing # "start" /\ t.doing = "get" /\ t.loading # Absent
        BY <4>2 DEF Failed
      <4>3. CASE t.doing # "start" /\ ~(t.doing = "get" /\ t.loading # Absent)
        BY <4>3 DEF Failed
      <4> QED
        BY <4>1, <4>2, <4>3
    <3> QED
      BY <3>1, FailedShells, PromptTidy
  <2>5. r \in Shells /\ Tidy(r)
    BY <2>1, <2>2, ToldShells, ToldTidy
  <2> HIDE DEF r
  <2>6. r.todo = <<>> => Completed(r) \in Shells /\ Tidy(Completed(r))
    BY <2>5, CompletedShells, CompletedTidy
  <2> QED
    BY <2>3, <2>4, <2>5, <2>6
<1> QED
  BY <1>3, <1>4, <1>5, <1>6, <1>7, <1>8 DEF ShellStep

\* A tidy record, once its first request is sent, leaves the shell tidy.
LEMMA ContinueTidy ==
    ASSUME LinesOK, ShellsOK, NEW s \in Shell, NEW r \in Shells, Continue(s, r), Tidy(r)
    PROVE  Tidy(shell'[s]) /\ LineTidy(shell'[s], line'[s])
<1> s \in Client
  BY ShellAssumption
<1>1. CASE r.todo = <<>>
  <2>1. shell'[s] = r /\ line'[s].at = "idle"
    BY <1>1 DEF Continue, ShellsOK, LinesOK, Idle
  <2> QED
    BY <2>1 DEF LineTidy
<1>2. CASE r.todo # <<>>
  <2> DEFINE t == Tail(r.todo)
             x == [r EXCEPT !.todo = t]
             q == Head(r.todo)
  <2>1. t \in Seq(Suiting(r.loading)) /\ q \in Suiting(r.loading)
    <3> DEFINE S == Suiting(r.loading)
    <3>1. r.todo \in Seq(S)
      BY DEF Tidy
    <3> HIDE DEF S
    <3>2. Tail(r.todo) \in Seq(S) /\ Head(r.todo) \in S
      BY <1>2, <3>1
    <3> QED
      BY <3>2 DEF S
  <2>2. shell'[s] = x /\ line'[s] = Asked(q)
    BY <1>2 DEF Continue, ShellsOK, LinesOK
  <2> HIDE DEF t, q
  <2>3. Tidy(x) /\ x.loading = r.loading
    BY <2>1, TodoTidy DEF Shells, ShellFields
  <2> HIDE DEF x
  <2> QED
    BY <2>1, <2>2, <2>3 DEF LineTidy, Asked
<1> QED
  BY <1>1, <1>2

\* An answer to a shell lists what it asked for.
LEMMA ServerTidy ==
    ASSUME RequestsOK, NEW s \in Client, NEW r, LineTidy(r, line[s]),
           NEW c \in Client, Serve(c) \/ EndCall(c)
    PROVE  LineTidy(r, line'[s])
<1> LinesOK
  BY DEF RequestsOK
<1>1. Taken(c) /\ (line' = line \/ \E reply : Answer(c, reply))
  BY ServerTouches
<1>2. CASE line'[s] = line[s]
  BY <1>2
<1>3. CASE line'[s] # line[s]
  <2>1. s = c /\ line[s].at = "taken"
    BY <1>1, <1>3 DEF Answer, LinesOK, Taken
  <2> DEFINE q == line[s].req
  <2>2. ASSUME NEW reply, Answer(s, reply), q.op = "list" => reply.names \subseteq Inside(q.name),
               q.op = "all" => reply.names \subseteq OfRobot
        PROVE  LineTidy(r, line'[s])
    <3>1. line'[s].at = "answered" /\ line'[s].req = q /\ line'[s].reply = reply
      BY <2>2 DEF Answer, LinesOK
    <3> QED
      BY <2>1, <2>2, <3>1 DEF LineTidy
  <2>3. Done.names = {} /\ Error.names = {} /\ \A names, datum : Reply(names, datum).names = names
    BY DEF Done, Error, Reply
  <2>4. CASE List(s)
    <3>1. Answer(s, Reply(Listed(q.name, q.arg), Absent)) /\ q.op = "list"
      BY <2>4 DEF List, Serves
    <3>2. Listed(q.name, q.arg) \subseteq Inside(q.name)
      BY DEF Listed, Named, Inside
    <3>3. q.op # "all"
      BY <3>1
    <3> QED
      BY <2>2, <2>3, <3>1, <3>2, <3>3
  <2>5. CASE ListedAll(s)
    <3>1. Answer(s, Reply(walk.found, Absent)) /\ q.op = "all"
      BY <2>1, <2>5 DEF ListedAll, Walks, RequestsOK, ServingOK, Taken
    <3>2. walk.found \subseteq OfRobot
      BY DEF RequestsOK, WalkOK, OfRobot
    <3>3. q.op # "list"
      BY <3>1
    <3> QED
      BY <2>2, <2>3, <3>1, <3>2, <3>3
  <2>6. CASE Refuse(s) \/ Details(s) \/ SetValue(s) \/ EndCall(s)
    <3>1. Answer(s, Done) \/ Answer(s, Error)
      BY <2>6 DEF Refuse, Details, SetValue, EndCall
    <3> QED
      BY <2>2, <2>3, <3>1
  <2>7. CASE GetValue(s)
    BY <2>2, <2>3, <2>7 DEF GetValue
  <2>8. ~CallResult(s) /\ ~ListAll(s) /\ ~ListCommands(s) /\ ~ListChildren(s)
    BY <1>3 DEF CallResult, ListAll, ListCommands, ListChildren
  <2> QED
    BY <2>1, <2>4, <2>5, <2>6, <2>7, <2>8 DEF Serve
<1> QED
  BY <1>2, <1>3

\* A shell that is not started is tidy.
LEMMA InitTidy == Init => TidyInv
<1> SUFFICES ASSUME Init, NEW s \in Shell PROVE Tidy(shell[s]) /\ LineTidy(shell[s], line[s])
  BY DEF TidyInv
<1>1. line[s].at = "idle" /\ shell[s] = NewShell
  BY ShellAssumption DEF Init, RequestsInit, ShellInit, Idle
<1>2. /\ NewShell.todo = <<>> /\ NewShell.loading = Absent /\ NewShell.remote = {}
      /\ \A n \in Node : NewShell.copy[n].names = {}
  BY DEF NewShell, NotLoaded
<1>3. <<>> \in Seq(Suiting(Absent))
  OBVIOUS
<1> QED
  BY <1>1, <1>2, <1>3 DEF Tidy, LineTidy

\* Every step keeps the shells tidy.
LEMMA NextTidy == IInv /\ TidyInv /\ [Next]_vars => TidyInv'
<1> SUFFICES ASSUME IInv, TidyInv, [Next]_vars, NEW s \in Shell
             PROVE  Tidy(shell'[s]) /\ LineTidy(shell'[s], line'[s])
  BY DEF TidyInv, Tidy, LineTidy
<1> /\ RequestsOK /\ ShellsOK /\ QuietOK /\ LinesOK /\ s \in Client
    /\ Tidy(shell[s]) /\ LineTidy(shell[s], line[s])
  BY ShellAssumption DEF IInv, RequestsOK, TidyInv
<1>1. ASSUME NEW c \in Client, ServerTakes(c)
      PROVE  Tidy(shell'[s]) /\ LineTidy(shell'[s], line'[s])
  <2>1. shell' = shell
    BY <1>1 DEF ServerTakes
  <2>2. CASE s # c
    <3>1. line'[s] = line[s]
      BY <1>1, <2>2 DEF ServerTakes, Begin, BeginConcurrently, LinesOK
    <3> QED
      BY <2>1, <3>1
  <2>3. CASE s = c
    <3>1. line[s].at = "asked" /\ line'[s] = [line[s] EXCEPT !.at = "taken"]
      BY <1>1, <2>3 DEF ServerTakes, Begin, BeginConcurrently, LinesOK
    <3>2. line[s] \in [at : {"asked"}, req : Request]
      BY <3>1 DEF LinesOK, Lines
    <3>3. line'[s].at = "taken" /\ line'[s].req = line[s].req
      BY <3>1, <3>2
    <3> QED
      BY <2>1, <3>1, <3>3 DEF LineTidy
  <2> QED
    BY <2>2, <2>3
<1>2. ASSUME NEW c \in Client, ServerActs(c) \/ ServerEndsCall(c)
      PROVE  Tidy(shell'[s]) /\ LineTidy(shell'[s], line'[s])
  BY <1>2, ServerTidy DEF ServerActs, ServerEndsCall
<1>3. ASSUME NEW c \in Client \ Shell, Program(c)
      PROVE  Tidy(shell'[s]) /\ LineTidy(shell'[s], line'[s])
  BY <1>3 DEF Program, Send, Receive, LinesOK
<1>4. ASSUME NEW t \in Shell, User(t)
      PROVE  Tidy(shell'[s]) /\ LineTidy(shell'[s], line'[s])
  <2>1. CASE s = t
    <3>1. \E r \in Shells : Continue(s, r) /\ Tidy(r)
      BY <1>4, <2>1, UserTidy DEF User
    <3> QED
      BY <3>1, ContinueTidy
  <2>2. CASE s # t
    <3>1. \E r \in Shells : Continue(t, r)
      BY <1>4, UserContinues DEF User, RequestsOK
    <3>2. line'[s] = line[s] /\ shell'[s] = shell[s]
      BY <2>2, <3>1 DEF Continue, LinesOK, ShellsOK
    <3> QED
      BY <3>2
  <2> QED
    BY <2>1, <2>2
<1>5. ASSUME Robot \/ OtherThread \/ Others
      PROVE  Tidy(shell'[s]) /\ LineTidy(shell'[s], line'[s])
  BY <1>5 DEF Robot, OtherThread, Others
<1>6. ASSUME ProgramRestarts
      PROVE  Tidy(shell'[s]) /\ LineTidy(shell'[s], line'[s])
  <2>1. shell' = shell /\ (line'[s] = line[s] \/ line'[s] = [at |-> "lost"])
    BY <1>6, RestartTyped DEF ProgramRestarts
  <2> QED
    BY <2>1 DEF LineTidy
<1>7. CASE UNCHANGED vars
  BY <1>7 DEF vars, requestVars
<1> QED
  BY <1>1, <1>2, <1>3, <1>4, <1>5, <1>6, <1>7 DEF Next

-----------------------------------------------------------------------------
\* The program is started again no more often than it may be.
FewRestarts == restarts \in 0 .. MaxRestarts

\* Only a restart counts.
LEMMA NextFewRestarts == IInv /\ FewRestarts /\ [Next]_vars => FewRestarts'
<1> SUFFICES ASSUME IInv, FewRestarts, [Next]_vars PROVE FewRestarts'
  OBVIOUS
<1>1. CASE ProgramRestarts
  <2>1. restarts < MaxRestarts /\ restarts' = restarts + 1 /\ MaxRestarts \in Nat
    BY <1>1, RequestsAssumption DEF ProgramRestarts, Restart
  <2> QED
    BY <2>1 DEF FewRestarts
<1>2. CASE ~ProgramRestarts
  <2>1. \A t \in Shell : User(t) => restarts' = restarts
    BY UserLines DEF IInv
  <2>2. restarts' = restarts
    BY <1>2, <2>1 DEF Next, vars, requestVars, ServerTakes, Begin, BeginConcurrently, ServerActs,
               Serve, Refuse, List, ListAll, ListCommands, ListChildren, ListedAll, Details,
               GetValue, SetValue, CallResult, Answer, ServerEndsCall, EndCall, Program, Send,
               Receive, Robot, OtherThread, Others
  <2> QED
    BY <2>2 DEF FewRestarts
<1> QED
  BY <1>1, <1>2

\* The requests of a robot are of their types, and its one thread has one of them.
LEMMA RequestsAreTyped == RequestsOK /\ FewRestarts => RequestsTypeOK
<1> SUFFICES ASSUME RequestsOK, FewRestarts PROVE RequestsTypeOK
  OBVIOUS
<1> DEFINE taken == {c \in Client : line[c].at = "taken"}
<1>1. CASE serving = "nobody"
  <2>1. taken = {}
    BY <1>1 DEF RequestsOK, ServingOK, Taken
  <2>2. Cardinality(taken) = 0
    BY <2>1, FS_EmptySet
  <2> QED
    BY <1>1, <2>2, LineShape
       DEF RequestsOK, ServingOK, WalkOK, InsertingOK, FewRestarts, RequestsTypeOK, ContentOK, Content
<1>2. CASE serving # "nobody"
  <2>1. PICK c \in Client : Taken(c)
    BY <1>2 DEF RequestsOK, ServingOK
  <2>2. taken = {c}
    BY <2>1 DEF RequestsOK, ServingOK, Taken
  <2>3. Cardinality(taken) = 1
    BY <2>2, FS_Singleton
  <2> QED
    BY <1>2, <2>3, LineShape
       DEF RequestsOK, ServingOK, WalkOK, InsertingOK, FewRestarts, RequestsTypeOK, ContentOK, Content
<1> QED
  BY <1>1, <1>2

\* So are its shells and its program.
LEMMA RobotIsTyped == IInv /\ TidyInv => ShellTypeOK /\ BindTypeOK
<1> SUFFICES ASSUME IInv, TidyInv PROVE ShellTypeOK /\ BindTypeOK
  OBVIOUS
<1>1. ShellTypeOK
  <2> SUFFICES ASSUME NEW s \in Shell
               PROVE  /\ shell[s].doing \in Doings
                      /\ shell[s].loading \in Node \cup {Absent}
                      /\ shell[s].found \subseteq Name /\ shell[s].remote \subseteq Named("command")
                      /\ shell[s].path \in Node
                      /\ \A n \in Node : shell[s].copy[n].names \subseteq {i \in Name : In[i] = n}
                      /\ shell[s].doing \in Quiet => IsIdle(s)
    BY DEF ShellTypeOK, Doings, Quiet
  <2>1. shell[s] \in ShellFields
    BY DEF IInv, ShellsOK, Shells
  <2>2. shell[s].remote \subseteq OfRobot /\ \A n \in Node : shell[s].copy[n].names \subseteq Inside(n)
    BY DEF TidyInv, Tidy
  <2>3. shell[s].doing \in Quiet => IsIdle(s)
    BY DEF IInv, QuietOK
  <2> QED
    BY <2>1, <2>2, <2>3 DEF ShellFields, OfRobot, Inside
<1>2. BindTypeOK
  BY DEF IInv, ProgramOK, PoisonOK, Programs, Steps, BindTypeOK
<1> QED
  BY <1>1, <1>2

\* The robot and its users stay within their types: the one thread of the server has
\* at most one request, what a shell shows in a node is in that node, what it takes
\* for commands are commands, and it waits for no answer at its prompt.
THEOREM TypeCorrect == Spec => []TypeOK
<1>1. Init => FewRestarts
  BY RequestsAssumption DEF Init, RequestsInit, FewRestarts
<1>2. IInv /\ TidyInv /\ FewRestarts => TypeOK
  BY RequestsAreTyped, RobotIsTyped DEF IInv, TypeOK
<1> QED
  BY <1>1, <1>2, InitIInv, NextKeeps, InitTidy, NextTidy, NextFewRestarts, PTL DEF Spec
-----------------------------------------------------------------------------
(***************************************************************************)
(* That what is typed comes to an end, but for the waiting: a shell at     *)
(* work always has a request under way, the server can always go on, and   *)
(* each answer brings the end nearer, in this sense: one more node of the  *)
(* tree is there (Grown), or there are fewer lists to ask for, or as many  *)
(* and fewer requests.  For no list is asked for twice (Single), and only  *)
(* a node that is missing is downloaded (Sought).                          *)
(***************************************************************************)

\* A shell with something to do has a request to send, and waits for the answer.
Working(r) == r.doing \in Quiet \/ r.todo # <<>>
BusyWaits == \A s \in Shell : Busy(s) => ~IsIdle(s)

\* The server waits for a request, refuses one, runs a command, or has what it takes for
\* the next step of one of the operations: unless a child is being put into a node, which
\* ends by itself.
CanServe(c) ==
    \/ serving \in {"unknown", "running"}
    \/ /\ serving = "known" /\ line[c].req.op \in Operations
       /\ CanLookUp(line[c].req.name) /\ ~Growing(line[c].req.name)
    \/ /\ serving = "walking" /\ (walk.listed => walk.queue # <<>>)
       /\ walk.queue # <<>> => ~Growing(Head(walk.queue))
ServerGoesOn ==
    serving # "nobody" => \E c \in Client : Taken(c) /\ (CanServe(c) \/ inserting # Absent)

\* The requests whose answers bring new ones, and the others.
Long(q) == q.op \in {"list", "all"}
Plain == {q \in Request : ~Long(q)}
Longs(todo) == {q \in ToSet(todo) : Long(q)}
Asking(l) == IF l.at \in {"asked", "taken", "answered"} THEN {l.req} ELSE {}
Ahead(r, l) == Longs(r.todo) \cup {q \in Asking(l) : Long(q)}

\* No list is asked for twice, and a node is only downloaded if it is missing.
Single(todo) == \A i, j \in 1 .. Len(todo) : Long(todo[i]) /\ todo[i] = todo[j] => i = j
Sought(r) == /\ r.loading # Absent => ~r.copy[r.loading].loaded
             /\ r.doing = "new" => ~r.copy[Root].loaded
Once(r, l) == /\ Single(r.todo) /\ Sought(r)
              /\ \A q \in Asking(l) : Long(q) => q \notin ToSet(r.todo)
OnceInv == \A s \in Shell : Once(shell[s], line[s])

\* Nearer to its end.
Fewer(A, B) == A \subseteq B /\ A # B
Grown(c, d) == /\ \A n \in Node : c[n].loaded => d[n].loaded
               /\ \E n \in Node : ~c[n].loaded /\ d[n].loaded
Nearer(s) ==
    \/ Grown(shell[s].copy, shell'[s].copy)
    \/ /\ shell'[s].copy = shell[s].copy
       /\ \/ Fewer(Ahead(shell'[s], line'[s]), Ahead(shell[s], line[s]))
          \/ /\ Ahead(shell'[s], line'[s]) = Ahead(shell[s], line[s])
             /\ Len(shell'[s].todo) < Len(shell[s].todo)

\* The stages of a request.
Stage(l) == CASE l.at = "asked" -> 3 [] l.at = "taken" -> 2 [] l.at = "answered" -> 1 [] OTHER -> 0

\* What is typed is nearer to its end after what is done for it, and stays as it is with
\* the rest.
Progress ==
    \A s \in Shell : Busy(s) /\ Busy(s)' =>
        \/ Nearer(s)
        \/ shell'[s] = shell[s] /\ (line'[s] = line[s] \/ Stage(line'[s]) < Stage(line[s]))

\* The first request of some, and the others.
LEMMA FirstAndRest ==
    ASSUME NEW todo \in Seq(Request), todo # <<>>
    PROVE  /\ Head(todo) \in Request /\ Tail(todo) \in Seq(Request)
           /\ Len(Tail(todo)) < Len(todo)
           /\ ToSet(todo) = {Head(todo)} \cup ToSet(Tail(todo))
           /\ Single(todo) => Single(Tail(todo)) /\ (Long(Head(todo)) => Head(todo) \notin ToSet(Tail(todo)))
<1> DEFINE t == Tail(todo)
           n == Len(todo)
<1>1. /\ n \in Nat /\ n >= 1 /\ t \in Seq(Request) /\ Len(t) = n - 1
      /\ Head(todo) = todo[1] /\ todo[1] \in Request
      /\ \A i \in 1 .. n - 1 : t[i] = todo[i + 1]
  OBVIOUS
<1>2. DOMAIN todo = 1 .. n /\ DOMAIN t = 1 .. n - 1
  BY <1>1
<1> HIDE DEF t, n
<1>3. ToSet(todo) = {todo[i] : i \in 1 .. n} /\ ToSet(t) = {t[i] : i \in 1 .. n - 1}
  BY <1>2 DEF ToSet
<1>4. ASSUME NEW q PROVE q \in ToSet(todo) <=> q = todo[1] \/ q \in ToSet(t)
  <2>1. ASSUME NEW i \in 1 .. n, q = todo[i] PROVE q = todo[1] \/ q \in ToSet(t)
    <3>1. CASE i # 1
      <4>1. i - 1 \in 1 .. n - 1 /\ (i - 1) + 1 = i
        BY <1>1, <3>1
      <4>2. t[i - 1] = todo[i]
        BY <1>1, <4>1
      <4> QED
        BY <1>3, <2>1, <4>1, <4>2
    <3> QED
      BY <2>1, <3>1
  <2>2. ASSUME NEW i \in 1 .. n - 1, q = t[i] PROVE q \in ToSet(todo)
    <3>1. i + 1 \in 1 .. n /\ t[i] = todo[i + 1]
      BY <1>1
    <3> QED
      BY <1>3, <2>2, <3>1
  <2>3. todo[1] \in ToSet(todo)
    BY <1>1, <1>3
  <2> QED
    BY <1>3, <2>1, <2>2, <2>3
<1>5. ASSUME Single(todo) PROVE Single(t) /\ (Long(todo[1]) => todo[1] \notin ToSet(t))
  <2>1. \A i \in 1 .. n - 1 : i + 1 \in 1 .. n /\ i + 1 # 1 /\ 1 \in 1 .. n
    BY <1>1
  <2>2. ASSUME NEW i \in 1 .. n - 1, NEW j \in 1 .. n - 1, Long(t[i]), t[i] = t[j] PROVE i = j
    <3>1. Long(todo[i + 1]) /\ todo[i + 1] = todo[j + 1] /\ i + 1 \in 1 .. n /\ j + 1 \in 1 .. n
      BY <1>1, <2>1, <2>2
    <3>2. i + 1 = j + 1
      BY <1>5, <3>1 DEF Single, n
    <3> QED
      BY <3>2
  <2>3. ASSUME Long(todo[1]), NEW i \in 1 .. n - 1, todo[1] = t[i] PROVE FALSE
    <3>1. todo[1] = todo[i + 1] /\ i + 1 \in 1 .. n /\ 1 \in 1 .. n /\ i + 1 # 1
      BY <1>1, <2>1, <2>3
    <3> QED
      BY <1>5, <2>3, <3>1 DEF Single, n
  <2>4. Single(t)
    BY <1>1, <2>2 DEF Single
  <2> QED
    BY <1>3, <2>3, <2>4
<1>6. Len(t) < Len(todo)
  BY <1>1 DEF n
<1> QED
  BY <1>1, <1>4, <1>5, <1>6 DEF t

\* Requests that bring no others, put in front.
LEMMA PlainInFront ==
    ASSUME NEW d \in Seq(Plain), NEW todo \in Seq(Request), Single(todo)
    PROVE  d \o todo \in Seq(Request) /\ Single(d \o todo) /\ Longs(d \o todo) = Longs(todo)
<1> DEFINE u == d \o todo
           m == Len(d)
           n == Len(todo)
<1>1. d \in Seq(Request) /\ \A i \in 1 .. m : d[i] \in Plain
  BY DEF Plain
<1>2. /\ m \in Nat /\ n \in Nat /\ u \in Seq(Request) /\ Len(u) = m + n
      /\ \A i \in 1 .. m : u[i] = d[i]
      /\ \A i \in 1 .. n : u[m + i] = todo[i]
  BY <1>1, ConcatProperties
<1>3. DOMAIN u = 1 .. m + n /\ DOMAIN todo = 1 .. n
  BY <1>2
<1> HIDE DEF u, m, n
<1>4. ToSet(u) = {u[i] : i \in 1 .. m + n} /\ ToSet(todo) = {todo[i] : i \in 1 .. n}
  BY <1>3 DEF ToSet
<1>5. ASSUME NEW i \in 1 .. m + n, Long(u[i])
      PROVE  i - m \in 1 .. n /\ m + (i - m) = i /\ u[i] = todo[i - m]
  <2>1. CASE i <= m
    <3>1. i \in 1 .. m
      BY <1>2, <2>1
    <3> QED
      BY <1>1, <1>2, <1>5, <3>1 DEF Plain
  <2>2. CASE i > m
    <3>1. i - m \in 1 .. n /\ m + (i - m) = i
      BY <1>2, <2>2
    <3> QED
      BY <1>2, <3>1
  <2> QED
    BY <1>2, <2>1, <2>2
<1>6. ASSUME NEW i \in 1 .. m + n, NEW j \in 1 .. m + n, Long(u[i]), u[i] = u[j]
      PROVE  i = j
  <2>1. /\ i - m \in 1 .. n /\ u[i] = todo[i - m] /\ j - m \in 1 .. n /\ u[j] = todo[j - m]
    BY <1>5, <1>6
  <2>2. i - m = j - m
    BY <1>6, <2>1 DEF Single, n
  <2> QED
    BY <1>2, <2>2
<1>7. ASSUME NEW q, Long(q) PROVE q \in ToSet(u) <=> q \in ToSet(todo)
  <2>1. ASSUME NEW i \in 1 .. m + n, q = u[i] PROVE q \in ToSet(todo)
    <3>1. i - m \in 1 .. n /\ u[i] = todo[i - m]
      BY <1>5, <1>7, <2>1
    <3> QED
      BY <1>4, <2>1, <3>1
  <2>2. ASSUME NEW i \in 1 .. n, q = todo[i] PROVE q \in ToSet(u)
    <3>1. m + i \in 1 .. m + n /\ u[m + i] = todo[i]
      BY <1>2
    <3> QED
      BY <1>4, <2>2, <3>1
  <2> QED
    BY <1>4, <2>1, <2>2
<1>8. Single(u)
  BY <1>2, <1>6 DEF Single
<1> QED
  BY <1>2, <1>7, <1>8 DEF u, Longs

\* Requests that bring no others are asked for in any number.
LEMMA PlainAlone ==
    ASSUME NEW d \in Seq(Plain)
    PROVE  d \in Seq(Request) /\ Single(d) /\ Longs(d) = {}
<1>1. d \in Seq(Request) /\ \A i \in 1 .. Len(d) : d[i] \in Request /\ ~Long(d[i])
  BY DEF Plain
<1>2. ToSet(d) = {d[i] : i \in 1 .. Len(d)}
  <2>1. DOMAIN d = 1 .. Len(d)
    BY <1>1
  <2> QED
    BY <2>1 DEF ToSet
<1> QED
  BY <1>1, <1>2 DEF Single, Longs

\* So are details, gets, sets and calls.
LEMMA PlainRequests ==
    /\ \A n \in Name : Describe(n) \in Plain /\ Get(n) \in Plain
    /\ \A n \in Values, x \in Datum : Set(n, x) \in Plain
    /\ \A S \in SUBSET Name : \A kind : DetailsOf(S, kind) \in Seq(Plain)
<1>1. \A n \in Name : Describe(n) \in Plain /\ Get(n) \in Plain
  BY Simple DEF Describe, Get, Message, Plain, Long
<1>2. ASSUME NEW n \in Values, NEW x \in Datum PROVE Set(n, x) \in Plain
  <2>1. Set(n, x) \in Request /\ Set(n, x).op = "set"
    BY SimpleSet DEF Set, Message
  <2> QED
    BY <2>1 DEF Plain, Long
<1>3. ASSUME NEW S \in SUBSET Name, NEW kind PROVE DetailsOf(S, kind) \in Seq(Plain)
  BY <1>1, DetailsIn
<1> QED
  BY <1>1, <1>2, <1>3

\* A record whose requests are those to go on with.
Ready(r) == Working(r) /\ Single(r.todo) /\ Sought(r)

\* A shell that comes back to its prompt, ends or crashes has nothing to ask.
LEMMA PromptReady ==
    ASSUME NEW r \in Shells
    PROVE  /\ Ready(Prompt(r)) /\ Ready(Ended(r)) /\ Ready(Crashed(r))
           /\ Prompt(r).doing \in Quiet /\ Ended(r).doing \in Quiet /\ Crashed(r).doing \in Quiet
<1> DEFINE Rest == {"prompt", "ended", "crashed"}
<1>1. \A x \in Shells : x.doing \in Rest => Ready(x) /\ x.doing \in Quiet
  <2> SUFFICES ASSUME NEW x \in Shells, x.doing \in Rest PROVE Ready(x) /\ x.doing \in Quiet
    OBVIOUS
  <2>1. x.todo = <<>> /\ x.loading = Absent /\ x.doing \in Quiet /\ x.doing # "new"
    BY DEF Shells, Quiet, Typing
  <2> QED
    BY <2>1 DEF Ready, Working, Single, Sought
<1>2. Prompt(r).doing \in Rest /\ Ended(r).doing \in Rest /\ Crashed(r).doing \in Rest
  <2>1. Prompt(r) \in ShellFields
    BY PromptShells DEF Shells
  <2>2. Prompt(r).doing = "prompt"
    BY DEF Prompt, Shells, ShellFields
  <2> QED
    BY <2>1, <2>2 DEF Ended, Crashed, ShellFields
<1> QED
  BY <1>1, <1>2, PromptShells

\* A shell that has the node it was looking for.
LEMMA WithNodeReady ==
    ASSUME NEW r \in Shells, r.doing \in Typing, r.loading = Absent, NEW n \in Node
    PROVE  Ready(WithNode(r, n))
<1>1. ASSUME NEW d \in Seq(Plain), d # <<>>
      PROVE  Ready([r EXCEPT !.todo = d])
  <2>1. /\ [r EXCEPT !.todo = d].todo = d /\ [r EXCEPT !.todo = d].loading = Absent
        /\ [r EXCEPT !.todo = d].doing # "new"
    BY DEF Shells, ShellFields, Typing
  <2> QED
    BY <1>1, <2>1, PlainAlone DEF Ready, Working, Sought
<1>2. ASSUME NEW x \in Shells PROVE Ready(Prompt(x))
  BY PromptReady
<1>3. CASE r.doing = "cd"
  <2>1. [r EXCEPT !.path = n] \in Shells
    BY DEF Shells, ShellFields
  <2>2. WithNode(r, n) = Prompt([r EXCEPT !.path = n])
    BY <1>3 DEF WithNode
  <2> QED
    BY <1>2, <2>1, <2>2
<1>4. CASE r.doing = "pool"
  <2> DEFINE S == r.copy[n].names \cap Values
             pool == InSomeOrder(S)
             todo == [i \in 1 .. Len(pool) |-> Get(pool[i])]
  <2>1. S \in SUBSET Name
    BY DEF Values, Named
  <2>2. pool \in Seq(Name)
    <3>1. Cardinality(S) \in Nat /\ pool \in [1 .. Cardinality(S) -> Name]
      BY <2>1, FS_Subset, RequestsAssumption, Ordered
    <3> QED
      BY <3>1, SeqDef
  <2> HIDE DEF pool
  <2>3. \A i \in 1 .. Len(pool) : Get(pool[i]) \in Plain
    BY <2>2, PlainRequests
  <2>4. todo \in Seq(Plain) /\ Len(todo) = Len(pool)
    BY <2>2, <2>3
  <2>5. pool # <<>> => todo # <<>>
    BY <2>2, <2>4
  <2>6. WithNode(r, n) = IF pool = <<>> THEN Prompt(r) ELSE [r EXCEPT !.todo = todo]
    BY <1>4 DEF WithNode, WithPool, pool
  <2> HIDE DEF todo
  <2> QED
    BY <1>1, <1>2, <2>4, <2>5, <2>6
<1>5. CASE r.doing \in {"get", "set"}
  <2> DEFINE q == IF r.doing = "get" THEN Get(r.target) ELSE Set(r.target, r.typed)
             todo == <<q>>
  <2>1. q \in Plain
    <3>1. r.target \in Values /\ r.target \in Name /\ (r.doing = "set" => r.typed \in Datum)
      BY <1>5 DEF Shells, Values, Named
    <3>2. CASE r.doing = "get"
      BY <3>1, <3>2, PlainRequests
    <3>3. CASE r.doing = "set"
      BY <3>1, <3>3, PlainRequests
    <3> QED
      BY <1>5, <3>2, <3>3
  <2>2. WithNode(r, n) = IF r.target \notin r.copy[n].names THEN Prompt(r)
                         ELSE [r EXCEPT !.todo = todo]
    <3>1. r.doing # "cd" /\ r.doing # "pool"
      BY <1>5
    <3> QED
      BY <3>1 DEF WithNode, WithValue
  <2> HIDE DEF q
  <2>3. todo \in Seq(Plain) /\ todo # <<>>
    BY <2>1
  <2> HIDE DEF todo
  <2> QED
    BY <1>1, <1>2, <2>2, <2>3
<1> QED
  BY <1>3, <1>4, <1>5 DEF Typing

\* A shell that begins to download a node that is missing asks for eight lists.
LEMMA LoadReady ==
    ASSUME NEW r \in Shells, NEW n \in Node, r.doing # "new", ~r.copy[n].loaded
    PROVE  Ready(Load(r, n))
<1> DEFINE todo == [i \in 1 .. Len(Kinds) |-> ListNames(n, Kinds[i])]
           before == {i \in Name : In[i] = n /\ There(i)}
           x == [r EXCEPT !.loading = n, !.found = {}, !.todo = todo, !.before = before,
                          !.since = restarts]
<1>1. Load(r, n) = x
  BY DEF Load
<1>2. /\ Len(Kinds) = 8 /\ Kinds[1] = "bool" /\ Kinds[2] = "float" /\ Kinds[3] = "int"
      /\ Kinds[4] = "str" /\ Kinds[5] = "command" /\ Kinds[6] = "stream"
      /\ Kinds[7] = "frame" /\ Kinds[8] = "child"
  BY DEF Kinds
<1>3. \A i, j \in 1 .. 8 : Kinds[i] = Kinds[j] => i = j
  <2> SUFFICES ASSUME NEW i \in 1 .. 8, NEW j \in 1 .. 8, Kinds[i] = Kinds[j] PROVE i = j
    OBVIOUS
  <2>1. i \in {1, 2, 3, 4, 5, 6, 7, 8} /\ j \in {1, 2, 3, 4, 5, 6, 7, 8}
    OBVIOUS
  <2> QED
    BY <1>2, <2>1
<1>4. /\ todo # <<>> /\ Len(todo) = 8
      /\ \A i \in 1 .. 8 : todo[i] = ListNames(n, Kinds[i])
  BY <1>2
<1>5. \A i, j \in 1 .. 8 : todo[i] = todo[j] => i = j
  <2> SUFFICES ASSUME NEW i \in 1 .. 8, NEW j \in 1 .. 8, todo[i] = todo[j] PROVE i = j
    OBVIOUS
  <2>1. todo[i].arg = Kinds[i] /\ todo[j].arg = Kinds[j]
    BY <1>4 DEF ListNames, Message
  <2> QED
    BY <1>3, <2>1
<1>6. Single(todo)
  BY <1>4, <1>5 DEF Single
<1> HIDE DEF todo, before
<1>7. /\ x.todo = todo /\ x.loading = n /\ x.doing = r.doing /\ x.copy = r.copy
  BY DEF Shells, ShellFields
<1>8. Sought(x)
  BY <1>7 DEF Sought
<1> QED
  BY <1>1, <1>4, <1>6, <1>7, <1>8 DEF Ready, Working

\* A shell that goes on with what was typed.
LEMMA GoOnReady ==
    ASSUME NEW r \in Shells, r.doing \in Typing, r.loading = Absent
    PROVE  Ready(GoOn(r))
<1>1. NodeOf(r) \in Node /\ r.doing # "new"
  BY NodeOfShells DEF Typing
<1>2. \/ GoOn(r) \in {Prompt(r), Crashed(r)}
      \/ GoOn(r) = WithNode(r, NodeOf(r))
      \/ \E m \in Node : ~r.copy[m].loaded /\ GoOn(r) = Load(r, m)
  BY <1>1, GoesOnWith DEF Lacking, Missing
<1>3. \A m \in Node : ~r.copy[m].loaded => Ready(Load(r, m))
  BY <1>1, LoadReady
<1> QED
  BY <1>1, <1>2, <1>3, WithNodeReady, PromptReady

\* What an answer leaves to ask for, by the record it was asked with.
FewerLists(x, r, l) ==
    /\ x.copy = r.copy /\ x.loading = r.loading
    /\ \/ Fewer(Longs(x.todo), Ahead(r, l))
       \/ Longs(x.todo) = Ahead(r, l) /\ x.todo = r.todo

\* A shell that reads an answer.
LEMMA ToldReady ==
    ASSUME NEW r \in Shells, r.doing \notin Quiet, NEW l \in Lines, l.at = "answered", Once(r, l)
    PROVE  LET x == Told(r, l.req, l.reply)
           IN  x \in Shells /\ x.doing = r.doing /\ Single(x.todo) /\ Sought(x) /\ FewerLists(x, r, l)
<1> DEFINE req == l.req
           reply == l.reply
           x == Told(r, req, reply)
<1>1. /\ req \in Request /\ reply \in Replies /\ reply.names \in SUBSET Name
      /\ Asking(l) = {req} /\ r \in ShellFields /\ r.todo \in Seq(Request)
  BY DEF Lines, Replies, Asking, Shells, ShellFields
<1>2. x \in Shells
  BY <1>1, ToldShells
<1>3. Single(r.todo) /\ Sought(r) /\ (Long(req) => req \notin ToSet(r.todo) /\ req \in Ahead(r, l))
  BY <1>1 DEF Once, Ahead
<1>4. Longs(r.todo) \subseteq Ahead(r, l) /\ (Long(req) => req \notin Longs(r.todo))
      /\ (~Long(req) => Ahead(r, l) = Longs(r.todo))
  BY <1>1, <1>3 DEF Ahead, Longs
<1>5. CASE req.op = "list"
  <2> DEFINE todo == DetailsOf(reply.names, req.arg) \o r.todo
             found == r.found \cup reply.names
  <2>1. DetailsOf(reply.names, req.arg) \in Seq(Plain)
    BY <1>1, PlainRequests
  <2>2. Single(todo) /\ Longs(todo) = Longs(r.todo)
    BY <1>1, <1>3, <2>1, PlainInFront
  <2>3. x = [r EXCEPT !.found = found, !.todo = todo]
    BY <1>5 DEF Told
  <2> HIDE DEF todo, found
  <2>4. /\ x.todo = todo /\ x.loading = r.loading /\ x.doing = r.doing
        /\ x.copy = r.copy
    BY <1>1, <2>3 DEF ShellFields
  <2> HIDE DEF x
  <2>5. Sought(x)
    BY <1>3, <2>4 DEF Sought
  <2>6. Fewer(Longs(x.todo), Ahead(r, l))
    BY <1>3, <1>4, <1>5, <2>2, <2>4 DEF Fewer, Long
  <2> QED
    BY <1>2, <2>2, <2>4, <2>5, <2>6 DEF FewerLists, x
<1>6. CASE req.op = "all"
  <2> DEFINE todo == DetailsOf(reply.names, "command")
  <2>1. todo \in Seq(Plain)
    BY <1>1, PlainRequests
  <2>2. Single(todo) /\ Longs(todo) = {}
    BY <2>1, PlainAlone
  <2>3. x = [r EXCEPT !.todo = todo]
    <3>1. req.op # "list"
      BY <1>6
    <3> QED
      BY <1>6, <3>1 DEF Told
  <2> HIDE DEF todo
  <2>4. /\ x.todo = todo /\ x.loading = r.loading /\ x.doing = r.doing
        /\ x.copy = r.copy
    BY <1>1, <2>3 DEF ShellFields
  <2> HIDE DEF x
  <2>5. Sought(x)
    BY <1>3, <2>4 DEF Sought
  <2>6. Fewer(Longs(x.todo), Ahead(r, l))
    BY <1>3, <1>6, <2>2, <2>4 DEF Fewer, Long
  <2> QED
    BY <1>2, <2>2, <2>4, <2>5, <2>6 DEF FewerLists, x
<1>7. CASE ~Long(req)
  <2>1. req.op # "list" /\ req.op # "all"
    BY <1>7 DEF Long
  <2> DEFINE remote == r.remote \cup {req.name}
  <2>2. x = [r EXCEPT !.remote = remote] \/ x = r
    BY <2>1 DEF Told
  <2> HIDE DEF remote
  <2>3. /\ x.todo = r.todo /\ x.loading = r.loading /\ x.doing = r.doing
        /\ x.copy = r.copy
    BY <1>1, <2>2 DEF ShellFields
  <2> HIDE DEF x
  <2>4. Sought(x)
    BY <1>3, <2>3 DEF Sought
  <2> QED
    BY <1>2, <1>3, <1>4, <1>7, <2>3, <2>4 DEF FewerLists, x
<1> QED
  BY <1>5, <1>6, <1>7 DEF Long

\* A shell that has no more to ask has its node, and goes on with one more.
LEMMA CompletedReady ==
    ASSUME NEW r \in Shells, r.doing \notin Quiet, r.todo = <<>>, Sought(r), restarts \in Nat
    PROVE  /\ Ready(Completed(r))
           /\ Completed(r).doing \notin Quiet => Grown(r.copy, Completed(r).copy)
<1> DEFINE whole == [r EXCEPT !.copy[r.loading] = Loaded(r.found), !.loading = Absent,
                              !.found = {}, !.before = {}, !.since = 0]
<1>1. CASE r.loading = Absent
  BY <1>1, PromptReady DEF Completed
<1>2. CASE r.loading # Absent
  <2>1. /\ r.loading \in Node /\ Loaded(r.found) \in [loaded : BOOLEAN, names : SUBSET Name]
        /\ Loaded(r.found).loaded
    BY <1>2 DEF Loaded, Shells, ShellFields
  <2>2. /\ whole \in Shells /\ whole.doing = r.doing /\ whole.loading = Absent
        /\ \A n \in Node : whole.copy[n] = IF n = r.loading THEN Loaded(r.found) ELSE r.copy[n]
    BY <1>2, <2>1 DEF Shells, ShellFields
  <2>6. Grown(r.copy, whole.copy)
    BY <1>2, <2>1, <2>2 DEF Grown, Sought
  <2>3. Completed(r) = IF Syncing(r) THEN [whole EXCEPT !.remote = {}, !.todo = <<ListAllCommands>>]
                       ELSE GoOn(whole)
    BY <1>2 DEF Completed
  <2> HIDE DEF whole
  <2>4. CASE Syncing(r)
    <3> DEFINE todo == <<ListAllCommands>>
    <3>1. todo # <<>> /\ Single(todo)
      BY DEF Single
    <3> HIDE DEF todo
    <3>2. Completed(r) = [whole EXCEPT !.remote = {}, !.todo = todo]
      BY <2>3, <2>4 DEF todo
    <3>3. /\ Completed(r).todo = todo /\ Completed(r).loading = Absent
          /\ Completed(r).copy = whole.copy /\ Completed(r).doing # "new"
      BY <2>2, <2>4, <3>2 DEF Shells, ShellFields, Syncing
    <3> QED
      BY <2>6, <3>1, <3>3 DEF Ready, Working, Sought
  <2>5. CASE ~Syncing(r)
    <3>1. r.doing \in Typing
      BY <1>2, <2>5 DEF Shells, Syncing
    <3>2. Ready(GoOn(whole)) /\ GoOn(whole).copy = whole.copy
      BY <2>2, <3>1, GoOnReady, GoOnWhole
    <3> QED
      BY <2>3, <2>5, <2>6, <3>2
  <2> QED
    BY <2>4, <2>5
<1> QED
  BY <1>1, <1>2

\* A record that is ready, once its first request is sent.
LEMMA ContinueReady ==
    ASSUME LinesOK, ShellsOK, NEW s \in Shell, NEW r \in Shells, Continue(s, r), Ready(r)
    PROVE  /\ Once(shell'[s], line'[s])
           /\ shell'[s].doing = r.doing /\ shell'[s].copy = r.copy
           /\ r.doing \notin Quiet => /\ line'[s].at = "asked"
                                      /\ Ahead(shell'[s], line'[s]) = Longs(r.todo)
                                      /\ Len(shell'[s].todo) < Len(r.todo)
<1> s \in Client
  BY ShellAssumption
<1>1. CASE r.todo = <<>>
  <2>1. shell'[s] = r /\ line'[s] = Idle /\ Asking(Idle) = {} /\ r.doing \in Quiet
    BY <1>1 DEF Continue, ShellsOK, LinesOK, Idle, Asking, Ready, Working
  <2> QED
    BY <2>1 DEF Once, Ready
<1>2. CASE r.todo # <<>>
  <2> DEFINE t == Tail(r.todo)
             q == Head(r.todo)
             x == [r EXCEPT !.todo = t]
  <2>1. /\ Len(t) < Len(r.todo) /\ ToSet(r.todo) = {q} \cup ToSet(t)
        /\ Single(t) /\ (Long(q) => q \notin ToSet(t))
    BY <1>2, FirstAndRest DEF Ready, Shells, ShellFields
  <2>2. shell'[s] = x /\ line'[s] = Asked(q)
    BY <1>2 DEF Continue, ShellsOK, LinesOK
  <2> HIDE DEF t, q
  <2>3. /\ x.todo = t /\ x.doing = r.doing /\ x.loading = r.loading
        /\ x.copy = r.copy
    BY DEF Shells, ShellFields
  <2> HIDE DEF x
  <2>4. Asking(Asked(q)) = {q} /\ Asked(q).at = "asked"
    BY DEF Asked, Asking
  <2>5. Sought(x)
    BY <2>3 DEF Ready, Sought
  <2>6. Once(x, Asked(q))
    BY <2>1, <2>3, <2>4, <2>5 DEF Once
  <2>7. Ahead(x, Asked(q)) = Longs(r.todo)
    BY <2>1, <2>3, <2>4 DEF Ahead, Longs
  <2> QED
    BY <2>1, <2>2, <2>3, <2>4, <2>6, <2>7
<1> QED
  BY <1>1, <1>2
\* Whatever is typed leaves the shell a record that is ready.
LEMMA TypedReady ==
    ASSUME RequestsOK, ShellsOK, NEW s \in Shell, Once(shell[s], line[s]),
           Sync(s) \/ ChangePath(s) \/ GetOrSet(s) \/ Pool(s) \/ Remote(s)
    PROVE  shell[s].doing \in Quiet /\ \E r \in Shells : Continue(s, r) /\ Ready(r)
<1> shell[s] \in Shells /\ Root \in Node /\ Root \in AnyName /\ restarts \in Nat
  BY DEF RequestsOK, ShellsOK, Node, AnyName
<1> DEFINE t == shell[s]
<1>0. /\ t.doing \in {"new", "prompt"}
      /\ t.loading = Absent
  <2>1. t.doing \in {"new", "prompt"}
    BY DEF Sync, ChangePath, GetOrSet, Pool, Remote, AtPrompt
  <2> QED
    BY <2>1 DEF Shells, Typing
<1> SUFFICES \E r \in Shells : Continue(s, r) /\ Ready(r)
  BY <1>0 DEF Quiet
<1>1. ASSUME NEW doing \in Doings \ {"set"}, NEW target \in AnyName,
             doing = "cd" => target \in Node, doing = "get" => target \in Values
      PROVE  /\ Typed(s, doing, target) \in Shells
             /\ Typed(s, doing, target).doing = doing /\ Typed(s, doing, target).loading = Absent
  <2>1. Typed(s, doing, target) \in Shells /\ Typed(s, doing, target).doing = doing
    BY <1>0, <1>1, TypedShells
  <2> QED
    BY <1>0, <2>1 DEF Typed, Shells, ShellFields
<1>2. ASSUME NEW r \in Shells, r.doing \in Typing, r.loading = Absent, Continue(s, GoOn(r))
      PROVE  \E x \in Shells : Continue(s, x) /\ Ready(x)
  BY <1>2, GoOnShells, GoOnReady
<1>3. CASE Sync(s)
  <2>1. CASE t.doing = "new"
    <3> DEFINE r == Typed(s, "start", Root)
    <3>1. r \in Shells /\ r.doing = "start"
      BY <1>1, <2>1 DEF Doings
    <3>3. ~r.copy[Root].loaded
      <4>1. ~t.copy[Root].loaded
        BY <2>1 DEF Once, Sought
      <4> QED
        BY <4>1 DEF Typed, Shells, ShellFields
    <3>2. Continue(s, Load(r, Root))
      BY <1>3, <2>1 DEF Sync, AtPrompt
    <3> HIDE DEF r
    <3> QED
      BY <3>1, <3>2, <3>3, LoadShells, LoadReady
  <2>2. CASE AtPrompt(s) /\ Tree(t).loaded
    <3> DEFINE r == Typed(s, "sync", Root)
    <3>1. r \in Shells /\ r.doing = "sync"
      BY <1>1, <2>2 DEF Doings, AtPrompt
    <3>2. Continue(s, Load(Forgotten(r), Root))
      BY <1>3, <2>2 DEF Sync, AtPrompt
    <3> HIDE DEF r
    <3>3. /\ Forgotten(r) \in Shells /\ Forgotten(r).doing = "sync"
          /\ ~Forgotten(r).copy[Root].loaded
      BY <3>1 DEF Forgotten, Shells, ShellFields, NotLoaded
    <3> QED
      BY <3>2, <3>3, LoadShells, LoadReady
  <2>3. CASE AtPrompt(s) /\ ~Tree(t).loaded
    <3>1. Continue(s, Crashed(t))
      BY <1>3, <2>3 DEF Sync, AtPrompt
    <3> QED
      BY <3>1, PromptShells, PromptReady
  <2> QED
    BY <1>3, <2>1, <2>2, <2>3 DEF Sync
<1>4. CASE ChangePath(s)
  <2>1. PICK n \in Node : Continue(s, GoOn(Typed(s, "cd", n)))
    BY <1>4 DEF ChangePath
  <2>2. n \in AnyName
    BY DEF Node, AnyName
  <2> DEFINE r == Typed(s, "cd", n)
  <2>3. r \in Shells /\ r.doing \in Typing /\ r.loading = Absent
    BY <1>1, <2>2 DEF Doings, Typing
  <2> HIDE DEF r
  <2> QED
    BY <1>2, <2>1, <2>3 DEF r
<1>5. CASE GetOrSet(s)
  <2>1. PICK v \in Values :
            \/ Continue(s, GoOn(Typed(s, "get", v)))
            \/ \E x \in TypedData : Continue(s, GoOn([Typed(s, "set", v) EXCEPT !.typed = x]))
    BY <1>5 DEF GetOrSet
  <2>2. v \in AnyName /\ AtPrompt(s)
    BY <1>5 DEF AnyName, GetOrSet, Values, Named
  <2>3. CASE Continue(s, GoOn(Typed(s, "get", v)))
    <3> DEFINE r == Typed(s, "get", v)
    <3>1. r \in Shells /\ r.doing \in Typing /\ r.loading = Absent
      BY <1>1, <2>2 DEF Doings, Typing
    <3> HIDE DEF r
    <3> QED
      BY <1>2, <2>3, <3>1 DEF r
  <2>4. CASE \E x \in TypedData : Continue(s, GoOn([Typed(s, "set", v) EXCEPT !.typed = x]))
    <3>1. PICK x \in TypedData : Continue(s, GoOn([Typed(s, "set", v) EXCEPT !.typed = x]))
      BY <2>4
    <3> DEFINE r == [Typed(s, "set", v) EXCEPT !.typed = x]
    <3>2. r \in Shells /\ r.doing = "set"
      BY <2>2, TypedSet, ShellAssumption
    <3>3. r.loading = t.loading
      BY DEF Typed, Shells, ShellFields
    <3> HIDE DEF r
    <3>4. r.doing \in Typing /\ r.loading = Absent
      BY <1>0, <3>2, <3>3 DEF Typing
    <3> QED
      BY <1>2, <3>1, <3>2, <3>4 DEF r
  <2> QED
    BY <2>1, <2>3, <2>4
<1>6. CASE Pool(s)
  <2> DEFINE r == Typed(s, "pool", Root)
  <2>1. Continue(s, GoOn(r))
    BY <1>6 DEF Pool
  <2>2. r \in Shells /\ r.doing \in Typing /\ r.loading = Absent
    BY <1>1 DEF Doings, Typing
  <2> HIDE DEF r
  <2> QED
    BY <1>2, <2>1, <2>2
<1>7. CASE Remote(s)
  <2>1. PICK c \in t.remote :
            Continue(s, [Typed(s, "call", c) EXCEPT !.todo = <<CallCommand(c)>>])
    BY <1>7 DEF Remote
  <2>2. c \in AnyName
    BY DEF Shells, ShellFields
  <2> DEFINE todo == <<CallCommand(c)>>
             r == Typed(s, "call", c)
  <2>3. todo \in Seq(Plain) /\ todo # <<>>
    <3>1. CallCommand(c) \in Plain
      BY <2>2 DEF CallCommand, Message, Request, Operations, Content, Plain, Long
    <3> QED
      BY <3>1
  <2>4. r \in Shells /\ r.doing = "call" /\ r.loading = Absent
    BY <1>1, <2>2 DEF Doings
  <2> HIDE DEF todo, r
  <2>5. todo \in Seq(Request) /\ Single(todo)
    BY <2>3, PlainAlone
  <2> DEFINE x == [r EXCEPT !.todo = todo]
  <2>6. x \in Shells /\ x.todo = todo /\ x.loading = Absent /\ x.doing # "new"
    BY <2>4, <2>5 DEF Shells, ShellFields, Quiet
  <2>7. Ready(x)
    BY <2>3, <2>5, <2>6 DEF Ready, Working, Sought
  <2> QED
    BY <2>1, <2>6, <2>7 DEF todo, r
<1> QED
  BY <1>3, <1>4, <1>5, <1>6, <1>7

\* An answer leaves it one that is nearer to the end.
LEMMA ReplyReady ==
    ASSUME RequestsOK, ShellsOK, QuietOK, NEW s \in Shell, OnReply(s), Once(shell[s], line[s])
    PROVE  /\ shell[s].doing \notin Quiet
           /\ \E r \in Shells :
                 /\ Continue(s, r) /\ Ready(r)
                 /\ r.doing \notin Quiet => \/ Grown(shell[s].copy, r.copy)
                                            \/ FewerLists(r, shell[s], line[s])
<1> DEFINE t == shell[s]
           r == Told(t, line[s].req, line[s].reply)
<1>1. line[s] \in Lines /\ line[s].at = "answered" /\ t.doing \notin Quiet /\ t \in Shells
      /\ restarts \in Nat
  BY ShellAssumption DEF RequestsOK, LinesOK, ShellsOK, OnReply, QuietOK, IsIdle
<1>2. Continue(s, IF line[s].reply.kind = "error" THEN Failed(t)
                  ELSE IF r.todo = <<>> THEN Completed(r) ELSE r)
  BY DEF OnReply
<1>3. Failed(t) \in Shells /\ Ready(Failed(t)) /\ Failed(t).doing \in Quiet
  <2>1. Failed(t) \in {Prompt(t), Ended(t), Crashed(t)}
    <3>1. CASE t.doing = "start"
      BY <3>1 DEF Failed
    <3>2. CASE t.doing # "start" /\ t.doing = "get" /\ t.loading # Absent
      BY <3>2 DEF Failed
    <3>3. CASE t.doing # "start" /\ ~(t.doing = "get" /\ t.loading # Absent)
      BY <3>3 DEF Failed
    <3> QED
      BY <3>1, <3>2, <3>3
  <2> QED
    BY <1>1, <2>1, FailedShells, PromptReady
<1>4. /\ r \in Shells /\ r.doing = t.doing /\ Single(r.todo) /\ Sought(r)
      /\ FewerLists(r, t, line[s])
  BY <1>1, ToldReady
<1> HIDE DEF r
<1>5. r.copy = t.copy
  BY <1>4 DEF FewerLists
<1>6. CASE line[s].reply.kind = "error"
  BY <1>1, <1>2, <1>3, <1>6
<1>7. CASE line[s].reply.kind # "error" /\ r.todo = <<>>
  <2>1. /\ Completed(r) \in Shells /\ Ready(Completed(r))
        /\ Completed(r).doing \notin Quiet => Grown(r.copy, Completed(r).copy)
    BY <1>1, <1>4, <1>7, CompletedShells, CompletedReady
  <2> QED
    BY <1>1, <1>2, <1>5, <1>7, <2>1
<1>8. CASE line[s].reply.kind # "error" /\ r.todo # <<>>
  <2>1. Ready(r)
    BY <1>4, <1>8 DEF Ready, Working
  <2> QED
    BY <1>1, <1>2, <1>4, <1>8, <2>1
<1> QED
  BY <1>6, <1>7, <1>8

\* A step of a shell leaves it waiting for an answer or at rest, and what was typed nearer
\* to its end.
LEMMA ShellGoesOn ==
    ASSUME RequestsOK, ShellsOK, QuietOK, NEW s \in Shell, ShellStep(s), Once(shell[s], line[s])
    PROVE  /\ Once(shell'[s], line'[s])
           /\ shell'[s].doing \notin Quiet => line'[s].at # "idle"
           /\ shell[s].doing \notin Quiet /\ shell'[s].doing \notin Quiet => Nearer(s)
<1> LinesOK
  BY DEF RequestsOK
<1>1. CASE Sync(s) \/ ChangePath(s) \/ GetOrSet(s) \/ Pool(s) \/ Remote(s)
  <2>1. PICK r \in Shells : Continue(s, r) /\ Ready(r)
    BY <1>1, TypedReady
  <2> QED
    BY <1>1, <2>1, TypedReady, ContinueReady
<1>2. CASE OnReply(s)
  <2>1. PICK r \in Shells :
            /\ Continue(s, r) /\ Ready(r)
            /\ r.doing \notin Quiet => \/ Grown(shell[s].copy, r.copy)
                                       \/ FewerLists(r, shell[s], line[s])
    BY <1>2, ReplyReady
  <2>2. /\ Once(shell'[s], line'[s])
        /\ shell'[s].doing = r.doing /\ shell'[s].copy = r.copy
        /\ r.doing \notin Quiet => /\ line'[s].at = "asked"
                                   /\ Ahead(shell'[s], line'[s]) = Longs(r.todo)
                                   /\ Len(shell'[s].todo) < Len(r.todo)
    BY <2>1, ContinueReady
  <2>3. r.doing \notin Quiet => Nearer(s)
    BY <2>1, <2>2 DEF Nearer, FewerLists
  <2> QED
    BY <2>2, <2>3
<1> QED
  BY <1>1, <1>2 DEF ShellStep
\* A request stays as it is, or is taken, answered or lost.
Moves(l, m) == m = l \/ (Stage(m) < Stage(l) /\ Asking(m) \subseteq Asking(l) /\ m.at # "idle")

\* That is all that happens to the request of a shell, but for what the shell does.
LEMMA OthersMove ==
    ASSUME RequestsOK, NEW s \in Shell,
           \/ \E c \in Client : ServerTakes(c) \/ ServerActs(c) \/ ServerEndsCall(c)
           \/ \E c \in Client \ Shell : Program(c)
           \/ Robot \/ OtherThread \/ Others \/ ProgramRestarts
    PROVE  shell' = shell /\ Moves(line[s], line'[s])
<1> LinesOK /\ s \in Client
  BY ShellAssumption DEF RequestsOK
<1>1. ASSUME NEW c \in Client, ServerTakes(c)
      PROVE  shell' = shell /\ Moves(line[s], line'[s])
  <2>1. CASE s # c
    BY <1>1, <2>1 DEF ServerTakes, Begin, BeginConcurrently, LinesOK, Moves
  <2>2. CASE s = c
    <3>1. line[s].at = "asked" /\ line'[s] = [line[s] EXCEPT !.at = "taken"]
      BY <1>1, <2>2 DEF ServerTakes, Begin, BeginConcurrently, LinesOK
    <3>2. line[s] \in [at : {"asked"}, req : Request]
      BY <3>1 DEF LinesOK, Lines
    <3>3. line'[s].at = "taken" /\ line'[s].req = line[s].req
      BY <3>1, <3>2
    <3> QED
      BY <1>1, <3>1, <3>3 DEF ServerTakes, Moves, Stage, Asking
  <2> QED
    BY <2>1, <2>2
<1>2. ASSUME NEW c \in Client, ServerActs(c) \/ ServerEndsCall(c)
      PROVE  shell' = shell /\ Moves(line[s], line'[s])
  <2>1. Taken(c) /\ (line' = line \/ \E reply : Answer(c, reply)) /\ shell' = shell
    BY <1>2, ServerTouches DEF ServerActs, ServerEndsCall
  <2>2. CASE line'[s] = line[s]
    BY <2>1, <2>2 DEF Moves
  <2>3. ASSUME s = c, NEW reply, Answer(c, reply) PROVE Moves(line[s], line'[s])
    <3>1. line[s].at = "taken" /\ line'[s].at = "answered" /\ line'[s].req = line[s].req
      BY <2>1, <2>3 DEF Answer, Taken, LinesOK
    <3> QED
      BY <3>1 DEF Moves, Stage, Asking
  <2>4. ASSUME s # c, NEW reply, Answer(c, reply) PROVE line'[s] = line[s]
    BY <2>4 DEF Answer, LinesOK
  <2> QED
    BY <2>1, <2>2, <2>3, <2>4
<1>3. ASSUME NEW c \in Client \ Shell, Program(c)
      PROVE  shell' = shell /\ Moves(line[s], line'[s])
  BY <1>3 DEF Program, Send, Receive, LinesOK, Moves
<1>4. ASSUME Robot \/ OtherThread \/ Others
      PROVE  shell' = shell /\ Moves(line[s], line'[s])
  BY <1>4 DEF Robot, OtherThread, Others, Moves
<1>5. ASSUME ProgramRestarts
      PROVE  shell' = shell /\ Moves(line[s], line'[s])
  <2>1. shell' = shell /\ (line'[s] = line[s] \/ (~IsIdle(s) /\ line'[s] = [at |-> "lost"]))
    BY <1>5, RestartTyped DEF ProgramRestarts
  <2>2. CASE ~IsIdle(s) /\ line[s].at # "lost" /\ line'[s] = [at |-> "lost"]
    <3>1. line[s].at \in {"asked", "taken", "answered"} /\ line'[s].at = "lost"
      BY <2>2, LineShape DEF IsIdle
    <3> QED
      BY <2>1, <3>1 DEF Moves, Stage, Asking
  <2>3. CASE line[s].at = "lost" /\ line'[s] = [at |-> "lost"]
    <3>1. line[s] = [at |-> "lost"]
      BY <2>3 DEF LinesOK, Lines
    <3> QED
      BY <2>1, <2>3, <3>1 DEF Moves
  <2> QED
    BY <2>1, <2>2, <2>3 DEF Moves
<1> QED
  BY <1>1, <1>2, <1>3, <1>4, <1>5

\* No shell has asked for anything at the beginning.
LEMMA InitOnce == Init => OnceInv /\ BusyWaits
<1> SUFFICES ASSUME Init, NEW s \in Shell PROVE Once(shell[s], line[s]) /\ ~Busy(s)
  BY DEF OnceInv, BusyWaits
<1>1. line[s].at = "idle" /\ shell[s] = NewShell
  BY ShellAssumption DEF Init, RequestsInit, ShellInit, Idle
<1>2. /\ NewShell.todo = <<>> /\ NewShell.doing = "new" /\ NewShell.loading = Absent
      /\ ~NewShell.copy[Root].loaded
  BY DEF NewShell, NotLoaded, Node
<1> QED
  BY <1>1, <1>2 DEF Once, Single, Sought, Asking, Busy, Typing

\* Every step keeps the shells at work waiting for an answer, and brings none of them
\* further from its end.
LEMMA NextGoesOn ==
    IInv /\ OnceInv /\ BusyWaits /\ [Next]_vars => OnceInv' /\ BusyWaits' /\ Progress
<1> DEFINE Goes(s) == /\ Once(shell'[s], line'[s])
                      /\ shell'[s].doing \notin Quiet => line'[s].at # "idle"
                      /\ shell[s].doing \notin Quiet /\ shell'[s].doing \notin Quiet
                            => Nearer(s) \/ (shell'[s] = shell[s] /\ Moves(line[s], line'[s]))
<1> SUFFICES ASSUME IInv, OnceInv, BusyWaits, [Next]_vars, NEW s \in Shell PROVE Goes(s)
  BY DEF OnceInv, Once, Sought, BusyWaits, Busy, Quiet, IsIdle, Progress, Moves
<1> /\ RequestsOK /\ ShellsOK /\ QuietOK /\ LinesOK /\ s \in Client /\ restarts \in Nat
    /\ Once(shell[s], line[s]) /\ (shell[s].doing \notin Quiet => line[s].at # "idle")
  BY ShellAssumption DEF IInv, RequestsOK, OnceInv, BusyWaits, Busy, Quiet, IsIdle
<1>1. ASSUME shell'[s] = shell[s], Moves(line[s], line'[s]) PROVE Goes(s)
  BY <1>1 DEF Moves, Once
<1>2. ASSUME NEW t \in Shell, User(t) PROVE Goes(s)
  <2>1. CASE s = t
    BY <1>2, <2>1, ShellGoesOn DEF User
  <2>2. CASE s # t
    <3>1. \E x \in Shells : Continue(t, x)
      BY <1>2, UserContinues DEF User
    <3>2. line'[s] = line[s] /\ shell'[s] = shell[s]
      BY <2>2, <3>1 DEF Continue, LinesOK, ShellsOK
    <3> QED
      BY <1>1, <3>2 DEF Moves
  <2> QED
    BY <2>1, <2>2
<1>3. CASE \/ \E c \in Client : ServerTakes(c) \/ ServerActs(c) \/ ServerEndsCall(c)
           \/ \E c \in Client \ Shell : Program(c)
           \/ Robot \/ OtherThread \/ Others \/ ProgramRestarts
  BY <1>1, <1>3, OthersMove
<1>4. CASE UNCHANGED vars
  BY <1>1, <1>4 DEF vars, requestVars, Moves
<1> QED
  BY <1>2, <1>3, <1>4 DEF Next

\* The server has what it needs to go on with the request it has taken.
LEMMA ServerCan == RequestsOK => ServerGoesOn
<1> SUFFICES ASSUME RequestsOK, serving # "nobody", inserting = Absent
             PROVE  \E c \in Client : Taken(c) /\ CanServe(c)
  BY DEF ServerGoesOn, RequestsOK, ServingOK
<1>1. PICK c \in Client : Taken(c)
  BY DEF RequestsOK, ServingOK
<1>2. line[c].req \in Request /\ line[c].req.op \in Operations
  BY <1>1, LineShape DEF RequestsOK, Taken, Request
<1>3. \A n : CanLookUp(n) /\ ~Growing(n)
  BY DEF CanLookUp, Growing
<1>4. walk.listed => walk.queue # <<>>
  BY DEF RequestsOK, WalkOK
<1> QED
  BY <1>1, <1>2, <1>3, <1>4 DEF CanServe, RequestsOK, ServingOK

\* The safety part of commands that end: a shell at work always has a request on its way,
\* at the server, answered or lost; the server always has the means to go on with what it
\* took, or waits for a child that is being put into its node; and while what was typed is not done each step leaves it as it is, moves its
\* request on, or brings it nearer to its end, in an order that goes down only so often.
\* What is left is that those steps are taken.
THEOREM Ending == Spec => [](BusyWaits /\ ServerGoesOn) /\ [][Progress]_vars
<1>1. IInv => ServerGoesOn
  BY ServerCan DEF IInv
<1> QED
  BY <1>1, InitIInv, NextKeeps, InitOnce, NextGoesOn, PTL DEF Spec
==============================================================================
