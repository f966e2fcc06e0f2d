------------------------------- MODULE Requests -------------------------------
(***************************************************************************)
(* The request server of the robot (Server/src/ServerRep.cpp) and its      *)
(* clients (Client/src/ClientReq.cpp): one REQ socket per client, one REP  *)
(* thread that looks a name up, acts and answers, one request at a time.   *)
(*                                                                         *)
(* The tree it serves is the content of the names: values, commands,       *)
(* streams, frames and children, each in a node, to any depth.  Nothing is *)
(* ever removed but by the death of the program.  Each node has a mutex,   *)
(* and so most accesses are single steps.  Two are not: a child is put     *)
(* into its parent's map while that map may be read without its mutex, for *)
(* a name is looked up with that of the root only; and the listing of all  *)
(* commands goes from node to node.  What the requests are for is left to  *)
(* the modules that extend this one: ShellTree, Bind and Robot.            *)
(***************************************************************************)
EXTENDS Integers, Sequences, SequencesExt, FiniteSets

CONSTANTS Client,       \* whoever has a ClientReq
          Name, Root,   \* the names of the tree, and the node it hangs on
          Kind, In,     \* per name: what it is, and the node it is in
          Path,         \* per name, and for the root: the nodes from the root to it
          Datum,        \* what values hold
          Absent,       \* the content of a name that is not there
          Fragile,      \* the values whose callback, and the commands that, may throw
          MaxRestarts   \* bound: restarts of the robot program

\* As a node is downloaded.
Kinds == <<"bool", "float", "int", "str", "command", "stream", "frame", "child">>
Types == {"bool", "float", "int", "str"}

Node == {Root} \cup {n \in Name : Kind[n] = "child"}

\* A name is the path to it.
PathAssumption ==
    /\ Path \in [Name \cup {Root} -> Seq(Node)] /\ Path[Root] = <<>>
    /\ \A n \in Name :
          /\ Path[n] = Append(Path[In[n]], In[n]) /\ Path[n][1] = Root
          /\ \A i \in 2 .. Len(Path[n]) : Path[n][i] # Root /\ In[Path[n][i]] = Path[n][i - 1]

ASSUME RequestsAssumption ==
    /\ IsFiniteSet(Name) /\ Root \notin Name
    /\ Kind \in [Name -> ToSet(Kinds)]
    /\ In \in [Name -> Name \cup {Root}]
    /\ \A n \in Name : In[n] # Root => Kind[In[n]] = "child"
    /\ PathAssumption
    /\ Absent \notin Datum /\ Absent \notin Name /\ Absent # Root /\ 0 \in Datum
    /\ Fragile \subseteq Name
    /\ MaxRestarts \in Nat

VARIABLES content,  \* per name: its datum (0 if it is no value), or Absent
          line,     \* per client: its request and its answer
          serving,  \* what the server thread knows of the request it has taken
          walk,     \* its variables while it lists all commands
          inserting,  \* the child that the program puts into its parent's map, or Absent
          restarts,
          misled    \* a history: the clients that were refused a name that was there, or
                    \* whose server was started again

requestVars == <<content, line, serving, walk, inserting, restarts, misled>>

Named(kind) == {n \in Name : Kind[n] = kind}
Values == UNION {Named(type) : type \in Types}
There(n) == n = Root \/ content[n] # Absent
Commands == {n \in Named("command") : There(n)}

\* listAllCommands: the nodes to be explored, whether the commands of the first one
\* are found already, and those that are; before is a history, the commands there
\* were at the beginning.
NoWalk == [queue |-> <<>>, listed |-> FALSE, found |-> {}, before |-> {}]

\* The mutex of a node is held while a child is put into it, and while a command of
\* it runs.
Growing(node) == inserting # Absent /\ In[inserting] = node
Running(node) == \E c \in Client : /\ line[c].at = "taken" /\ serving = "running"
                                   /\ In[line[c].req.name] = node
Free(node) == ~Growing(node) /\ ~Running(node)

-----------------------------------------------------------------------------
(* The messages of the client: what is asked, of which name, with what *)

Message(op, name, arg) == [op |-> op, name |-> name, arg |-> arg]
ListNames(node, kind) == Message("list", node, kind)
ListAllCommands == Message("all", Root, Absent)
Describe(n) == Message("describe", n, Absent)
Get(v) == Message("get", v, Absent)
Set(v, x) == Message("set", v, x)
CallCommand(c) == Message("call", c, Absent)

Reply(names, datum) == [kind |-> "good", names |-> names, datum |-> datum]
Done == Reply({}, Absent)
Error == [kind |-> "error", names |-> {}, datum |-> Absent]

Idle == [at |-> "idle"]
Asked(request) == [at |-> "asked", req |-> request]
IsIdle(c) == line[c].at = "idle"

RequestsInit ==
    /\ content = [n \in Name |-> Absent]
    /\ line = [c \in Client |-> Idle]
    /\ serving = "nobody" /\ walk = NoWalk
    /\ inserting = Absent
    /\ restarts = 0 /\ misled = {}

\* The client sends, and then waits: its socket allows nothing else.
Send(c, request) ==
    /\ IsIdle(c)
    /\ line' = [line EXCEPT ![c] = Asked(request)]
    /\ UNCHANGED <<content, serving, walk, inserting, restarts, misled>>

\* waitReply; an error is thrown to the caller.
Receive(c) ==
    /\ line[c].at = "answered"
    /\ line' = [line EXCEPT ![c] = Idle]
    /\ UNCHANGED <<content, serving, walk, inserting, restarts, misled>>

-----------------------------------------------------------------------------
(* The server *)

\* getNode, getValueType, commandExist, streamExist and frameExist go down the path of
\* the name.  The maps of the root and of the last node are read under the mutexes of
\* these two; those in between under that of the root, whoever changes them.
LooksAt(n) == IF n = Root THEN {} ELSE {Root, In[n]}
CanLookUp(n) == \A node \in LooksAt(n) : ~Growing(node)
Torn(n) == \E i \in 2 .. Len(Path[n]) - 1 : Growing(Path[n][i])
Known(n) == There(n)

\* The message is taken and its name looked up.
BeginConcurrently(c) ==
    /\ line[c].at = "asked"
    /\ LET name == line[c].req.name
       IN  /\ CanLookUp(name)
           /\ \/ /\ serving' = IF Known(name) THEN "known" ELSE "unknown"
                 /\ UNCHANGED misled
              \/ /\ Torn(name) /\ Known(name)
                 /\ serving' = "unknown" /\ misled' = misled \cup {c}
    /\ line' = [line EXCEPT ![c].at = "taken"]
    /\ UNCHANGED <<content, walk, inserting, restarts>>
Begin(c) == serving = "nobody" /\ BeginConcurrently(c)

\* The request of c, once it has passed the look-up.  The name is looked up again.
Serves(c, op) == /\ line[c].at = "taken" /\ serving = "known"
                 /\ line[c].req.op = op
                 /\ CanLookUp(line[c].req.name)
Answer(c, reply) ==
    /\ line' = [line EXCEPT ![c] = [at |-> "answered", req |-> @.req, reply |-> reply]]
    /\ serving' = "nobody" /\ walk' = NoWalk
    /\ UNCHANGED <<inserting, restarts>>

\* error(): the name was unknown, or not found again.
Refuse(c) ==
    /\ line[c].at = "taken"
    /\ \/ serving = "unknown" /\ UNCHANGED misled
       \/ /\ serving = "known" /\ Torn(line[c].req.name)
          /\ misled' = misled \cup {c}
    /\ Answer(c, Error)
    /\ UNCHANGED content

\* listChildren, listValuesBool and its siblings, listCommands, listStreams, listFrames
Listed(node, kind) == {n \in Named(kind) : In[n] = node /\ There(n)}
List(c) ==
    /\ Serves(c, "list") /\ ~Growing(line[c].req.name)
    /\ Answer(c, Reply(Listed(line[c].req.name, line[c].req.arg), Absent))
    /\ UNCHANGED <<content, misled>>

\* listAllCommands goes over the tree breadth first, with a list of the commands and one
\* of the children of each node; no lock is held in between.
InSomeOrder(names) == SetToSeq(names)
Walks(c) == line[c].at = "taken" /\ serving = "walking"
ListAll(c) ==
    /\ Serves(c, "all")
    /\ serving' = "walking"
    /\ walk' = [NoWalk EXCEPT !.queue = <<Root>>, !.before = Commands]
    /\ UNCHANGED <<content, line, inserting, restarts, misled>>
ListCommands(c) ==
    /\ Walks(c) /\ walk.queue # <<>> /\ ~walk.listed
    /\ ~Growing(Head(walk.queue))
    /\ walk' = [walk EXCEPT !.listed = TRUE, !.found = @ \cup Listed(Head(walk.queue), "command")]
    /\ UNCHANGED <<content, line, serving, inserting, restarts, misled>>
ListChildren(c) ==
    /\ Walks(c) /\ walk.listed
    /\ ~Growing(Head(walk.queue))
    /\ walk' = [walk EXCEPT !.listed = FALSE,
                            !.queue = Tail(@) \o InSomeOrder(Listed(Head(@), "child"))]
    /\ UNCHANGED <<content, line, serving, inserting, restarts, misled>>
ListedAll(c) ==
    /\ Walks(c) /\ walk.queue = <<>>
    /\ Answer(c, Reply(walk.found, Absent))
    /\ UNCHANGED <<content, misled>>

\* valMeta*, commandDescription, descriptionStream, valMetaFrame
Details(c) ==
    /\ Serves(c, "describe")
    /\ Answer(c, Done)
    /\ UNCHANGED <<content, misled>>

GetValue(c) ==
    /\ Serves(c, "get")
    /\ Answer(c, Reply({}, content[line[c].req.name]))
    /\ UNCHANGED <<content, misled>>

\* A callback that throws does so after the update: the client is told of an error.
SetValueCallbackFirst(c) ==
    /\ Serves(c, "set")
    /\ \/ /\ Answer(c, Done)
          /\ content' = [content EXCEPT ![line[c].req.name] = line[c].req.arg]
       \/ /\ line[c].req.name \in Fragile /\ Answer(c, Error)
          /\ UNCHANGED content
    /\ UNCHANGED misled
SetValueUncaught(c) ==
    /\ Serves(c, "set")
    /\ \/ Answer(c, Done)
       \/ /\ line[c].req.name \in Fragile
          /\ serving' = "nobody" /\ UNCHANGED <<line, walk, inserting, restarts>>
    /\ content' = [content EXCEPT ![line[c].req.name] = line[c].req.arg]
    /\ UNCHANGED misled
SetValue(c) ==
    /\ Serves(c, "set")
    /\ Answer(c, Done) \/ (line[c].req.name \in Fragile /\ Answer(c, Error))
    /\ content' = [content EXCEPT ![line[c].req.name] = line[c].req.arg]
    /\ UNCHANGED misled

\* The command runs in the thread of the server, with the mutex of its node.
CallResult(c) ==
    /\ Serves(c, "call")
    /\ serving' = "running"
    /\ UNCHANGED <<content, line, walk, inserting, restarts, misled>>

\* It returns, or throws what the server forwards (what bindFunc has made throws nothing).
EndCall(c) ==
    /\ line[c].at = "taken" /\ serving = "running"
    /\ Answer(c, Done) \/ (line[c].req.name \in Fragile /\ Answer(c, Error))
    /\ UNCHANGED <<content, misled>>

Serve(c) == \/ Refuse(c) \/ List(c) \/ Details(c) \/ GetValue(c) \/ SetValue(c)
            \/ CallResult(c)
            \/ ListAll(c) \/ ListCommands(c) \/ ListChildren(c) \/ ListedAll(c)

\* The program dies and is started again.  A request it had taken is lost with it;
\* one on its way, or an answer on its way, may be lost: then the client waits for
\* ever, for its socket has no receive timeout.
Surviving(l) ==
    CASE l.at = "idle" -> {Idle}
      [] l.at = "taken" -> {[at |-> "lost"]}
      [] OTHER -> {l, [at |-> "lost"]}
Restart ==
    /\ restarts < MaxRestarts
    /\ restarts' = restarts + 1
    /\ content' = [n \in Name |-> Absent]
    /\ serving' = "nobody" /\ walk' = NoWalk
    /\ inserting' = Absent
    /\ misled' = Client
    /\ line' \in {l \in [Client -> UNION {Surviving(line[c]) : c \in Client}] :
                    \A c \in Client : l[c] \in Surviving(line[c])}

-----------------------------------------------------------------------------
(* What the requests promise *)

\* An unknown name is as good as answered; a listing of all commands takes its time.
CallOf(l) ==
    CASE l.at = "idle" -> [at |-> "none"]
      [] l.at = "lost" -> [at |-> "lost"]
      [] l.at = "answered" -> [at |-> "done", answer |-> l.reply]
      [] l.at = "taken" /\ serving = "unknown" -> [at |-> "done", answer |-> Error]
      [] l.at = "taken" /\ serving = "walking" ->
            [at |-> "walking", req |-> l.req, before |-> walk.before]
      [] OTHER -> [at |-> "begun", req |-> l.req]

Calls == INSTANCE RemoteCalls WITH call <- [c \in Client |-> CallOf(line[c])]

RequestsTypeOK ==
    /\ content \in [Name -> Datum \cup {Absent}]
    /\ \A c \in Client : line[c].at \in {"idle", "asked", "taken", "answered", "lost"}
    /\ serving \in {"nobody", "known", "unknown", "running", "walking"}
    /\ walk.found \subseteq Named("command")
    /\ inserting \in (Node \ {Root}) \cup {Absent}
    \* The one thread has one request.
    /\ Cardinality({c \in Client : line[c].at = "taken"}) = (IF serving = "nobody" THEN 0 ELSE 1)
    /\ restarts \in 0 .. MaxRestarts
=============================================================================
