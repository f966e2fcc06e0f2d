------------------------------ MODULE ShellTree ------------------------------
(***************************************************************************)
(* The copy a shell keeps of the server's tree (Shell/src/Node.cpp) and    *)
(* the commands typed at its prompt (Shell/src/Shell.cpp): sync, cd, the   *)
(* reading and the setting of a value, a watch of the current node and the *)
(* commands of the robot.                                                  *)
(*                                                                         *)
(* Nodes are downloaded when a path first goes through them, one request   *)
(* after the other: the names of each kind, and the details of each name.  *)
(* What is downloaded is used until the next sync.                         *)
(***************************************************************************)
EXTENDS Requests

CONSTANTS Shell,     \* the clients that are shells
          TypedData  \* what is typed after the = of a set

ASSUME ShellAssumption ==
    /\ Shell \subseteq Client
    /\ TypedData \subseteq Datum

\* A node of the copy that is not downloaded (a null pointer).  That of the root is
\* so only before the first sync and after one that failed: then it was deleted.
NotLoaded == [loaded |-> FALSE, names |-> {}]
Loaded(names) == [loaded |-> TRUE, names |-> names]

VARIABLE shell  \* per shell:
    \* doing, target  what was typed, of which name; "new" before run(), "start" in its sync
    \* typed          the datum behind the = of a set
    \* loading        the node that is being downloaded; Absent if none is
    \* found          the names it was told so far
    \* todo           the requests it will send next
    \* copy           per node: what was downloaded of it
    \* remote         the commands of the robot it knows
    \* path           the node it is at
    \* before, since  histories: the names of that node and the restarts when the
    \*                download began

NewShell ==
    [doing |-> "new", target |-> Root, typed |-> Absent, loading |-> Absent, found |-> {},
     todo |-> <<>>, copy |-> [n \in Node |-> NotLoaded], remote |-> {}, path |-> Root,
     before |-> {}, since |-> 0]
ShellInit == shell = [s \in Shell |-> NewShell]

\* What the shell does once its current request is answered.
Prompt(r) == [r EXCEPT !.doing = "prompt", !.target = Root, !.typed = Absent,
                       !.loading = Absent, !.found = {}, !.todo = <<>>, !.before = {}, !.since = 0]
Ended(r) == [Prompt(r) EXCEPT !.doing = "ended"]
\* A deleted tree or a null node is used, and nothing is promised of what comes next;
\* or an exception leaves main().
Crashed(r) == [Prompt(r) EXCEPT !.doing = "crashed"]

\* The constructor of Node asks for the names of each kind, in this order.
LoadAllButOne(r, n) == [r EXCEPT !.loading = n, !.found = {},
                        !.todo = [i \in 1 .. Len(Kinds) - 1 |-> ListNames(n, Kinds[i])],
                        !.before = {i \in Name : In[i] = n /\ There(i)},
                        !.since = restarts]
Load(r, n) == [r EXCEPT !.loading = n, !.found = {},
                        !.todo = [i \in 1 .. Len(Kinds) |-> ListNames(n, Kinds[i])],
                        !.before = {i \in Name : In[i] = n /\ There(i)},
                        !.since = restarts]

\* ... and for the details of each name before it goes on to the next kind.
DetailsOf(names, kind) ==
    LET name == InSomeOrder(names)
        n == Cardinality(names)
    IN  CASE kind = "child" -> <<>>
          [] kind \in Types -> [i \in 1 .. 2 * n |-> IF i % 2 = 1 THEN Describe(name[(i + 1) \div 2])
                                                                  ELSE Get(name[i \div 2])]
          [] OTHER -> [i \in 1 .. n |-> Describe(name[i])]

\* Shell::getNode goes from the root to the node that a path ends in, and downloads
\* what is missing on the way.
Tree(r) == r.copy[Root]
Has(r, n) == n = Root \/ n \in r.copy[In[n]].names
Missing(r, n) == {m \in ToSet(Path[n]) \cup {n} : /\ m # Root /\ ~r.copy[m].loaded
                                               /\ r.copy[In[m]].loaded}
NodeOf(r) == CASE r.doing = "cd" -> r.target
               [] r.doing = "pool" -> r.path
               [] OTHER -> In[r.target]

\* The values of the node are asked for one by one (Shell::getPool).
WithPool(r, n) ==
    LET pool == InSomeOrder(r.copy[n].names \cap Values)
    IN  IF pool = <<>> THEN Prompt(r)
        ELSE [r EXCEPT !.todo = [i \in 1 .. Len(pool) |-> Get(pool[i])]]

\* One value is read or set, unless the parameter is unknown.
WithValue(r, n) ==
    IF r.target \notin r.copy[n].names THEN Prompt(r)
    ELSE [r EXCEPT !.todo = <<IF r.doing = "get" THEN Get(r.target)
                                                 ELSE Set(r.target, r.typed)>>]

\* The command is carried out with the node at hand.
WithNode(r, n) ==
    CASE r.doing = "cd" -> Prompt([r EXCEPT !.path = n])
      [] r.doing = "pool" -> WithPool(r, n)
      [] OTHER -> WithValue(r, n)

\* Shell::getNodeValue, goToPath and getPool; only the last does not check that the
\* node it is at is still there.
LackingUnchecked(r) ==
    CASE r.doing = "pool" -> Crashed(r)
      [] r.doing = "cd" -> WithNode(r, NodeOf(r))
      [] OTHER -> Prompt(r)
Lacking(r) == IF r.doing = "pool" THEN Crashed(r) ELSE Prompt(r)
GoOn(r) ==
    IF ~Tree(r).loaded THEN Crashed(r)
    ELSE IF Missing(r, NodeOf(r)) = {} THEN WithNode(r, NodeOf(r))
    ELSE LET next == CHOOSE m \in Missing(r, NodeOf(r)) : TRUE
         IN  IF Has(r, next) THEN Load(r, next) ELSE Lacking(r)

-----------------------------------------------------------------------------
(* What is typed *)

AtPrompt(s) == shell[s].doing = "prompt"
Typed(s, doing, target) == [shell[s] EXCEPT !.doing = doing, !.target = target]

\* The next request, if there is one, is sent at once.
Continue(s, r) ==
    /\ shell' = [shell EXCEPT ![s] = IF r.todo = <<>> THEN r ELSE [r EXCEPT !.todo = Tail(@)]]
    /\ line' = [line EXCEPT ![s] = IF r.todo = <<>> THEN Idle ELSE Asked(Head(r.todo))]
    /\ UNCHANGED <<content, serving, walk, inserting, restarts, misled>>

\* Shell::sync: the tree is deleted, and downloaded from the root.  When the last
\* sync failed its pointer still is that of the deleted one.
Forgotten(r) == [r EXCEPT !.copy = [n \in Node |-> NotLoaded]]
Sync(s) ==
    /\ IsIdle(s)
    /\ \/ /\ shell[s].doing = "new"
          /\ Continue(s, Load(Typed(s, "start", Root), Root))
       \/ /\ AtPrompt(s)
          /\ Continue(s, IF Tree(shell[s]).loaded
                         THEN Load(Forgotten(Typed(s, "sync", Root)), Root)
                         ELSE Crashed(shell[s]))

ChangePath(s) ==
    /\ AtPrompt(s)
    /\ \E n \in Node : Continue(s, GoOn(Typed(s, "cd", n)))

\* The name of a value, alone or with an = sign.
GetOrSet(s) ==
    /\ AtPrompt(s)
    /\ \E v \in Values :
          \/ Continue(s, GoOn(Typed(s, "get", v)))
          \/ \E x \in TypedData : Continue(s, GoOn([Typed(s, "set", v) EXCEPT !.typed = x]))

\* watch, tune, log or plot without a name: the values of the current node.
Pool(s) ==
    /\ AtPrompt(s)
    /\ Continue(s, GoOn(Typed(s, "pool", Root)))

Remote(s) ==
    /\ AtPrompt(s)
    /\ \E c \in shell[s].remote :
          Continue(s, [Typed(s, "call", c) EXCEPT !.todo = <<CallCommand(c)>>])

-----------------------------------------------------------------------------
(* What is answered *)

Syncing(r) == r.doing \in {"start", "sync"}

\* updateCommands, once the root is there: the commands it knew are forgotten.
Completed(r) ==
    LET whole == [r EXCEPT !.copy[r.loading] = Loaded(r.found), !.loading = Absent,
                           !.found = {}, !.before = {}, !.since = 0]
    IN  IF r.loading = Absent THEN Prompt(r)
        ELSE IF Syncing(r) THEN [whole EXCEPT !.remote = {}, !.todo = <<ListAllCommands>>]
        ELSE GoOn(whole)

\* An answer is put into the node that is downloaded, or among the commands.
Told(r, req, reply) ==
    CASE req.op = "list" ->
            [r EXCEPT !.found = @ \cup reply.names,
                      !.todo = DetailsOf(reply.names, req.arg) \o @]
      [] req.op = "all" -> [r EXCEPT !.todo = DetailsOf(reply.names, "command")]
      [] req.op = "describe" /\ r.loading = Absent -> [r EXCEPT !.remote = @ \cup {req.name}]
      [] OTHER -> r

\* An exception ends run() in the first sync, and brings back the prompt later on:
\* a node that was being downloaded stays a null pointer, the root a deleted one.
\* Only a node that is downloaded for the reading of a value is outside of every try.
Failed(r) ==
    CASE r.doing = "start" -> Ended(r)
      [] r.doing = "get" /\ r.loading # Absent -> Crashed(r)
      [] OTHER -> Prompt(r)

OnReply(s) ==
    /\ line[s].at = "answered"
    /\ LET reply == line[s].reply
           r == Told(shell[s], line[s].req, reply)
       IN  Continue(s, IF reply.kind = "error" THEN Failed(shell[s])
                       ELSE IF r.todo = <<>> THEN Completed(r) ELSE r)

ShellStep(s) == \/ Sync(s) \/ ChangePath(s) \/ GetOrSet(s) \/ Pool(s) \/ Remote(s)
                \/ OnReply(s)

-----------------------------------------------------------------------------
(* Properties *)

ShellTypeOK ==
    \A s \in Shell :
        /\ shell[s].doing \in {"new", "start", "prompt", "sync", "cd", "get", "set", "pool",
                               "call", "ended", "crashed"}
        /\ shell[s].loading \in Node \cup {Absent}
        /\ shell[s].found \subseteq Name /\ shell[s].remote \subseteq Named("command")
        /\ shell[s].path \in Node
        /\ \A n \in Node : shell[s].copy[n].names \subseteq {i \in Name : In[i] = n}
        \* Whoever is at the prompt has no request under way.
        /\ shell[s].doing \in {"new", "prompt", "ended", "crashed"} => IsIdle(s)

\* No shell uses a tree it has deleted or a node it has not, nor dies of an exception,
\* whatever is declared while it downloads, as long as the program is not started again
\* and no name that is there is refused to this shell (Shell.cpp:961: the exception of
\* such a download ends the program).
ShellSurvives == \A s \in Shell : shell[s].doing = "crashed" => s \in misled

\* What a shell has downloaded of a node is all that was there when the download
\* began, and nothing that is not there when it ends (Node::Node asks for each kind
\* in turn): unless the program was started again in between.
Downloads(s, n) ==
    /\ ~shell[s].copy[n].loaded
    /\ shell'[s].copy[n].loaded
BrowseComplete ==
    [][\A s \in Shell, n \in Node :
          Downloads(s, n) /\ shell[s].since = restarts
              => /\ shell[s].before \subseteq shell'[s].copy[n].names
                 /\ \A i \in shell'[s].copy[n].names : There(i)]_shell

\* What is typed comes to an end, unless a request or its answer was lost with the
\* program: then the shell hangs.
Busy(s) == shell[s].doing \notin {"new", "prompt", "ended", "crashed"}
CommandsEnd == \A s \in Shell : Busy(s) ~> (~Busy(s) \/ line[s].at = "lost")
=============================================================================
