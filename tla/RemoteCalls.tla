----------------------------- MODULE RemoteCalls -----------------------------
(***************************************************************************)
(* What the requests of RhIO promise, apart from how they are served: each *)
(* call of a client takes effect at one moment between its start and its   *)
(* end, and its answer is what the tree of the server says at that moment. *)
(* There are two exceptions.  The list of all commands is that of no       *)
(* moment: it has all that were there when the server took the call and    *)
(* nothing that is not there when it answers.  And a name that is there is *)
(* refused, without any effect, if a child is just being put into a node   *)
(* on its path that is neither the root nor the one it is in.              *)
(* The robot adds to the tree as it likes; when the server is restarted    *)
(* the tree is empty and the calls that are under way may never end.       *)
(***************************************************************************)
EXTENDS Integers, Sequences

CONSTANTS Client, Name, Root, Kind, In, Path, Datum, Absent,
          Fragile  \* the values whose callback, and the commands that, may throw

VARIABLES content,    \* per name: its datum, Absent if there is no such name
          inserting,  \* the child that is being put into a node, or Absent
          call        \* per client: the state of its call, its request and its answer

vars == <<content, inserting, call>>

Exists(n) == n = Root \/ content[n] # Absent
Below(node) == {n \in Name : In[n] = node /\ content[n] # Absent}

Good(names, datum) == [kind |-> "good", names |-> names, datum |-> datum]
Bad == [kind |-> "error", names |-> {}, datum |-> Absent]

CommandsNow == {n \in Name : Kind[n] = "command" /\ Exists(n)}
MayMiss(n) == /\ inserting # Absent
              /\ \E i \in 2 .. Len(Path[n]) - 1 : Path[n][i] = In[inserting]

\* The answers a request for what is there may get from the tree as it is.
Answers(r) ==
    CASE r.op = "list" -> {Good({n \in Below(r.name) : Kind[n] = r.arg}, Absent)}
      [] r.op = "all" -> {}
      [] r.op = "get" -> {Good({}, content[r.name])}
      [] r.op = "describe" -> {Good({}, Absent)}
      [] OTHER -> {Good({}, Absent)} \cup {Bad : n \in Fragile \cap {r.name}}

\* The promise holds from any tree on, and whoever hangs already.
Init ==
    /\ content \in [Name -> Datum \cup {Absent}]
    /\ inserting = Absent
    /\ call \in [Client -> {[at |-> "none"], [at |-> "lost"]}]

\* Another call may begin as soon as one has been answered.
Start(c) ==
    /\ call[c].at \in {"none", "done"}
    /\ call'[c].at = "begun"
    /\ \A d \in Client \ {c} : call'[d] = call[d]
    /\ UNCHANGED <<content, inserting>>

\* The call ends with this answer.
Answered(c, a) ==
    /\ call' = [call EXCEPT ![c] = [at |-> "done", answer |-> a]]
    /\ UNCHANGED inserting

Refuse(c) ==
    /\ call[c].at = "begun"
    /\ ~Exists(call[c].req.name) \/ MayMiss(call[c].req.name)
    /\ Answered(c, Bad)
    /\ UNCHANGED content

Perform(c) ==
    /\ call[c].at = "begun" /\ Exists(call[c].req.name)
    /\ \E a \in Answers(call[c].req) : Answered(c, a)
    /\ content' = IF call[c].req.op = "set"
                  THEN [content EXCEPT ![call[c].req.name] = call[c].req.arg]
                  ELSE content

\* The list of all commands.
BeginAll(c) ==
    /\ call[c].at = "begun" /\ call[c].req.op = "all"
    /\ call' = [call EXCEPT ![c] = [at |-> "walking", req |-> @.req, before |-> CommandsNow]]
    /\ UNCHANGED <<content, inserting>>
EndAll(c) ==
    /\ call[c].at = "walking"
    /\ \E names \in SUBSET CommandsNow :
          call[c].before \subseteq names /\ Answered(c, Good(names, Absent))
    /\ UNCHANGED content

End(c) ==
    /\ call[c].at = "done"
    /\ call' = [call EXCEPT ![c] = [at |-> "none"]]
    /\ UNCHANGED <<content, inserting>>

\* The robot's own threads; what is there stays there.
RobotChanges ==
    /\ \A n \in Name : content[n] # Absent => content'[n] # Absent
    /\ UNCHANGED call

Restart ==
    /\ content' = [n \in Name |-> Absent]
    /\ inserting' = Absent
    /\ \A c \in Client :
          \/ call'[c] = call[c]
          \/ call[c].at # "none" /\ call'[c] = [at |-> "lost"]

Next ==
    \/ \E c \in Client : \/ Start(c) \/ Refuse(c) \/ Perform(c)
                         \/ BeginAll(c) \/ EndAll(c) \/ End(c)
    \/ RobotChanges
    \/ Restart

Spec == Init /\ [][Next]_vars
=============================================================================
