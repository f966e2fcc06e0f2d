--------------------------------- MODULE Robot --------------------------------
(***************************************************************************)
(* A robot and its users: the program and the wrapper of Bind, the request *)
(* server of Requests, the shells of ShellTree and clients without a tree, *)
(* all on the same values.                                                 *)
(***************************************************************************)
EXTENDS ShellTree, Bind

vars == <<requestVars, shell, bindVars>>

Init == RequestsInit /\ ShellInit /\ BindInit

\* The server's thread; its setters are others' to the program.
ServerTakes(c) == Begin(c) /\ UNCHANGED <<shell, bindVars>>
ServerActs(c) == Serve(c) /\ Noticed /\ UNCHANGED <<shell, wrapper>>
ServerEndsCall(c) ==
    /\ EndCall(c) /\ FunctionRuns
    /\ UNCHANGED <<shell, wrapper>>

\* A program that uses ClientReq asks for any name, known or not.
Program(c) ==
    /\ \/ \E v \in Bound : \/ Send(c, Get(v))
                           \/ \E x \in TypedData : Send(c, Set(v, x))
       \/ Send(c, CallCommand(Function))
       \/ Receive(c)
    /\ UNCHANGED <<shell, bindVars>>

User(s) == ShellStep(s) /\ UNCHANGED bindVars
Robot == /\ ProgramStep
         /\ UNCHANGED <<line, serving, walk, inserting, restarts, misled, shell, wrapper>>
OtherThread == /\ WrapperBind \/ WrapperSet
               /\ UNCHANGED <<line, serving, walk, inserting, restarts, misled, shell>>
Others == OtherCode /\ UNCHANGED <<line, serving, walk, restarts, misled, shell>>

\* The same program again.
ProgramRestarts ==
    /\ Restart
    /\ prog' = FreshProgram(prog.clash, prog.loops, prog.others)
    /\ wrapper' = "none"
    /\ UNCHANGED shell

Next ==
    \/ \E c \in Client : ServerTakes(c) \/ ServerActs(c) \/ ServerEndsCall(c)
    \/ \E c \in Client \ Shell : Program(c)
    \/ \E s \in Shell : User(s)
    \/ Robot
    \/ OtherThread
    \/ Others
    \/ ProgramRestarts

Spec == Init /\ [][Next]_vars

\* The server's thread never stops, ZeroMQ takes the clients in turn, the commands of
\* the robot end, as does the insertion of a child, and a shell goes on with what was
\* answered.
Fairness ==
    /\ \A c \in Client : SF_vars(ServerTakes(c))
    /\ WF_vars(\E c \in Client : ServerActs(c) \/ ServerEndsCall(c))
    /\ WF_vars(EndInsert /\ Others)
    /\ \A s \in Shell : WF_vars(OnReply(s) /\ UNCHANGED bindVars)
FairSpec == Spec /\ Fairness

TypeOK == RequestsTypeOK /\ ShellTypeOK /\ BindTypeOK

\* Each request takes effect at one moment between its sending and its answer, except
\* for the list of all commands, which has all that were there when the server began it
\* and nothing that is not there at its end.  A name that is there is refused only while
\* the program puts a child into a node on its path other than the first and the last.
ServedAsPromised == Calls!Spec
=============================================================================
