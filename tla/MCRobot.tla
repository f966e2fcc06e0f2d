-------------------------------- MODULE MCRobot -------------------------------
EXTENDS Robot

\* /sub has the bound values p and v, the command c and the nodes deep and other, in
\* which there are the value w and the command k.
MCKind == [n \in Name |-> CASE n \in {"sub", "deep", "other"} -> "child"
                            [] n \in {"c", "k"} -> "command"
                            [] n = "v" -> "float"
                            [] OTHER -> "int"]
MCIn == [n \in Name |-> CASE n = "sub" -> "root"
                          [] n = "w" -> "deep"
                          [] n = "k" -> "other"
                          [] OTHER -> "sub"]
MCPath == [n \in Name \cup {Root} |-> CASE n = Root -> <<>>
                                        [] n = "sub" -> <<Root>>
                                        [] n \in {"w", "k"} -> <<Root, "sub", In[n]>>
                                        [] OTHER -> <<Root, "sub">>]
MCBindings == <<"p", "v">>
MCPolicy == [b \in {"p", "v"} |-> IF b = "p" THEN "PullOnly" ELSE "PushAndPull"]
MCWidth == [b \in {"p", "v"} |-> 2]
MCDefault == [b \in {"p", "v"} |-> IF b = "p" THEN 0 ELSE 1]

Nothing == [n \in Name |-> Absent]
Declared == [FreshProgram({}, FALSE, {}) EXCEPT !.pc = "done", !.registered = Bound]
Quiet == [c \in Client |-> IF c \in Shell THEN Idle ELSE [at |-> "lost"]]

\* The program loops, and is not started again; a client sets its values.
Looping ==
    /\ \E clash \in SUBSET {"p"} : prog = FreshProgram(clash, TRUE, {})
    /\ content = Nothing /\ restarts = MaxRestarts
    /\ line = [c \in Client |-> Idle] /\ shell = [s \in Shell |-> Ended(NewShell)]

\* The program declares while a shell browses, from its last bindNew on; then it may be
\* started again and declares all.  The client hangs already.
Browsing ==
    /\ prog = [FreshProgram({"p"}, FALSE, {}) EXCEPT !.pc = "default", !.at = 2,
                                                     !.registered = Bound, !.failed = {"p"}]
    /\ content = [n \in Name |-> IF n \in {"sub", "p", "v"} THEN 0 ELSE Absent]
    /\ restarts = 0
    /\ line = Quiet /\ ShellInit

\* Other code of the program makes the node other and a command in it while a shell
\* browses.
Extending ==
    /\ prog = [Declared EXCEPT !.others = {"deep", "w", "other", "k"}, !.registered = {}]
    /\ content = [n \in Name |-> IF n \in {"sub", "c", "deep", "w"} THEN 0 ELSE Absent]
    /\ restarts = MaxRestarts
    /\ line = Quiet /\ ShellInit

\* All is declared and set; a shell and a client compete for the server.
Competing ==
    /\ prog = Declared
    /\ content = [n \in Name |-> IF n \in {"p", "v"} THEN 1
                               ELSE IF n \in {"sub", "c"} THEN 0 ELSE Absent]
    /\ restarts = MaxRestarts
    /\ line = [c \in Client |-> Idle] /\ ShellInit

MCInit ==
    /\ Looping \/ Browsing \/ Extending \/ Competing
    /\ serving = "nobody" /\ walk = NoWalk /\ inserting = Absent /\ misled = {}
    /\ wrapper = "none"
MCSpec == MCInit /\ [][Next]_vars /\ Fairness
=============================================================================
