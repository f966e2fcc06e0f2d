--------------------------------- MODULE Bind ---------------------------------
(***************************************************************************)
(* The robot program that binds its variables to values                    *)
(* (Server/src/Bind.cpp): it declares them with bindNew or bind, and then  *)
(* pulls, computes and pushes for ever.  Neither pull nor push is atomic:  *)
(* the values may be set by requests and by other threads between any two  *)
(* bindings.  One such thread uses a Wrapper                               *)
(* (Server/include/rhio_server/Wrapper.hpp); a command that bindFunc has   *)
(* made changes the variables from the thread of the server, and other     *)
(* code of the program declares names of its own, at any depth.            *)
(***************************************************************************)
EXTENDS Requests

CONSTANTS Prefix,    \* the node of the Bind
          Bindings,  \* a sequence of values, as pull and push go through them: by
                     \* type, and in the order they were bound
          Policy,    \* per binding
          Width,     \* per binding: how many data its variable can hold
          Default,   \* per binding: the datum its builder gives the value
          Function,  \* the command, made with bindFunc, or with newCommand if it may throw
          Wrapped,   \* the value of the wrapper
          WrapperData

Bound == ToSet(Bindings)

ASSUME BindAssumption ==
    /\ Prefix \in Node \ {Root} /\ In[Prefix] = Root
    /\ Bindings \in Seq(Values) /\ Bindings # <<>> /\ IsInjective(Bindings)
    /\ Bound \subseteq Values /\ \A b \in Bound : In[b] = Prefix
    /\ Policy \in [Bound -> {"PushAndPull", "PushOnly", "PullOnly"}]
    /\ Width \in [Bound -> Nat \ {0}]
    /\ Datum \subseteq Nat /\ Default \in [Bound -> Datum]
    /\ \A b \in Bound : 0 .. Width[b] - 1 \subseteq Datum
    /\ Function \in Named("command") /\ In[Function] = Prefix
    /\ Wrapped \in Values /\ WrapperData \subseteq Datum

VARIABLES prog,    \* the program:
    \* pc, at         its next step, and the binding it is for
    \* loops          whether it pulls and pushes, or only declares; then its variables
    \*                and its other thread are of no interest
    \* others         the names that other code of it declares
    \* var            per binding: the variable
    \* registered     the bindings that were put into the containers
    \* clash          the values that exist with another type before they are bound
    \* failed         a history: the bindings for which bindNew threw
    \* thrown         a history: the bindings at which pull or push missed its value
    \* touched        a history: the pushed variables changed since they were transferred
    \* moved          a history: the values of these that others changed since then
          wrapper  \* "none", "bound", or "half": bound to a node, and to no value

bindVars == <<prog, wrapper>>

FreshProgram(clash, loops, others) ==
    [pc |-> "construct", at |-> 1, loops |-> loops, others |-> others, var |-> [b \in Bound |-> 0],
     registered |-> {}, clash |-> clash, failed |-> {}, thrown |-> {},
     touched |-> {}, moved |-> {}]

BoundNames == Bound \cup {Prefix, Function}
BindInit ==
    /\ \E clash \in SUBSET Bound, loops \in BOOLEAN, others \in SUBSET (Name \ BoundNames) :
          prog = FreshProgram(clash, loops, others)
    /\ wrapper = "none"

Holding == Bindings[prog.at]
Pulls(b) == Policy[b] \in {"PushAndPull", "PullOnly"}
Pushes(b) == Policy[b] \in {"PushAndPull", "PushOnly"}
Pushed == {b \in Bound : Pushes(b)}

\* getInt, setInt and their siblings throw unless there is a value of their type.
Throws(b) == ~There(b) \/ b \in prog.clash

\* The step after the binding at hand is the same for the next one, or the one given.
Next1(p, last) == IF p.at < Len(Bindings) THEN [p EXCEPT !.at = @ + 1]
                  ELSE [p EXCEPT !.at = 1, !.pc = last]

-----------------------------------------------------------------------------
(* Declarations *)

\* The constructor creates the node.  What clashes was created elsewhere.
Construct ==
    /\ prog.pc = "construct" /\ Free(Root)
    /\ content' = [n \in Name |-> IF n = Prefix \/ n \in prog.clash THEN 0 ELSE content[n]]
    /\ prog' = [prog EXCEPT !.pc = "bind"]

\* bindNew registers the variable, and only then does newInt throw; the builder that
\* it returns has given the value its raw default.
Register(p, b) == [p EXCEPT !.registered = @ \cup {b}]
BindNew ==
    /\ prog.pc = "bind" /\ Free(Prefix)
    /\ IF Holding \in prog.clash
       THEN /\ prog' = Next1([Register(prog, Holding) EXCEPT !.failed = @ \cup {Holding}],
                             "function")
            /\ UNCHANGED content
       ELSE /\ prog' = [Register(prog, Holding) EXCEPT !.pc = "default"]
            /\ content' = [content EXCEPT ![Holding] = 0]

\* The next call on the builder, no mutex being held.
DefaultValue ==
    /\ prog.pc = "default"
    /\ content' = [content EXCEPT ![Holding] = Default[Holding]]
    /\ prog' = Next1([prog EXCEPT !.pc = "bind"], "function")

\* bind does not register a value it does not find, or of another type.
RegisteredUnchecked(b) == Register(prog, b)
RegisteredExisting(b) == IF Throws(b) THEN prog ELSE Register(prog, b)
BindExisting ==
    /\ prog.pc = "bind" /\ Free(Prefix)
    /\ prog' = Next1(RegisteredExisting(Holding), "function")
    /\ UNCHANGED content

\* newCommand; like bindNew it waits for the mutex that a command of this node runs with.
NewFunction ==
    /\ prog.pc = "function" /\ Free(Prefix)
    /\ content' = [content EXCEPT ![Function] = 0]
    /\ prog' = [prog EXCEPT !.pc = IF prog.loops THEN "pull" ELSE "done"]

-----------------------------------------------------------------------------
(* Rounds *)

\* A variable takes what fits into it.
Narrowed(b, x) == x % Width[b]
Transferred(p, b) == [p EXCEPT !.touched = @ \ {b}, !.moved = @ \ {b}]

\* An exception leaves the later bindings as they are; the program catches it.
Thrown(p, last) == [p EXCEPT !.at = 1, !.pc = last]
Missed(p, last) == Thrown([p EXCEPT !.thrown = @ \cup {Bindings[p.at]}], last)

ImportsPullOnly(b) == b \in prog.registered /\ Policy[b] = "PullOnly"
Imports(b) == b \in prog.registered /\ Pulls(b)
Pull ==
    /\ prog.pc = "pull" /\ Free(Prefix)
    /\ prog' = IF ~Imports(Holding) THEN Next1(prog, "compute")
               ELSE IF Throws(Holding) THEN Missed(prog, "compute")
               ELSE Next1([Transferred(prog, Holding) EXCEPT
                              !.var[Holding] = Narrowed(Holding, content[Holding])],
                          "compute")
    /\ UNCHANGED content

\* The program's own code, here or in a command that runs in the server's thread.
Assigned(p, b, x) == [p EXCEPT !.var[b] = x, !.touched = @ \cup ({b} \cap Pushed)]
Fitting(b) == 0 .. Width[b] - 1
Compute ==
    /\ prog.pc = "compute"
    /\ \/ prog' = [prog EXCEPT !.pc = "push"]
       \/ \E b \in Bound : \E x \in Fitting(b) \ {prog.var[b]} :
             prog' = [Assigned(prog, b, x) EXCEPT !.pc = "push"]
    /\ UNCHANGED content

Exports(b) == b \in prog.registered /\ Pushes(b)
Push ==
    /\ prog.pc = "push" /\ Free(Prefix)
    /\ \/ prog' = IF ~Exports(Holding) THEN Next1(prog, "pull")
                  ELSE IF Throws(Holding) THEN Missed(prog, "pull")
                  ELSE Next1(Transferred(prog, Holding), "pull")
       \* The callback of the value throws, after the update.
       \/ /\ Exports(Holding) /\ ~Throws(Holding) /\ Holding \in Fragile
          /\ prog' = Thrown(Transferred(prog, Holding), "pull")
    /\ content' = IF Exports(Holding) /\ ~Throws(Holding)
                  THEN [content EXCEPT ![Holding] = prog.var[Holding]]
                  ELSE content

ProgramStep == \/ Construct \/ BindNew \/ DefaultValue \/ BindExisting \/ NewFunction
               \/ Pull \/ Compute \/ Push

\* newChild puts a child into the map of its parent, which is not one step for those who
\* read that map under another mutex.
BeginInsert ==
    /\ inserting = Absent
    /\ inserting' \in {n \in prog.others \cap Node : ~There(n) /\ There(In[n]) /\ Free(In[n])}
    /\ UNCHANGED <<content, bindVars>>
EndInsert ==
    /\ inserting # Absent
    /\ content' = [content EXCEPT ![inserting] = 0]
    /\ inserting' = Absent
    /\ UNCHANGED bindVars

\* newBool and its siblings, newCommand, newStream and newFrame.
Declare ==
    /\ \E n \in prog.others \ Node :
          /\ ~There(n) /\ There(In[n]) /\ Free(In[n])
          /\ content' = [content EXCEPT ![n] = 0]
    /\ UNCHANGED <<inserting, bindVars>>

OtherCode == BeginInsert \/ EndInsert \/ Declare

\* What others do to the values, and to the variables.
Noticed ==
    prog' = IF prog.loops
            THEN [prog EXCEPT !.moved = @ \cup {b \in Pushed : content'[b] # content[b]}]
            ELSE prog
FunctionRuns ==
    \/ UNCHANGED prog
    \/ prog.loops /\ \E b \in Bound : \E x \in Fitting(b) \ {prog.var[b]} : prog' = Assigned(prog, b, x)

-----------------------------------------------------------------------------
(* The wrapper, in a thread of its own *)

\* The node is assigned before the value is looked up, which may throw: then the
\* wrapper can neither be used nor be bound again.
WrapperBind ==
    /\ prog.loops /\ wrapper = "none"
    /\ There(In[Wrapped]) /\ Free(In[Wrapped])
    /\ wrapper' = IF Throws(Wrapped) THEN "half" ELSE "bound"
    /\ UNCHANGED <<content, prog>>

WrapperSet ==
    /\ wrapper = "bound" /\ Free(In[Wrapped])
    /\ \E x \in WrapperData : content' = [content EXCEPT ![Wrapped] = x]
    /\ Noticed
    /\ UNCHANGED wrapper

-----------------------------------------------------------------------------
(* Properties *)

BindTypeOK ==
    /\ prog.pc \in {"construct", "bind", "default", "function", "pull", "compute", "push", "done"}
    /\ prog.at \in 1 .. Len(Bindings)
    /\ \A b \in Bound : prog.var[b] \in Fitting(b)
    /\ prog.failed \subseteq prog.registered
    /\ prog.touched \subseteq Pushed /\ prog.moved \subseteq Pushed
    /\ wrapper \in {"none", "half", "bound"}

\* A push changes a value only to tell it something, or to a loss that is inherent in
\* pull and push: the program has assigned the variable, somebody has set the value
\* since it was pulled, it is never pulled, or it did not fit into the variable.  Or
\* else a failed bindNew of a PullOnly variable makes every pull throw before it, and
\* no push.
Unpulled(b) ==
    \E i, j \in DOMAIN Bindings :
        /\ i < j /\ Bindings[j] = b
        /\ Bindings[i] \in prog.failed /\ Policy[Bindings[i]] = "PullOnly"
ProgramMoves == prog'.pc \in {"push", "pull"} /\ <<prog.pc, prog.at>> # <<prog'.pc, prog'.at>>
NoStaleOverwrite ==
    [][\A b \in Bound :
          ProgramMoves /\ prog.pc = "push" /\ content'[b] # content[b]
              => \/ b \in prog.touched \cup prog.moved
                 \/ Policy[b] = "PushOnly"
                 \/ content[b] \notin Fitting(b)
                 \/ Unpulled(b)]_<<prog, content>>

\* Pull and push miss the value of a binding only if its bindNew threw: a bind that
\* throws leaves nothing behind, and what was bound stays there as long as the program.
RoundsThrowOnlyPoisoned == prog.thrown \subseteq prog.failed
=============================================================================
