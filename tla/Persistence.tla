----------------------------- MODULE Persistence -----------------------------
(***************************************************************************)
(* Saving the values of a tree of nodes to files and loading them back     *)
(* (IONode::save and load, ValueNode::saveValues and loadValues), while    *)
(* the robot program sets and declares values, and across its crashes.     *)
(*                                                                         *)
(* A root with children, each with its file.  A value becomes a text in a  *)
(* file, a float one of 15 fixed decimals, and a file tells no types:      *)
(* loading guesses them.                                                   *)
(***************************************************************************)
EXTENDS Integers, Sequences, SequencesExt, FiniteSets, Functions

CONSTANTS Nodes,       \* the nodes in the order they are saved, the root first
          Value,       \* the names of the values
          Where,       \* the node of each
          TypeOf,      \* the type the program declares each with
          Texts,       \* what each may hold; the default is one of them
          Default,
          Numerals,    \* the texts a conversion to integer accepts
          Decimals,    \* and those a conversion to double accepts
          Fixed,       \* the text of a float, 15 fixed decimals, or "nan" or "inf"
          Double,      \* the double that a decimal text is read as
          RealTime,    \* the values set with setRT*
          MaxChanges,  \* bound: values set
          MaxCrashes   \* bound: crashes

Node == Range(Nodes)
Root == Nodes[1]
Types == {"Bool", "Int", "Float", "Str"}
Booleans == {"true", "false"}

\* The text of a value in a file, and the value that loading makes of a text.
Written(t, x) == IF t = "Float" THEN Fixed[x] ELSE x
Parsed(t, text) == IF t = "Float" THEN Double[text] ELSE text
Kept(v, x) == Parsed(TypeOf[v], Written(TypeOf[v], x))

ASSUME PersistenceAssumption ==
    /\ Nodes \in Seq(Node) /\ Nodes # <<>> /\ IsInjective(Nodes)
    /\ Where \in [Value -> Node] /\ TypeOf \in [Value -> Types]
    /\ \A v \in Value : Default[v] \in Texts[v]
    /\ RealTime \subseteq {v \in Value : TypeOf[v] # "Str"}
    /\ {MaxChanges, MaxCrashes} \subseteq Nat

\* A float that is rounded by a save and a load is one again, with the same text: the
\* digits lost in the rounding are lost once.
ASSUME FloatAssumption ==
    \A v \in Value : \A x \in Texts[v] :
        TypeOf[v] = "Float" /\ Fixed[x] \in Decimals =>
            Kept(v, x) \in Texts[v] /\ Fixed[Kept(v, x)] = Fixed[x]

VARIABLES memory,     \* per value and type: its registration, or none
          known,      \* the nodes of the tree in memory
          disk,       \* per node: its values.yaml
          dirs,       \* the directories on the disk
          job,        \* the save or the load under way
          node,       \* the number of the node it is at
          out, todo,  \* of a save: what it has emitted, and has left to emit
          reading,    \* of a save: the value it is between the two reads of
          changes, crashes,
          snapshot,   \* history: per node, its values when its save began
          emitted,    \* history: of a save, the values behind the texts of out
          stored,     \* history: per value, what it was when the last whole file got it
          synced      \* history: the nodes saved or loaded since the program began

vars == <<memory, known, disk, dirs, job, node, out, todo, reading, changes, crashes,
          snapshot, emitted, stored, synced>>

None == "none"
NoFile == [kind |-> "absent", map |-> <<>>]
EmptyFile == [kind |-> "empty", map |-> <<>>]
File(map) == [kind |-> "whole", map |-> map]
NoCell == [on |-> FALSE, now |-> None, saved |-> None, persisted |-> FALSE]
Cell(text, persisted) == [on |-> TRUE, now |-> text, saved |-> text, persisted |-> persisted]

Blank == [v \in Value |-> [t \in Types |-> NoCell]]

Init ==
    /\ memory = Blank
    /\ known = {Root}
    /\ disk = [n \in Node |-> NoFile]
    /\ dirs = {}
    /\ job = "idle" /\ node = 1
    /\ out = <<>> /\ todo = {} /\ reading = None
    /\ changes = 0 /\ crashes = 0
    /\ snapshot = [n \in Node |-> <<>>]
    /\ emitted = <<>>
    /\ stored = [v \in Value |-> None]
    /\ synced = {}

saving == <<out, todo, reading>>
bounds == <<changes, crashes>>
history == <<snapshot, emitted, stored, synced>>

-----------------------------------------------------------------------------
(* The robot program *)

\* getValueType: the first type the name is registered under.
Registered(v) ==
    IF memory[v]["Bool"].on THEN "Bool"
    ELSE IF memory[v]["Int"].on THEN "Int"
    ELSE IF memory[v]["Float"].on THEN "Float"
    ELSE IF memory[v]["Str"].on THEN "Str" ELSE None

\* newBool, newInt, newFloat, newStr with persisted(true), while nothing is saved or loaded:
\* keeps what is registered, throws if it is registered under another type.
Declare(v) ==
    /\ job = "idle"
    /\ LET t == TypeOf[v]
       IN  memory' = CASE Registered(v) = None ->
                            [memory EXCEPT ![v][t] = Cell(Default[v], TRUE)]
                       [] Registered(v) = t -> [memory EXCEPT ![v][t].persisted = TRUE]
                       [] OTHER -> memory
    /\ known' = known \cup {Where[v]}
    /\ UNCHANGED <<disk, dirs, job, node, saving, bounds, history>>

Locked(n) == job \in {"read", "mark"} /\ Nodes[node] = n

AnyTime(v) == TRUE
Permitted(v) == v \in RealTime \/ ~Locked(Where[v])

\* set* waits for the node's mutex, setRT* does not.
Set(v) ==
    /\ changes < MaxChanges
    /\ memory[v][TypeOf[v]].on
    /\ Permitted(v)
    /\ changes' = changes + 1
    /\ \E x \in Texts[v] \ {memory[v][TypeOf[v]].now} :
          memory' = [memory EXCEPT ![v][TypeOf[v]].now = x]
    /\ UNCHANGED <<known, disk, dirs, job, node, saving, crashes, history>>

\* The program dies and starts again: the disk stays.
Crash ==
    /\ crashes < MaxCrashes
    /\ crashes' = crashes + 1
    /\ memory' = Blank /\ known' = {Root}
    /\ job' = "idle" /\ node' = 1
    /\ out' = <<>> /\ todo' = {} /\ reading' = None
    /\ emitted' = <<>>
    /\ synced' = {}
    /\ UNCHANGED <<disk, dirs, changes, snapshot, stored>>

-----------------------------------------------------------------------------
(* IONode::save *)

\* The registrations of a node that are to be saved.
Persisted(n) ==
    {c \in Value \X Types : LET m == memory[c[1]][c[2]]
                            IN  Where[c[1]] = n /\ m.on /\ m.persisted}

Needed == \E n \in Node : Persisted(n) # {}

\* Throws, before anything is written, if it finds a directory it has no node for.
BeginSave ==
    /\ job = "idle"
    /\ Needed
    /\ dirs \subseteq known
    /\ dirs' = dirs \cup {Root} \cup {n \in known : Persisted(n) # {}}
    /\ job' = "open"
    /\ node' = 1
    /\ UNCHANGED <<memory, known, disk, saving, bounds, history>>

Advance(kind) ==
    /\ job' = IF node = Len(Nodes) THEN "idle" ELSE kind
    /\ node' = IF node = Len(Nodes) THEN 1 ELSE node + 1

SkipNode ==
    /\ job = "open"
    /\ Persisted(Nodes[node]) = {}
    /\ Advance("open")
    /\ UNCHANGED <<memory, known, disk, dirs, saving, bounds, history>>

\* saveValues takes the node's mutex and opens the file, which empties it.
Open ==
    /\ job = "open"
    /\ LET n == Nodes[node]
       IN  /\ Persisted(n) # {}
           /\ todo' = Persisted(n)
           /\ disk' = [disk EXCEPT ![n] = EmptyFile]
           /\ snapshot' = [snapshot EXCEPT ![n] =
                 [v \in {c[1] : c \in Persisted(n)} |-> memory[v][TypeOf[v]].now]]
    /\ job' = "read"
    /\ out' = <<>> /\ emitted' = <<>>
    /\ UNCHANGED <<memory, known, dirs, node, reading, bounds, stored, synced>>

With(f, v, x) == [u \in DOMAIN f \cup {v} |-> IF u = v THEN x ELSE f[u]]

\* The value is read, and emitted as a text ...
Emit ==
    /\ job = "read"
    /\ todo # {}
    /\ LET c == CHOOSE c \in todo : TRUE
           x == memory[c[1]][c[2]].now
       IN  /\ out' = With(out, c[1], Written(c[2], x))
           /\ emitted' = With(emitted, c[1], x)
           /\ reading' = c
    /\ job' = "mark"
    /\ UNCHANGED <<memory, known, disk, dirs, node, todo, bounds, snapshot, stored, synced>>

\* ... and read again, for valuePersisted.
Mark ==
    /\ job = "mark"
    /\ LET v == reading[1]
           t == reading[2]
       IN  memory' = [memory EXCEPT ![v][t].saved = memory[v][t].now]
    /\ todo' = todo \ {reading}
    /\ reading' = None
    /\ job' = "read"
    /\ UNCHANGED <<known, disk, dirs, node, out, bounds, history>>

\* What the file held of values that are not registered now is lost.
Close ==
    /\ job = "read"
    /\ todo = {}
    /\ disk' = [disk EXCEPT ![Nodes[node]] = File(out)]
    /\ stored' = [v \in Value |-> IF v \in DOMAIN out THEN emitted[v]
                                  ELSE IF Where[v] = Nodes[node] THEN None ELSE stored[v]]
    /\ synced' = synced \cup {Nodes[node]}
    /\ Advance("open")
    /\ out' = <<>>
    /\ UNCHANGED <<memory, known, dirs, todo, reading, bounds, snapshot, emitted>>

-----------------------------------------------------------------------------
(* IONode::load *)

\* Throws if the root has no directory.
BeginLoad ==
    /\ job = "idle"
    /\ Root \in dirs
    /\ known' = known \cup dirs
    /\ job' = "load"
    /\ node' = 1
    /\ UNCHANGED <<memory, disk, dirs, saving, bounds, history>>

\* What loadValues takes a scalar for: a number is an integer if it is read as one and as
\* a double too.  An integer that is no double ("0x1F") is of no type.
Guess(text) ==
    IF text \in Numerals THEN IF text \in Decimals THEN "Int" ELSE None
    ELSE IF text \in Decimals THEN "Float"
    ELSE IF text \in Booleans THEN "Bool" ELSE "Str"
Unread(map) == {v \in DOMAIN map : Guess(map[v]) = None}

LoadedNow(c, x) == [c EXCEPT !.on = TRUE, !.now = x, !.saved = IF c.on THEN @ ELSE x]
LoadedSaved(c, x) == [c EXCEPT !.on = TRUE, !.saved = x]
Loaded(c, x) == [c EXCEPT !.on = TRUE, !.now = x, !.saved = x]

LoadedValues(names, map) ==
    [v \in Value |-> [t \in Types |->
        IF v \in names /\ Guess(map[v]) = t
        THEN Loaded(memory[v][t], Parsed(t, map[v]))
        ELSE memory[v][t]]]

\* loadValues: no file, no values.  A file that is no map throws, and so does a scalar of
\* no type, when some of the others are loaded: the nodes that follow are not.  It takes no
\* lock and keeps no bounds.
LoadNode ==
    /\ job = "load"
    /\ LET n == Nodes[node]
           f == disk[n]
           fails == f.kind = "empty" \/ Unread(f.map) # {}
       IN  \/ /\ ~fails
              /\ memory' = LoadedValues(DOMAIN f.map, f.map)
              /\ synced' = IF f.kind = "whole" THEN synced \cup {n} ELSE synced
              /\ Advance("load")
           \/ /\ fails
              /\ \E names \in SUBSET (DOMAIN f.map \ Unread(f.map)) :
                    memory' = LoadedValues(names, f.map)
              /\ job' = "idle" /\ node' = 1
              /\ UNCHANGED synced
    /\ UNCHANGED <<known, disk, dirs, saving, bounds, snapshot, emitted, stored>>

-----------------------------------------------------------------------------
Next ==
    \/ \E v \in Value : Declare(v) \/ Set(v)
    \/ Crash
    \/ BeginSave \/ SkipNode \/ Open \/ Emit \/ Mark \/ Close
    \/ BeginLoad \/ LoadNode

Spec == Init /\ [][Next]_vars

-----------------------------------------------------------------------------
(* Properties *)

\* What a value may hold, its texts in a file, and what a file may be read as.
AllTexts ==
    (UNION {Texts[v] \cup {Written(TypeOf[v], x) : x \in Texts[v]} : v \in Value})
        \cup {Double[text] : text \in Decimals} \cup {None}

TypeOK ==
    /\ memory \in [Value -> [Types -> [on : BOOLEAN, now : AllTexts, saved : AllTexts,
                                       persisted : BOOLEAN]]]
    /\ known \subseteq Node /\ dirs \subseteq Node
    /\ \A n \in Node : /\ disk[n].kind \in {"absent", "empty", "whole"}
                       /\ DOMAIN disk[n].map \subseteq {v \in Value : Where[v] = n}
    /\ job \in {"idle", "open", "read", "mark", "load"} /\ node \in 1 .. Len(Nodes)
    /\ todo \subseteq Value \X Types
    /\ changes \in 0 .. MaxChanges /\ crashes \in 0 .. MaxCrashes

\* The mutex makes the file of a node a picture of its values at one moment, as they are
\* written, those set with a setRT* apart.  A crash may leave an empty file, and never
\* one with a part of the values.
FileIsSnapshot ==
    \A n \in Node :
        disk[n].kind = "whole" =>
            /\ DOMAIN disk[n].map = DOMAIN snapshot[n]
            /\ \A v \in DOMAIN snapshot[n] \ RealTime :
                  disk[n].map[v] = Written(TypeOf[v], snapshot[n][v])

\* "Everything is clean": once a node was saved or loaded, what diff compares its values
\* with is, as it is written, what its file holds, those set with a setRT* apart:
\* saveValues reads them twice.
DiffIsHonest ==
    \A n \in synced : ~Locked(n) => \A v \in DOMAIN disk[n].map \ RealTime :
        Written(TypeOf[v], memory[v][TypeOf[v]].saved) = disk[n].map[v]

\* "In the same way, you can load it": a load gives each value what it was when its node
\* was last saved, a float to the 15 decimals of its text (Kept).
LoadRestores ==
    [][job = "load" /\ disk[Nodes[node]].kind = "whole" /\ bounds' = bounds =>
          \A v \in Value : /\ Where[v] = Nodes[node]
                           /\ stored[v] # None
                           => memory'[v][TypeOf[v]].now = Kept(v, stored[v])]_vars
=============================================================================
