-------------------------- MODULE PersistenceProofs --------------------------
(***************************************************************************)
(* Saving and loading, for any nodes, values, texts and number of crashes. *)
(* While a save holds the mutex of a node, what it has emitted and what it *)
(* has left to emit make up the picture of that node (SavingOK); a node    *)
(* that was saved or loaded is compared with what its file holds           *)
(* (SyncedOK), and a whole file holds what was stored last (StoredOK).     *)
(***************************************************************************)
EXTENDS Persistence, TLAPS

\* The type of a value is guessed from what it is written like.  A file tells no types.
Unambiguous == \A v \in Value : \A x \in Texts[v] : Guess(Written(TypeOf[v], x)) = TypeOf[v]

\* What a value may be in a file.
Lines(v) == {Written(TypeOf[v], x) : x \in Texts[v]}

Cells == [on : BOOLEAN, now : AllTexts, saved : AllTexts, persisted : BOOLEAN]

\* What a value is registered as by the program has one of its texts, and only that
\* is persisted.
MemoryOK ==
    /\ memory \in [Value -> [Types -> Cells]]
    /\ \A v \in Value : /\ memory[v][TypeOf[v]].on => memory[v][TypeOf[v]].now \in Texts[v]
                        /\ \A t \in Types : memory[v][t].persisted => t = TypeOf[v]

\* What may be in the file of a node.
MapOK(map, n) == \A v \in DOMAIN map : v \in Value /\ Where[v] = n /\ map[v] \in Lines(v)

FilesOK ==
    /\ DOMAIN disk = Node /\ DOMAIN snapshot = Node
    /\ \A n \in Node : MapOK(disk[n].map, n)
    /\ \A n \in Node : disk[n].kind = "empty" => DOMAIN disk[n].map = {}
    /\ job \in {"idle", "open", "read", "mark", "load"}
    /\ node \in 1 .. Len(Nodes)

Counted == changes \in Nat /\ crashes \in Nat

\* While a node is saved: what is left, and what is done.
TodoOK(n) ==
    /\ todo \subseteq {<<v, TypeOf[v]>> : v \in Value}
    /\ \A c \in todo : Where[c[1]] = n /\ memory[c[1]][c[2]].on
    /\ job = "mark" => reading \in todo /\ reading[1] \in DOMAIN out
OutOK(n) ==
    /\ MapOK(out, n) /\ DOMAIN emitted = DOMAIN out
    /\ \A v \in DOMAIN out :
          /\ memory[v][TypeOf[v]].on
          /\ emitted[v] \in Texts[v] /\ out[v] = Written(TypeOf[v], emitted[v])
    /\ \A v \in DOMAIN out \ RealTime :
          /\ out[v] = Written(TypeOf[v], snapshot[n][v])
          /\ Written(TypeOf[v], memory[v][TypeOf[v]].saved) = out[v] \/ <<v, TypeOf[v]>> \in todo
PictureOK(n) ==
    /\ DOMAIN snapshot[n] = DOMAIN out \cup {c[1] : c \in todo}
    /\ \A v \in DOMAIN snapshot[n] \ RealTime : memory[v][TypeOf[v]].now = snapshot[n][v]

SavingOK ==
    job \in {"read", "mark"} =>
        TodoOK(Nodes[node]) /\ OutOK(Nodes[node]) /\ PictureOK(Nodes[node])

SyncedOK ==
    \A n \in synced : ~Locked(n) => \A v \in DOMAIN disk[n].map :
        /\ memory[v][TypeOf[v]].on
        /\ v \notin RealTime => Written(TypeOf[v], memory[v][TypeOf[v]].saved) = disk[n].map[v]

StoredOK ==
    /\ DOMAIN stored = Value
    /\ \A v \in Value : disk[Where[v]].kind = "whole" /\ stored[v] # None =>
           /\ v \in DOMAIN disk[Where[v]].map /\ stored[v] \in Texts[v]
           /\ disk[Where[v]].map[v] = Written(TypeOf[v], stored[v])

\* The inductive invariant.
IInv ==
    /\ MemoryOK /\ FilesOK /\ SavingOK /\ FileIsSnapshot /\ StoredOK
    /\ synced \subseteq Node /\ Counted
    /\ Unambiguous => SyncedOK

-----------------------------------------------------------------------------
(* What the proofs keep needing *)

\* The constants, as the steps use them.
LEMMA Constants ==
    /\ Len(Nodes) \in Nat \ {0}
    /\ \A i \in 1 .. Len(Nodes) : Nodes[i] \in Node
    /\ \A v \in Value : Where[v] \in Node /\ TypeOf[v] \in Types /\ Default[v] \in Texts[v]
    /\ \A v \in Value : \A x \in Texts[v] : x \in AllTexts
    /\ None \in AllTexts
<1>1. Nodes \in Seq(Node) /\ Nodes # <<>>
      BY PersistenceAssumption
<1>2. Len(Nodes) \in Nat \ {0} /\ \A i \in 1 .. Len(Nodes) : Nodes[i] \in Node
      BY <1>1
<1>3. \A v \in Value : Where[v] \in Node /\ TypeOf[v] \in Types /\ Default[v] \in Texts[v]
      BY PersistenceAssumption
<1>4. ASSUME NEW v \in Value, NEW x \in Texts[v] PROVE x \in AllTexts
  <2> DEFINE H(u) == Texts[u] \cup {Written(TypeOf[u], y) : y \in Texts[u]}
  <2>1. H(v) \in {H(u) : u \in Value} /\ x \in H(v)
        OBVIOUS
  <2> QED BY <2>1 DEF AllTexts
<1>5. None \in AllTexts
      BY DEF AllTexts
<1> QED BY <1>2, <1>3, <1>4, <1>5

\* What a text of a file is read as, if its type is guessed: a value, and one of those the
\* text is written from if the guess is right.
LEMMA Reading ==
    ASSUME NEW v \in Value, NEW text \in Lines(v), Guess(text) \in Types
    PROVE  /\ Parsed(Guess(text), text) \in AllTexts
           /\ Guess(text) = TypeOf[v] => /\ Parsed(TypeOf[v], text) \in Texts[v]
                                          /\ Written(TypeOf[v], Parsed(TypeOf[v], text)) = text
<1>1. PICK x \in Texts[v] : text = Written(TypeOf[v], x)
      BY DEF Lines
<1>2. Guess(text) = "Float" => text \in Decimals
      BY DEF Guess, None
<1>3. Parsed(Guess(text), text) \in AllTexts
  <2>1. CASE Guess(text) = "Float"
        BY <1>2, <2>1 DEF Parsed, AllTexts
  <2>2. CASE Guess(text) # "Float"
    <3> DEFINE H(u) == Texts[u] \cup {Written(TypeOf[u], y) : y \in Texts[u]}
    <3>1. H(v) \in {H(u) : u \in Value} /\ text \in H(v)
          BY <1>1
    <3>2. text \in AllTexts
          BY <3>1 DEF AllTexts
    <3> QED BY <2>2, <3>2 DEF Parsed
  <2> QED BY <2>1, <2>2
<1>4. ASSUME Guess(text) = TypeOf[v]
      PROVE  /\ Parsed(TypeOf[v], text) \in Texts[v]
             /\ Written(TypeOf[v], Parsed(TypeOf[v], text)) = text
  <2>1. CASE TypeOf[v] = "Float"
        BY <1>1, <1>2, <1>4, <2>1, FloatAssumption DEF Kept, Written, Parsed
  <2>2. CASE TypeOf[v] # "Float"
        BY <1>1, <2>2 DEF Written, Parsed
  <2> QED BY <2>1, <2>2
<1> QED BY <1>3, <1>4

\* What a registration makes of a cell, and a load.
LEMMA NewCell ==
    ASSUME NEW x \in AllTexts
    PROVE  /\ Cell(x, TRUE) \in Cells /\ Cell(x, TRUE).on /\ Cell(x, TRUE).now = x
BY DEF Cell, Cells

LEMMA LoadedCell ==
    ASSUME NEW x \in AllTexts, NEW c \in Cells
    PROVE  /\ Loaded(c, x) \in Cells /\ Loaded(c, x).on /\ Loaded(c, x).now = x
           /\ Loaded(c, x).saved = x /\ Loaded(c, x).persisted = c.persisted
BY DEF Loaded, Cells

\* A cell in which one field was changed.
LEMMA Changed ==
    ASSUME NEW c \in Cells, NEW x \in AllTexts
    PROVE  /\ [c EXCEPT !.now = x] \in Cells
           /\ [c EXCEPT !.now = x].now = x
           /\ [c EXCEPT !.now = x].on = c.on
           /\ [c EXCEPT !.now = x].saved = c.saved
           /\ [c EXCEPT !.now = x].persisted = c.persisted
           /\ [c EXCEPT !.saved = x] \in Cells
           /\ [c EXCEPT !.saved = x].saved = x
           /\ [c EXCEPT !.saved = x].on = c.on
           /\ [c EXCEPT !.saved = x].now = c.now
           /\ [c EXCEPT !.saved = x].persisted = c.persisted
           /\ [c EXCEPT !.persisted = TRUE] \in Cells
           /\ [c EXCEPT !.persisted = TRUE].on = c.on
           /\ [c EXCEPT !.persisted = TRUE].now = c.now
           /\ [c EXCEPT !.persisted = TRUE].saved = c.saved
BY DEF Cells

\* Going on to the next node stays among the nodes.
LEMMA Advancing ==
    ASSUME NEW kind, node \in 1 .. Len(Nodes), Advance(kind)
    PROVE  node' \in 1 .. Len(Nodes) /\ job' \in {"idle", kind}
BY Constants DEF Advance

\* The invariant holds when the program is first started.
LEMMA InitIInv == Init => IInv
<1> SUFFICES ASSUME Init PROVE IInv
    OBVIOUS
<1>1. MemoryOK
  <2>1. NoCell \in Cells /\ ~NoCell.on /\ ~NoCell.persisted
        BY Constants DEF NoCell, Cells
  <2> QED BY <2>1, Constants DEF MemoryOK, Init, Blank
<1>2. FilesOK
      BY Constants DEF FilesOK, Init, NoFile, MapOK
<1>3. SavingOK
      BY DEF SavingOK, Init
<1>4. FileIsSnapshot
      BY DEF FileIsSnapshot, Init, NoFile
<1>5. StoredOK
      BY DEF StoredOK, Init
<1>6. synced \subseteq Node /\ SyncedOK
      BY DEF SyncedOK, Init
<1>7. Counted
      BY DEF Counted, Init
<1> QED BY <1>1, <1>2, <1>3, <1>4, <1>5, <1>6, <1>7 DEF IInv

-----------------------------------------------------------------------------
(* What is in memory *)

\* A step of a save but the second read of a value leaves the memory alone.
LEMMA Aloof ==
    ASSUME BeginSave \/ SkipNode \/ Open \/ Emit \/ Close \/ BeginLoad \/ UNCHANGED vars
    PROVE  memory' = memory
BY DEF BeginSave, SkipNode, Open, Emit, Close, BeginLoad, vars

\* What Declare does to the memory.
LEMMA Declared ==
    ASSUME MemoryOK, NEW v \in Value, Declare(v)
    PROVE  /\ MemoryOK'
           /\ \A u \in Value, t \in Types : memory[u][t].on =>
                 /\ memory'[u][t].on
                 /\ memory'[u][t].now = memory[u][t].now
                 /\ memory'[u][t].saved = memory[u][t].saved
<1> DEFINE t == TypeOf[v]
<1>1. v \in Value /\ t \in Types /\ Default[v] \in Texts[v] /\ Default[v] \in AllTexts
      BY Constants
<1>2. memory[v][t] \in Cells
      BY <1>1 DEF MemoryOK
<1>3. CASE Registered(v) = None
  <2>1. memory' = [memory EXCEPT ![v][t] = Cell(Default[v], TRUE)]
        BY <1>1, <1>3 DEF Declare, Types, None
  <2>2. /\ Cell(Default[v], TRUE) \in Cells /\ Cell(Default[v], TRUE).on
        /\ Cell(Default[v], TRUE).now = Default[v]
        BY <1>1, NewCell
  <2>3. ~memory[v][t].on
        BY <1>1, <1>3 DEF Registered, Types, None
  <2> HIDE DEF t
  <2> QED BY <1>1, <2>1, <2>2, <2>3 DEF MemoryOK, t
<1>4. CASE Registered(v) = t
  <2>1. memory' = [memory EXCEPT ![v][t].persisted = TRUE]
        BY <1>4, <1>1 DEF Declare, Types, None
  <2>2. memory' = [memory EXCEPT ![v][t] = [memory[v][t] EXCEPT !.persisted = TRUE]]
        BY <2>1
  <2>3. /\ [memory[v][t] EXCEPT !.persisted = TRUE] \in Cells
        /\ [memory[v][t] EXCEPT !.persisted = TRUE].on = memory[v][t].on
        /\ [memory[v][t] EXCEPT !.persisted = TRUE].now = memory[v][t].now
        /\ [memory[v][t] EXCEPT !.persisted = TRUE].saved = memory[v][t].saved
        BY <1>1, <1>2, Changed
  <2> HIDE DEF t
  <2> QED BY <1>1, <2>2, <2>3 DEF MemoryOK, t
<1>5. CASE Registered(v) # None /\ Registered(v) # t
  <2>1. memory' = memory
        BY <1>5 DEF Declare
  <2> QED BY <2>1 DEF MemoryOK
<1> QED BY <1>3, <1>4, <1>5

\* What Set does to it.
LEMMA SetTo ==
    ASSUME MemoryOK, NEW v \in Value, Set(v)
    PROVE  /\ MemoryOK'
           /\ \A u \in Value, t \in Types :
                 /\ memory'[u][t].on = memory[u][t].on
                 /\ memory'[u][t].saved = memory[u][t].saved
                 /\ memory'[u][t].persisted = memory[u][t].persisted
                 /\ u # v => memory'[u][t].now = memory[u][t].now
<1> DEFINE t == TypeOf[v]
<1>1. PICK x \in Texts[v] : memory' = [memory EXCEPT ![v][t].now = x]
      BY DEF Set
<1>2. t \in Types /\ x \in AllTexts
      BY Constants
<1>3. memory[v][t] \in Cells
      BY <1>2 DEF MemoryOK
<1>4. memory' = [memory EXCEPT ![v][t] = [memory[v][t] EXCEPT !.now = x]]
      BY <1>1
<1>5. /\ [memory[v][t] EXCEPT !.now = x] \in Cells
      /\ [memory[v][t] EXCEPT !.now = x].now = x
      /\ [memory[v][t] EXCEPT !.now = x].on = memory[v][t].on
      /\ [memory[v][t] EXCEPT !.now = x].saved = memory[v][t].saved
      /\ [memory[v][t] EXCEPT !.now = x].persisted = memory[v][t].persisted
      BY <1>2, <1>3, Changed
<1> HIDE DEF t
<1> QED BY <1>2, <1>4, <1>5 DEF MemoryOK, t

\* What Mark does to it.
LEMMA Marked ==
    ASSUME MemoryOK, SavingOK, Mark
    PROVE  /\ MemoryOK'
           /\ \E v \in Value :
                 /\ reading = <<v, TypeOf[v]>> /\ v \in DOMAIN out
                 /\ Where[v] = Nodes[node]
                 /\ memory'[v][TypeOf[v]].saved = memory[v][TypeOf[v]].now
                 /\ \A u \in Value : u # v => memory'[u] = memory[u]
           /\ \A u \in Value, t \in Types :
                 /\ memory'[u][t].on = memory[u][t].on
                 /\ memory'[u][t].now = memory[u][t].now
<1>1. TodoOK(Nodes[node]) /\ job = "mark"
      BY DEF SavingOK, Mark
<1>2. PICK v \in Value : reading = <<v, TypeOf[v]>> /\ v \in DOMAIN out
      BY <1>1 DEF TodoOK
<1>3. Where[v] = Nodes[node]
      BY <1>1, <1>2 DEF TodoOK
<1> DEFINE t == TypeOf[v]  x == memory[v][t].now
<1>4. t \in Types
      BY Constants
<1>5. memory[v][t] \in Cells /\ x \in AllTexts
      BY <1>4 DEF MemoryOK, Cells
<1>6. memory' = [memory EXCEPT ![v][t].saved = x]
      BY <1>2 DEF Mark
<1>7. memory' = [memory EXCEPT ![v][t] = [memory[v][t] EXCEPT !.saved = x]]
      BY <1>6
<1>8. /\ [memory[v][t] EXCEPT !.saved = x] \in Cells
      /\ [memory[v][t] EXCEPT !.saved = x].saved = x
      /\ [memory[v][t] EXCEPT !.saved = x].on = memory[v][t].on
      /\ [memory[v][t] EXCEPT !.saved = x].now = memory[v][t].now
      /\ [memory[v][t] EXCEPT !.saved = x].persisted = memory[v][t].persisted
      BY <1>5, Changed
<1>9. x = memory[v][TypeOf[v]].now
      OBVIOUS
<1> HIDE DEF x
<1>10. MemoryOK'
  <2> HIDE DEF t
  <2> QED BY <1>4, <1>7, <1>8 DEF MemoryOK
<1>11. \A u \in Value, s \in Types :
          memory'[u][s].on = memory[u][s].on /\ memory'[u][s].now = memory[u][s].now
  <2> HIDE DEF t
  <2> QED BY <1>4, <1>7, <1>8 DEF MemoryOK
<1>12. memory'[v][TypeOf[v]].saved = x /\ \A u \in Value : u # v => memory'[u] = memory[u]
      BY <1>4, <1>7, <1>8 DEF MemoryOK
<1> QED BY <1>2, <1>3, <1>9, <1>10, <1>11, <1>12

\* A load that throws.
Fails(f) == f.kind = "empty" \/ Unread(f.map) # {}

\* What the memory is once the values of names were loaded from a file.
Took(names, map) ==
    \A v \in Value, t \in Types :
        LET c == memory'[v][t]
        IN  IF v \in names /\ Guess(map[v]) = t
            THEN c.on /\ c.now = Parsed(t, map[v]) /\ c.saved = c.now
            ELSE c = memory[v][t]

\* What loading some of the values of a file does to the memory.
LEMMA LoadedSome ==
    ASSUME MemoryOK, NEW n \in Node, NEW map, MapOK(map, n), NEW names \in SUBSET DOMAIN map,
           memory' = LoadedValues(names, map)
    PROVE  MemoryOK' /\ Took(names, map)
<1>1. memory' = [v \in Value |-> [t \in Types |->
          IF v \in names /\ Guess(map[v]) = t
          THEN Loaded(memory[v][t], Parsed(t, map[v])) ELSE memory[v][t]]]
      BY DEF LoadedValues
<1>2. \A v \in Value, t \in Types : memory[v][t] \in Cells
      BY DEF MemoryOK
<1>3. \A v \in names : map[v] \in Lines(v) /\ v \in Value
      BY DEF MapOK
<1>4. ASSUME NEW v \in Value, NEW t \in Types, v \in names, Guess(map[v]) = t
      PROVE  /\ memory'[v][t] \in Cells /\ memory'[v][t].on
             /\ memory'[v][t].now = Parsed(t, map[v]) /\ memory'[v][t].saved = Parsed(t, map[v])
             /\ memory'[v][t].persisted = memory[v][t].persisted
             /\ t = TypeOf[v] => memory'[v][t].now \in Texts[v]
  <2>1. memory'[v][t] = Loaded(memory[v][t], Parsed(t, map[v]))
        BY <1>1, <1>4
  <2>2. PICK c \in Cells : c = memory[v][t]
        BY <1>2
  <2>3. Parsed(t, map[v]) \in AllTexts /\ (t = TypeOf[v] => Parsed(t, map[v]) \in Texts[v])
        BY <1>3, <1>4, Reading
  <2>4. PICK x \in AllTexts : x = Parsed(t, map[v])
        BY <2>3
  <2>5. /\ Loaded(c, x) \in Cells /\ Loaded(c, x).on /\ Loaded(c, x).now = x
        /\ Loaded(c, x).saved = x /\ Loaded(c, x).persisted = c.persisted
        BY LoadedCell
  <2> QED BY <2>1, <2>2, <2>3, <2>4, <2>5
<1>5. \A v \in Value, t \in Types :
          ~(v \in names /\ Guess(map[v]) = t) => memory'[v][t] = memory[v][t]
      BY <1>1
<1>6. memory' \in [Value -> [Types -> Cells]]
  <2>1. \A v \in Value, t \in Types : memory'[v][t] \in Cells
        BY <1>2, <1>4, <1>5
  <2> QED BY <2>1, <1>1
<1>7. ASSUME NEW v \in Value
      PROVE  /\ memory'[v][TypeOf[v]].on => memory'[v][TypeOf[v]].now \in Texts[v]
             /\ \A t \in Types : memory'[v][t].persisted => t = TypeOf[v]
  <2>1. TypeOf[v] \in Types
        BY Constants
  <2>2. \A t \in Types : memory'[v][t].persisted = memory[v][t].persisted
        BY <1>4, <1>5
  <2> QED BY <2>1, <2>2, <1>4, <1>5 DEF MemoryOK
<1>8. MemoryOK'
      BY <1>6, <1>7 DEF MemoryOK
<1>9. Took(names, map)
      BY <1>4, <1>5 DEF Took
<1> QED BY <1>8, <1>9

\* What LoadNode does to it.
LEMMA LoadedFrom ==
    ASSUME MemoryOK, FilesOK, LoadNode
    PROVE  LET f == disk[Nodes[node]]
           IN  /\ MemoryOK'
               /\ \E names \in SUBSET DOMAIN f.map : Took(names, f.map)
               /\ IF Fails(f) THEN synced' = synced ELSE Took(DOMAIN f.map, f.map)
<1> DEFINE n == Nodes[node]  f == disk[n]
<1>1. n \in Node /\ MapOK(f.map, n)
      BY Constants DEF FilesOK
<1>2. CASE Fails(f)
  <2>1. synced' = synced
        BY <1>2 DEF LoadNode, Fails
  <2>2. PICK names \in SUBSET DOMAIN f.map : memory' = LoadedValues(names, f.map)
        BY <1>2 DEF LoadNode, Fails
  <2>3. MemoryOK' /\ Took(names, f.map)
        BY <1>1, <2>2, LoadedSome
  <2> QED BY <1>2, <2>1, <2>3
<1>3. CASE ~Fails(f)
  <2>1. memory' = LoadedValues(DOMAIN f.map, f.map)
        BY <1>3 DEF LoadNode, Fails
  <2>2. MemoryOK' /\ Took(DOMAIN f.map, f.map)
        BY <1>1, <2>1, LoadedSome
  <2> QED BY <1>3, <2>2
<1> QED BY <1>2, <1>3

\* A file of texts whose types can be guessed fails only when it is empty.
LEMMA AllRead ==
    ASSUME Unambiguous, NEW n \in Node, NEW map, MapOK(map, n)
    PROVE  /\ Unread(map) = {}
           /\ \A v \in DOMAIN map : Guess(map[v]) = TypeOf[v] /\ Guess(map[v]) \in Types
<1>1. ASSUME NEW v \in DOMAIN map
      PROVE  Guess(map[v]) = TypeOf[v] /\ Guess(map[v]) \in Types /\ Guess(map[v]) # None
  <2>1. PICK x \in Texts[v] : map[v] = Written(TypeOf[v], x)
        BY DEF MapOK, Lines
  <2>2. v \in Value /\ TypeOf[v] \in Types
        BY Constants DEF MapOK
  <2> QED BY <2>1, <2>2 DEF Unambiguous, Types, None
<1> QED BY <1>1 DEF Unread

\* The memory keeps its types.
LEMMA MemoryStep == MemoryOK /\ FilesOK /\ SavingOK /\ [Next]_vars => MemoryOK'
<1> SUFFICES ASSUME MemoryOK, FilesOK, SavingOK, [Next]_vars PROVE MemoryOK'
    OBVIOUS
<1>1. ASSUME NEW v \in Value, Declare(v) \/ Set(v) PROVE MemoryOK'
      BY <1>1, Declared, SetTo
<1>2. CASE Crash
  <2>1. NoCell \in Cells /\ ~NoCell.on /\ ~NoCell.persisted
        BY Constants DEF NoCell, Cells
  <2> QED BY <1>2, <2>1, Constants DEF MemoryOK, Crash, Blank
<1>3. CASE Mark
      BY <1>3, Marked
<1>4. CASE LoadNode
      BY <1>4, LoadedFrom
<1>5. CASE BeginSave \/ SkipNode \/ Open \/ Emit \/ Close \/ BeginLoad \/ UNCHANGED vars
      BY <1>5, Aloof DEF MemoryOK
<1> QED BY <1>1, <1>2, <1>3, <1>4, <1>5 DEF Next

-----------------------------------------------------------------------------
(* What is in the files *)

\* The files keep the values of their nodes, with texts of theirs.
LEMMA FilesStep == FilesOK /\ SavingOK /\ [Next]_vars => FilesOK'
<1> SUFFICES ASSUME FilesOK, SavingOK, [Next]_vars PROVE FilesOK'
    OBVIOUS
<1>n. Nodes[node] \in Node
      BY Constants DEF FilesOK
<1>1. ASSUME NEW v \in Value, Declare(v) \/ Set(v) PROVE FilesOK'
      BY <1>1 DEF FilesOK, Declare, Set, history, MapOK
<1>2. CASE Crash
      BY <1>2, Constants DEF FilesOK, Crash, MapOK
<1>3. CASE BeginSave \/ BeginLoad
      BY <1>3, Constants DEF FilesOK, BeginSave, BeginLoad, history, MapOK
<1>4. CASE SkipNode
  <2>1. node' \in 1 .. Len(Nodes) /\ job' \in {"idle", "open"}
        BY <1>4, Advancing DEF SkipNode, FilesOK
  <2> QED BY <1>4, <2>1 DEF FilesOK, SkipNode, history, MapOK
<1>5. CASE Open
  <2>1. disk' = [disk EXCEPT ![Nodes[node]] = EmptyFile] /\ DOMAIN snapshot' = Node
        BY <1>5 DEF Open, FilesOK
  <2>2. EmptyFile.map = <<>>
        BY DEF EmptyFile
  <2>3. /\ \A n \in Node : MapOK(disk'[n].map, n)
        /\ \A n \in Node : disk'[n].kind = "empty" => DOMAIN disk'[n].map = {}
        BY <2>1, <2>2, <1>n DEF FilesOK, MapOK
  <2>4. DOMAIN disk' = Node /\ job' = "read" /\ node' = node
        BY <1>5, <2>1 DEF FilesOK, Open
  <2> QED BY <2>1, <2>3, <2>4 DEF FilesOK
<1>6. CASE Emit \/ Mark
      BY <1>6 DEF FilesOK, Emit, Mark, history, MapOK
<1>7. CASE Close
  <2>1. node' \in 1 .. Len(Nodes) /\ job' \in {"idle", "open"}
        BY <1>7, Advancing DEF Close, FilesOK
  <2>2. MapOK(out, Nodes[node])
        BY <1>7 DEF Close, SavingOK, OutOK
  <2>3. /\ disk' = [disk EXCEPT ![Nodes[node]] = File(out)]
        /\ File(out).map = out /\ File(out).kind = "whole"
        BY <1>7 DEF Close, File
  <2>4. /\ \A n \in Node : MapOK(disk'[n].map, n)
        /\ \A n \in Node : disk'[n].kind = "empty" => DOMAIN disk'[n].map = {}
        BY <2>2, <2>3, <1>n DEF FilesOK
  <2>5. DOMAIN disk' = Node /\ DOMAIN snapshot' = Node
        BY <1>7, <2>3 DEF FilesOK, Close
  <2> QED BY <2>1, <2>4, <2>5 DEF FilesOK
<1>8. CASE LoadNode
  <2>1. node' \in 1 .. Len(Nodes) /\ job' \in {"idle", "load"}
        BY <1>8, Constants, Advancing DEF LoadNode, FilesOK
  <2> QED BY <1>8, <2>1 DEF FilesOK, LoadNode, MapOK
<1>9. CASE UNCHANGED vars
      BY <1>9 DEF FilesOK, vars, MapOK
<1> QED BY <1>1, <1>2, <1>3, <1>4, <1>5, <1>6, <1>7, <1>8, <1>9 DEF Next

-----------------------------------------------------------------------------
(* What a save makes of them *)

\* A save that goes on has the same node, and what it is about to read or emit is kept.
LEMMA SavingStep == MemoryOK /\ FilesOK /\ SavingOK /\ [Next]_vars => SavingOK'
<1> SUFFICES ASSUME MemoryOK, FilesOK, SavingOK, [Next]_vars, job' \in {"read", "mark"}
             PROVE  TodoOK(Nodes[node])' /\ OutOK(Nodes[node])' /\ PictureOK(Nodes[node])'
    BY DEF SavingOK
<1> DEFINE n == Nodes[node]
<1>n. n \in Node
      BY Constants DEF FilesOK
<1>o. job \in {"read", "mark"} => TodoOK(n) /\ OutOK(n) /\ PictureOK(n)
      BY DEF SavingOK
<1>t. \A v \in Value : TypeOf[v] \in Types
      BY Constants
<1>1. ASSUME NEW v \in Value, Set(v)
      PROVE  TodoOK(n)' /\ OutOK(n)' /\ PictureOK(n)'
  <2>1. job \in {"read", "mark"} /\ UNCHANGED <<job, node, out, todo, reading, snapshot, emitted>>
        BY <1>1 DEF Set, saving, history
  <2>2. /\ \A u \in Value, t \in Types :
              /\ memory'[u][t].on = memory[u][t].on
              /\ memory'[u][t].saved = memory[u][t].saved
              /\ u # v => memory'[u][t].now = memory[u][t].now
        BY <1>1, SetTo
  <2>3. v \in RealTime \/ Where[v] # n
        BY <1>1, <2>1 DEF Set, Permitted, Locked
  <2>4. TodoOK(n)'
    <3>1. \A c \in todo : c[1] \in Value /\ c[2] \in Types
          BY <1>o, <1>t, <2>1 DEF TodoOK
    <3> QED BY <1>o, <2>1, <2>2, <3>1 DEF TodoOK
  <2>5. OutOK(n)'
        BY <1>o, <1>t, <2>1, <2>2 DEF OutOK, MapOK
  <2>6. \A u \in DOMAIN snapshot[n] : u \in Value /\ Where[u] = n
        BY <1>o, <2>1 DEF OutOK, PictureOK, TodoOK, MapOK
  <2>7. PictureOK(n)'
        BY <1>o, <1>t, <2>1, <2>2, <2>3, <2>6 DEF PictureOK
  <2> QED BY <2>4, <2>5, <2>7
<1>2. CASE Open
  <2>1. /\ job' = "read" /\ out' = <<>> /\ todo' = Persisted(n) /\ memory' = memory
        /\ node' = node
        /\ snapshot'[n] = [v \in {c[1] : c \in Persisted(n)} |-> memory[v][TypeOf[v]].now]
        BY <1>2, <1>n DEF Open, FilesOK
  <2>2. ASSUME NEW c \in Persisted(n)
        PROVE  /\ c[1] \in Value /\ c = <<c[1], TypeOf[c[1]]>>
               /\ Where[c[1]] = n /\ memory[c[1]][c[2]].on
        BY DEF Persisted, MemoryOK
  <2>3. TodoOK(n)'
        BY <2>1, <2>2 DEF TodoOK
  <2>4. DOMAIN out' = {} /\ DOMAIN emitted' = {}
        BY <1>2, <2>1 DEF Open
  <2>5. OutOK(n)'
        BY <2>4 DEF OutOK, MapOK
  <2>6. PictureOK(n)'
        BY <2>1, <2>4 DEF PictureOK
  <2> QED BY <2>1, <2>3, <2>5, <2>6
<1>3. CASE Emit
  <2>1. PICK c \in todo : /\ out' = With(out, c[1], Written(c[2], memory[c[1]][c[2]].now))
                          /\ emitted' = With(emitted, c[1], memory[c[1]][c[2]].now)
                          /\ reading' = c
        BY <1>3 DEF Emit
  <2>2. /\ job = "read" /\ TodoOK(n) /\ OutOK(n) /\ PictureOK(n)
        /\ UNCHANGED <<memory, todo, node, snapshot>>
        BY <1>3, <1>o DEF Emit
  <2>3. PICK u \in Value : c = <<u, TypeOf[u]>>
        BY <2>2 DEF TodoOK
  <2>4. Where[u] = n /\ memory[u][TypeOf[u]].on /\ c[1] = u
        BY <2>2, <2>3 DEF TodoOK
  <2>5. PICK x \in Texts[u] : x = memory[u][TypeOf[u]].now
        BY <2>4 DEF MemoryOK
  <2>6. /\ DOMAIN out' = DOMAIN out \cup {u} /\ out'[u] = Written(TypeOf[u], x)
        /\ \A v \in DOMAIN out : v # u => out'[v] = out[v]
        BY <2>1, <2>3, <2>5 DEF With
  <2>14. /\ DOMAIN emitted' = DOMAIN out \cup {u} /\ emitted'[u] = x
        /\ \A v \in DOMAIN out : v # u => emitted'[v] = emitted[v]
        BY <2>1, <2>2, <2>3, <2>5 DEF With, OutOK
  <2>7. u \in DOMAIN snapshot[n]
        BY <2>2, <2>4 DEF PictureOK
  <2>8. TodoOK(n)'
        BY <2>1, <2>2, <2>4, <2>6 DEF TodoOK
  <2>9. out'[u] \in Lines(u)
        BY <2>6 DEF Lines
  <2>10. MapOK(out', n)
        BY <2>2, <2>4, <2>6, <2>9 DEF OutOK, MapOK
  <2>11. u \notin RealTime => x = snapshot[n][u]
        BY <2>2, <2>5, <2>7 DEF PictureOK
  <2>12. OutOK(n)'
    <3>1. ASSUME NEW v \in DOMAIN out'
          PROVE  /\ memory[v][TypeOf[v]].on
                 /\ emitted'[v] \in Texts[v] /\ out'[v] = Written(TypeOf[v], emitted'[v])
      <4>1. CASE v = u
            BY <2>4, <2>6, <2>14, <4>1
      <4>2. CASE v # u
            BY <2>2, <2>6, <2>14, <4>2 DEF OutOK
      <4> QED BY <4>1, <4>2
    <3>2. ASSUME NEW v \in DOMAIN out' \ RealTime
          PROVE  /\ out'[v] = Written(TypeOf[v], snapshot[n][v])
                 /\ \/ Written(TypeOf[v], memory[v][TypeOf[v]].saved) = out'[v]
                    \/ <<v, TypeOf[v]>> \in todo
      <4>1. CASE v = u
            BY <2>1, <2>3, <2>6, <2>11, <4>1
      <4>2. CASE v # u
            BY <2>2, <2>6, <3>2, <4>2 DEF OutOK
      <4> QED BY <4>1, <4>2
    <3> QED BY <2>2, <2>6, <2>10, <2>14, <3>1, <3>2 DEF OutOK
  <2>13. PictureOK(n)'
        BY <2>2, <2>4, <2>6 DEF PictureOK
  <2> QED BY <2>2, <2>8, <2>12, <2>13
<1>4. CASE Mark
  <2>1. /\ job = "mark" /\ TodoOK(n) /\ OutOK(n) /\ PictureOK(n)
        /\ job' = "read" /\ todo' = todo \ {reading}
        /\ UNCHANGED <<out, node, snapshot, emitted>>
        BY <1>4, <1>o DEF Mark, history
  <2>2. PICK v \in Value :
           /\ reading = <<v, TypeOf[v]>> /\ v \in DOMAIN out
           /\ memory'[v][TypeOf[v]].saved = memory[v][TypeOf[v]].now
           /\ \A u \in Value : u # v => memory'[u] = memory[u]
        BY <1>4, Marked
  <2>3. \A u \in Value, t \in Types : /\ memory'[u][t].on = memory[u][t].on
                                      /\ memory'[u][t].now = memory[u][t].now
        BY <1>4, Marked
  <2>4. TodoOK(n)'
    <3>1. \A c \in todo : c[1] \in Value /\ c[2] \in Types
          BY <1>t, <2>1 DEF TodoOK
    <3> QED BY <2>1, <2>3, <3>1 DEF TodoOK
  <2>5. v \in DOMAIN snapshot[n]
        BY <2>1, <2>2 DEF PictureOK
  <2>6. v \notin RealTime => Written(TypeOf[v], memory'[v][TypeOf[v]].saved) = out[v]
        BY <2>1, <2>2, <2>5 DEF PictureOK, OutOK
  <2>7. ASSUME NEW u \in DOMAIN out \ RealTime
        PROVE  \/ Written(TypeOf[u], memory'[u][TypeOf[u]].saved) = out[u]
               \/ <<u, TypeOf[u]>> \in todo'
        BY <2>1, <2>2, <2>6 DEF OutOK, MapOK
  <2>8. OutOK(n)'
        BY <1>t, <2>1, <2>3, <2>7 DEF OutOK, MapOK
  <2>9. PictureOK(n)'
    <3>1. DOMAIN snapshot[n] = DOMAIN out \cup {c[1] : c \in todo'}
      <4>1. DOMAIN snapshot[n] = DOMAIN out \cup {c[1] : c \in todo}
            BY <2>1 DEF PictureOK
      <4>2. \A c \in todo : c \in todo' \/ c[1] \in DOMAIN out
            BY <2>1, <2>2
      <4>3. todo' \subseteq todo
            BY <2>1
      <4> QED BY <4>1, <4>2, <4>3
    <3>2. \A u \in DOMAIN snapshot[n] : u \in Value
          BY <2>1 DEF OutOK, PictureOK, TodoOK, MapOK
    <3> QED BY <1>t, <2>1, <2>3, <3>1, <3>2 DEF PictureOK
  <2> QED BY <2>1, <2>4, <2>8, <2>9
<1>5. CASE UNCHANGED vars
      BY <1>5, <1>o DEF vars, TodoOK, OutOK, PictureOK, MapOK
<1>6. ASSUME \/ \E v \in Value : Declare(v)
             \/ Crash \/ BeginSave \/ SkipNode \/ Close \/ BeginLoad \/ LoadNode
      PROVE  FALSE
  <2>1. job' \in {"idle", "open", "load"}
        BY <1>6 DEF Declare, Crash, BeginSave, SkipNode, Close, BeginLoad, LoadNode, Advance
  <2> QED BY <2>1
<1> QED BY <1>1, <1>2, <1>3, <1>4, <1>5, <1>6 DEF Next

\* A file is only ever closed whole, with the picture its save has kept.
LEMMA SnapshotStep ==
    FilesOK /\ SavingOK /\ FileIsSnapshot /\ [Next]_vars => FileIsSnapshot'
<1> SUFFICES ASSUME FilesOK, SavingOK, FileIsSnapshot, [Next]_vars PROVE FileIsSnapshot'
    OBVIOUS
<1> DEFINE n == Nodes[node]
<1>n. n \in Node
      BY Constants DEF FilesOK
<1>1. CASE Open
  <2>1. /\ disk' = [disk EXCEPT ![n] = EmptyFile] /\ EmptyFile.kind = "empty"
        /\ DOMAIN snapshot' = Node /\ \A m \in Node : m # n => snapshot'[m] = snapshot[m]
        BY <1>1 DEF Open, EmptyFile, FilesOK
  <2> QED BY <1>n, <2>1 DEF FileIsSnapshot, FilesOK
<1>2. CASE Close
  <2>1. /\ disk' = [disk EXCEPT ![n] = File(out)] /\ File(out).map = out
        /\ snapshot' = snapshot /\ todo = {}
        BY <1>2 DEF Close, File
  <2>2. OutOK(n) /\ PictureOK(n)
        BY <1>2 DEF Close, SavingOK
  <2>3. /\ DOMAIN out = DOMAIN snapshot[n]
        /\ \A v \in DOMAIN out \ RealTime : out[v] = Written(TypeOf[v], snapshot[n][v])
        BY <2>1, <2>2 DEF OutOK, PictureOK
  <2> QED BY <1>n, <2>1, <2>3 DEF FileIsSnapshot, FilesOK
<1>3. CASE UNCHANGED <<disk, snapshot>>
      BY <1>3 DEF FileIsSnapshot
<1>4. ASSUME ~Open, ~Close PROVE UNCHANGED <<disk, snapshot>>
      BY <1>4 DEF Next, Declare, Set, Crash, BeginSave, SkipNode, Emit, Mark, BeginLoad, LoadNode,
         history, vars
<1> QED BY <1>1, <1>2, <1>3, <1>4

\* What was stored last of a value is in the file, if the file is whole.
LEMMA StoredStep ==
    FilesOK /\ SavingOK /\ StoredOK /\ [Next]_vars => StoredOK'
<1> SUFFICES ASSUME FilesOK, SavingOK, StoredOK, [Next]_vars PROVE StoredOK'
    OBVIOUS
<1> DEFINE n == Nodes[node]
<1>n. n \in Node /\ \A v \in Value : Where[v] \in Node
      BY Constants DEF FilesOK
<1>1. CASE Open
  <2>1. disk' = [disk EXCEPT ![n] = EmptyFile] /\ EmptyFile.kind = "empty" /\ stored' = stored
        BY <1>1 DEF Open, EmptyFile
  <2> QED BY <1>n, <2>1 DEF StoredOK, FilesOK
<1>2. CASE Close
  <2>1. /\ disk' = [disk EXCEPT ![n] = File(out)] /\ File(out).map = out
        /\ stored' = [v \in Value |-> IF v \in DOMAIN out THEN emitted[v]
                                      ELSE IF Where[v] = n THEN None ELSE stored[v]]
        BY <1>2 DEF Close, File
  <2>2. /\ MapOK(out, n)
        /\ \A v \in DOMAIN out : emitted[v] \in Texts[v] /\ out[v] = Written(TypeOf[v], emitted[v])
        BY <1>2 DEF Close, SavingOK, OutOK
  <2>3. ASSUME NEW v \in Value, disk'[Where[v]].kind = "whole", stored'[v] # None
        PROVE  /\ v \in DOMAIN disk'[Where[v]].map /\ stored'[v] \in Texts[v]
               /\ disk'[Where[v]].map[v] = Written(TypeOf[v], stored'[v])
    <3>1. CASE Where[v] = n
          BY <1>n, <2>1, <2>2, <2>3, <3>1 DEF FilesOK
    <3>2. CASE Where[v] # n
          BY <1>n, <2>1, <2>2, <2>3, <3>2 DEF FilesOK, StoredOK, MapOK
    <3> QED BY <3>1, <3>2
  <2> QED BY <2>1, <2>3 DEF StoredOK
<1>3. CASE UNCHANGED <<disk, stored>>
      BY <1>3 DEF StoredOK
<1>4. ASSUME ~Open, ~Close PROVE UNCHANGED <<disk, stored>>
      BY <1>4 DEF Next, Declare, Set, Crash, BeginSave, SkipNode, Emit, Mark, BeginLoad, LoadNode,
         history, vars
<1> QED BY <1>1, <1>2, <1>3, <1>4

\* The nodes that are compared with their files are nodes.
LEMMA SyncedNodes == FilesOK /\ synced \subseteq Node /\ [Next]_vars => synced' \subseteq Node
<1> SUFFICES ASSUME FilesOK, synced \subseteq Node, [Next]_vars PROVE synced' \subseteq Node
    OBVIOUS
<1>1. Nodes[node] \in Node
      BY Constants DEF FilesOK
<1>2. synced' \subseteq synced \cup {Nodes[node]}
      BY DEF Next, Declare, Set, Crash, BeginSave, SkipNode, Open, Emit, Mark, Close, BeginLoad,
         LoadNode, history, vars
<1> QED BY <1>1, <1>2

\* What the comparison rests on is kept where the memory and the file are.
LEMMA SyncedKept ==
    ASSUME FilesOK, SyncedOK, synced' \subseteq synced, disk' = disk,
           \A n \in synced' : ~Locked(n)' => ~Locked(n),
           \A v \in Value : memory[v][TypeOf[v]].on =>
               /\ memory'[v][TypeOf[v]].on
               /\ memory'[v][TypeOf[v]].saved = memory[v][TypeOf[v]].saved \/ Locked(Where[v]),
           synced \subseteq Node
    PROVE  SyncedOK'
<1> SUFFICES ASSUME NEW n \in synced', ~Locked(n)', NEW v \in DOMAIN disk[n].map
             PROVE  /\ memory'[v][TypeOf[v]].on
                    /\ v \notin RealTime =>
                           Written(TypeOf[v], memory'[v][TypeOf[v]].saved) = disk[n].map[v]
    BY DEF SyncedOK
<1>1. n \in synced /\ ~Locked(n) /\ v \in Value /\ Where[v] = n
      BY DEF FilesOK, MapOK
<1>2. /\ memory[v][TypeOf[v]].on
      /\ v \notin RealTime => Written(TypeOf[v], memory[v][TypeOf[v]].saved) = disk[n].map[v]
      BY <1>1 DEF SyncedOK
<1> QED BY <1>1, <1>2

\* A node that was saved or loaded stays what its file holds, if the texts tell the types.
LEMMA SyncedStep ==
    Unambiguous /\ IInv /\ [Next]_vars => SyncedOK'
<1> SUFFICES ASSUME Unambiguous, IInv, [Next]_vars PROVE SyncedOK'
    OBVIOUS
<1>i. /\ MemoryOK /\ FilesOK /\ SavingOK /\ SyncedOK /\ synced \subseteq Node
      /\ MemoryOK'
      BY MemoryStep DEF IInv
<1> DEFINE n == Nodes[node]
<1>n. n \in Node
      BY <1>i, Constants DEF FilesOK
<1>t. \A v \in Value : TypeOf[v] \in Types
      BY Constants
<1>1. ASSUME NEW v \in Value, Declare(v) \/ Set(v) PROVE SyncedOK'
  <2>1. /\ synced' = synced /\ disk' = disk /\ \A m : Locked(m)' <=> Locked(m)
        BY <1>1 DEF Declare, Set, history, Locked
  <2>2. \A u \in Value : memory[u][TypeOf[u]].on =>
            /\ memory'[u][TypeOf[u]].on
            /\ memory'[u][TypeOf[u]].saved = memory[u][TypeOf[u]].saved
        BY <1>1, <1>i, <1>t, Declared, SetTo
  <2> QED BY <1>i, <2>1, <2>2, SyncedKept
<1>2. CASE Crash
      BY <1>2 DEF Crash, SyncedOK
<1>3. CASE BeginSave \/ SkipNode \/ Emit \/ BeginLoad \/ UNCHANGED vars
  <2>1. synced' = synced /\ disk' = disk /\ memory' = memory
        BY <1>3 DEF BeginSave, SkipNode, Emit, BeginLoad, vars, history
  <2>2. \A m : Locked(m) => Locked(m)'
        BY <1>3 DEF BeginSave, SkipNode, Emit, BeginLoad, vars, Locked
  <2> QED BY <1>i, <2>1, <2>2, SyncedKept
<1>4. CASE Open
  <2>1. /\ disk' = [disk EXCEPT ![n] = EmptyFile] /\ synced' = synced /\ memory' = memory
        /\ job' = "read" /\ node' = node /\ job = "open"
        BY <1>4 DEF Open
  <2>2. ASSUME NEW m \in Node, ~Locked(m)' PROVE ~Locked(m) /\ disk'[m] = disk[m]
    <3>1. m # n
          BY <2>1, <2>2 DEF Locked
    <3> QED BY <1>i, <2>1, <3>1 DEF Locked, FilesOK
  <2> QED BY <1>i, <2>1, <2>2 DEF SyncedOK
<1>5. CASE Mark
  <2>1. synced' = synced /\ disk' = disk
        BY <1>5 DEF Mark, history
  <2>2. \A m : Locked(m) => Locked(m)'
        BY <1>5 DEF Mark, Locked
  <2>3. PICK v \in Value : Where[v] = n /\ \A u \in Value : u # v => memory'[u] = memory[u]
        BY <1>5, <1>i, Marked
  <2>4. \A u \in Value : memory[u][TypeOf[u]].on => memory'[u][TypeOf[u]].on
        BY <1>5, <1>i, <1>t, Marked
  <2>5. Locked(n)
        BY <1>5 DEF Mark, Locked
  <2>6. ASSUME NEW u \in Value, memory[u][TypeOf[u]].on
        PROVE  /\ memory'[u][TypeOf[u]].on
               /\ memory'[u][TypeOf[u]].saved = memory[u][TypeOf[u]].saved \/ Locked(Where[u])
        BY <2>3, <2>4, <2>5, <2>6
  <2> QED BY <1>i, <2>1, <2>2, <2>6, SyncedKept
<1>6. CASE Close
  <2>1. /\ disk' = [disk EXCEPT ![n] = File(out)] /\ File(out).map = out
        /\ synced' = synced \cup {n} /\ memory' = memory /\ todo = {}
        /\ \A m : m # n => ~Locked(m)
        BY <1>6 DEF Close, File, Locked
  <2>2. OutOK(n)
        BY <1>6, <1>i DEF Close, SavingOK
  <2>3. \A v \in DOMAIN out : /\ memory[v][TypeOf[v]].on
                              /\ v \notin RealTime =>
                                     Written(TypeOf[v], memory[v][TypeOf[v]].saved) = out[v]
        BY <2>1, <2>2 DEF OutOK
  <2>4. disk'[n].map = out /\ \A m \in Node : m # n => disk'[m] = disk[m]
        BY <1>i, <1>n, <2>1 DEF FilesOK
  <2>5. ASSUME NEW m \in synced' PROVE
            \A v \in DOMAIN disk'[m].map :
                /\ memory'[v][TypeOf[v]].on
                /\ v \notin RealTime =>
                       Written(TypeOf[v], memory'[v][TypeOf[v]].saved) = disk'[m].map[v]
    <3>1. CASE m = n
          BY <3>1, <2>1, <2>3, <2>4
    <3>2. CASE m # n
          BY <3>2, <1>i, <2>1, <2>4 DEF SyncedOK
    <3> QED BY <3>1, <3>2
  <2> QED BY <2>5 DEF SyncedOK
<1>7. CASE LoadNode
  <2>1. disk' = disk /\ synced' \subseteq synced \cup {n} /\ \A m : ~Locked(m)
        BY <1>7 DEF LoadNode, Locked
  <2>2. MapOK(disk[n].map, n)
        BY <1>i, <1>n DEF FilesOK
  <2>3. CASE disk[n].kind = "empty"
    <3>1. PICK names \in SUBSET DOMAIN disk[n].map : Took(names, disk[n].map)
          BY <1>7, <1>i, LoadedFrom
    <3>2. DOMAIN disk[n].map = {} /\ synced' = synced
          BY <1>7, <1>i, <1>n, <2>3 DEF FilesOK, LoadNode
    <3>3. \A v \in Value, t \in Types : memory'[v][t] = memory[v][t]
          BY <3>1, <3>2 DEF Took
    <3> QED BY <1>i, <1>t, <2>1, <3>2, <3>3, SyncedKept
  <2>4. CASE disk[n].kind # "empty"
    <3>1. \A v \in DOMAIN disk[n].map : /\ Guess(disk[n].map[v]) = TypeOf[v]
                                        /\ Guess(disk[n].map[v]) \in Types
          BY <1>i, <1>n, <2>2, AllRead
    <3>2. ~Fails(disk[n])
          BY <1>i, <1>n, <2>2, <2>4, AllRead DEF Fails
    <3>3. Took(DOMAIN disk[n].map, disk[n].map)
          BY <1>7, <1>i, <3>2, LoadedFrom
    <3>4. ASSUME NEW m \in synced', NEW v \in DOMAIN disk[m].map
          PROVE  /\ memory'[v][TypeOf[v]].on
                 /\ v \notin RealTime =>
                        Written(TypeOf[v], memory'[v][TypeOf[v]].saved) = disk[m].map[v]
      <4>1. CASE m = n
        <5>1. v \in Value /\ disk[n].map[v] \in Lines(v)
              BY <2>2, <4>1 DEF MapOK
        <5>2. Written(TypeOf[v], Parsed(TypeOf[v], disk[n].map[v])) = disk[n].map[v]
              BY <3>1, <4>1, <5>1, Reading
        <5>3. /\ memory'[v][TypeOf[v]].on
              /\ memory'[v][TypeOf[v]].saved = Parsed(TypeOf[v], disk[n].map[v])
              BY <1>t, <3>1, <3>3, <4>1, <5>1 DEF Took
        <5> QED BY <4>1, <5>2, <5>3
      <4>2. CASE m # n
        <5>1. m \in synced /\ m \in Node
              BY <1>i, <2>1, <4>2
        <5>2. v \in Value /\ Where[v] = m
              BY <1>i, <5>1 DEF FilesOK, MapOK
        <5>3. v \notin DOMAIN disk[n].map
              BY <2>2, <4>2, <5>2 DEF MapOK
        <5>4. memory'[v][TypeOf[v]] = memory[v][TypeOf[v]]
              BY <1>t, <3>3, <5>2, <5>3 DEF Took
        <5> QED BY <1>i, <2>1, <5>1, <5>4 DEF SyncedOK
      <4> QED BY <4>1, <4>2
    <3> QED BY <2>1, <3>4 DEF SyncedOK
  <2> QED BY <2>3, <2>4
<1> QED BY <1>1, <1>2, <1>3, <1>4, <1>5, <1>6, <1>7 DEF Next

\* Every step keeps the invariant.
LEMMA NextIInv == IInv /\ [Next]_vars => IInv'
<1> SUFFICES ASSUME IInv, [Next]_vars PROVE IInv'
    OBVIOUS
<1>1. MemoryOK /\ FilesOK /\ SavingOK /\ FileIsSnapshot /\ StoredOK /\ synced \subseteq Node
      BY DEF IInv
<1>2. MemoryOK' /\ FilesOK' /\ SavingOK' /\ FileIsSnapshot' /\ StoredOK' /\ synced' \subseteq Node
      BY <1>1, MemoryStep, FilesStep, SavingStep, SnapshotStep, StoredStep, SyncedNodes
<1>3. Unambiguous => SyncedOK'
      BY SyncedStep
<1>4. Counted'
  <2>1. changes' \in {changes, changes + 1} /\ crashes' \in {crashes, crashes + 1}
        BY DEF Next, Declare, Set, Crash, BeginSave, SkipNode, Open, Emit, Mark, Close, BeginLoad,
           LoadNode, bounds, vars
  <2> QED BY <2>1 DEF IInv, Counted
<1> QED BY <1>2, <1>3, <1>4 DEF IInv

-----------------------------------------------------------------------------
(* The theorems *)

\* The invariant holds in every state.
LEMMA InductiveInvariant == Spec => []IInv
BY InitIInv, NextIInv, PTL DEF Spec

\* A whole file is the picture its node showed when the save began, setRT* apart, whatever
\* is set meanwhile and whenever the program dies: saveValues holds the node's mutex.
THEOREM Snapshots == Spec => []FileIsSnapshot
<1>1. IInv => FileIsSnapshot
      BY DEF IInv
<1> QED BY <1>1, InductiveInvariant, PTL

\* What diff compares a saved or loaded node with is what its file holds, if the types can
\* be guessed from the texts.
THEOREM Comparing == Spec => [](Unambiguous => DiffIsHonest)
<1>1. IInv => (Unambiguous => DiffIsHonest)
      BY DEF IInv, SyncedOK, DiffIsHonest
<1> QED BY <1>1, InductiveInvariant, PTL

\* A load gives back what was saved last, a float to 15 decimals, across crashes, if the
\* types can be guessed from the texts.
THEOREM Restoring == ASSUME Unambiguous PROVE Spec => LoadRestores
<1> DEFINE Back == \A v \in Value : /\ Where[v] = Nodes[node]
                                    /\ stored[v] # None
                                    => memory'[v][TypeOf[v]].now = Kept(v, stored[v])
           Step == job = "load" /\ disk[Nodes[node]].kind = "whole" /\ bounds' = bounds => Back
<1>1. ASSUME IInv, [Next]_vars, ~UNCHANGED vars PROVE Step
  <2> SUFFICES ASSUME job = "load", disk[Nodes[node]].kind = "whole", bounds' = bounds,
                      NEW v \in Value, Where[v] = Nodes[node], stored[v] # None
               PROVE  memory'[v][TypeOf[v]].now = Kept(v, stored[v])
      OBVIOUS
  <2>1. changes' = changes /\ crashes' = crashes /\ changes \in Int /\ crashes \in Int
        BY <1>1 DEF bounds, IInv, Counted
  <2>2. LoadNode
        BY <1>1, <2>1 DEF Next, Declare, Set, Crash, BeginSave, SkipNode, Open, Emit, Mark, Close,
           BeginLoad
  <2>3. /\ v \in DOMAIN disk[Nodes[node]].map
        /\ disk[Nodes[node]].map[v] = Written(TypeOf[v], stored[v])
        BY <1>1 DEF IInv, StoredOK
  <2>4. Nodes[node] \in Node /\ MapOK(disk[Nodes[node]].map, Nodes[node])
        BY <1>1, Constants DEF IInv, FilesOK
  <2>5. /\ ~Fails(disk[Nodes[node]])
        /\ Guess(disk[Nodes[node]].map[v]) = TypeOf[v] /\ TypeOf[v] \in Types
        BY <2>3, <2>4, AllRead DEF Fails
  <2>6. Took(DOMAIN disk[Nodes[node]].map, disk[Nodes[node]].map)
        BY <1>1, <2>2, <2>5, LoadedFrom DEF IInv
  <2> QED BY <2>3, <2>5, <2>6 DEF Took, Kept
<1> QED BY <1>1, InductiveInvariant, PTL DEF Spec, LoadRestores

-----------------------------------------------------------------------------
(* Saves and loads come to an end *)

\* The types of what IInv does not speak of.
Whereabouts ==
    /\ known \subseteq Node /\ dirs \subseteq Node
    /\ \A n \in Node : disk[n].kind \in {"absent", "empty", "whole"}
    /\ todo \subseteq Value \X Types
    /\ changes \in 0 .. MaxChanges /\ crashes \in 0 .. MaxCrashes

\* They are kept by every step.
LEMMA WhereaboutsStep == IInv /\ Whereabouts /\ [Next]_vars => Whereabouts'
<1> SUFFICES ASSUME IInv, Whereabouts, [Next]_vars PROVE Whereabouts'
    OBVIOUS
<1>1. /\ Nodes[node] \in Node /\ Root \in Node /\ DOMAIN disk = Node
      /\ MaxChanges \in Nat /\ MaxCrashes \in Nat
  <2>1. Root \in Node
        BY Constants DEF Root
  <2> QED BY <2>1, Constants, PersistenceAssumption DEF IInv, FilesOK
<1>2. \A n \in Node : Persisted(n) \subseteq Value \X Types
      BY DEF Persisted
<1>3. ASSUME NEW v \in Value, Declare(v) PROVE Whereabouts'
      BY <1>3, Constants DEF Declare, saving, bounds, Whereabouts
<1>4. ASSUME NEW v \in Value, Set(v) PROVE Whereabouts'
  <2>1. changes' \in 0 .. MaxChanges
        BY <1>1, <1>4 DEF Set, Whereabouts
  <2> QED BY <1>4, <2>1 DEF Set, saving, Whereabouts
<1>5. CASE Crash
  <2>1. crashes' \in 0 .. MaxCrashes
        BY <1>1, <1>5 DEF Crash, Whereabouts
  <2> QED BY <1>1, <1>5, <2>1 DEF Crash, Whereabouts
<1>6. CASE BeginSave \/ SkipNode \/ Emit \/ Mark \/ BeginLoad
      BY <1>1, <1>6 DEF BeginSave, SkipNode, Emit, Mark, BeginLoad, saving, bounds, Whereabouts
<1>7. CASE Open
  <2>1. todo' \subseteq Value \X Types
        BY <1>1, <1>2, <1>7 DEF Open
  <2>2. \A n \in Node : disk'[n].kind \in {"absent", "empty", "whole"}
        BY <1>1, <1>7 DEF Open, EmptyFile, Whereabouts
  <2> QED BY <1>7, <2>1, <2>2 DEF Open, bounds, Whereabouts
<1>8. CASE Close
  <2>1. \A n \in Node : disk'[n].kind \in {"absent", "empty", "whole"}
        BY <1>1, <1>8 DEF Close, File, Whereabouts
  <2> QED BY <1>8, <2>1 DEF Close, bounds, Whereabouts
<1>9. CASE LoadNode
      BY <1>9 DEF LoadNode, saving, bounds, Whereabouts
<1>10. CASE UNCHANGED vars
       BY <1>10 DEF vars, Whereabouts
<1> QED BY <1>3, <1>4, <1>5, <1>6, <1>7, <1>8, <1>9, <1>10 DEF Next

\* The types of the state: what is registered is a value's, a file has values of its own
\* node, and directories are those of nodes.
THEOREM TypeCorrect == Spec => []TypeOK
<1>1. Init => Whereabouts
  <2> SUFFICES ASSUME Init PROVE Whereabouts
      OBVIOUS
  <2>1. Root \in Node
        BY Constants DEF Root
  <2> QED BY <2>1, PersistenceAssumption DEF Init, NoFile, Whereabouts
<1>2. IInv /\ Whereabouts => TypeOK
      BY DEF IInv, MemoryOK, Cells, FilesOK, MapOK, Whereabouts, TypeOK
<1> QED BY <1>1, <1>2, WhereaboutsStep, InitIInv, NextIInv, PTL DEF Spec

\* A save or a load that is not over goes on to the next node or, at the same node, from
\* opening its file to its values, from one value to the next.
JobOnward ==
    job # "idle" /\ job' # "idle" =>
        \/ UNCHANGED <<job, node, todo>>
        \/ node' > node
        \/ /\ node' = node
           /\ \/ job = "open" /\ job' = "read"
              \/ job = "read" /\ job' = "mark" /\ todo' = todo
              \/ job = "mark" /\ job' = "read" /\ todo' \subseteq todo /\ todo' # todo

\* A save or a load never comes back to a node, or to a value of it, whatever is set
\* meanwhile: it ends after as many steps as there are files and values, or by an exception
\* or a crash.
THEOREM Ending == Spec => [][JobOnward]_vars
<1>1. IInv /\ [Next]_vars => JobOnward
  <2> SUFFICES ASSUME IInv, [Next]_vars, job # "idle", job' # "idle"
               PROVE  \/ UNCHANGED <<job, node, todo>>
                      \/ node' > node
                      \/ /\ node' = node
                         /\ \/ job = "open" /\ job' = "read"
                            \/ job = "read" /\ job' = "mark" /\ todo' = todo
                            \/ job = "mark" /\ job' = "read" /\ todo' \subseteq todo /\ todo' # todo
      BY DEF JobOnward
  <2>1. node \in 1 .. Len(Nodes) /\ Len(Nodes) \in Nat
        BY Constants DEF IInv, FilesOK
  <2>2. ASSUME NEW kind, Advance(kind) PROVE node' > node
        BY <2>1, <2>2 DEF Advance
  <2>3. ASSUME NEW v \in Value, Declare(v) \/ Set(v) PROVE UNCHANGED <<job, node, todo>>
        BY <2>3 DEF Declare, Set, saving
  <2>4. ~Crash /\ ~BeginSave /\ ~BeginLoad
        BY DEF Crash, BeginSave, BeginLoad
  <2>5. SkipNode \/ Close \/ LoadNode => node' > node
        BY <2>2 DEF SkipNode, Close, LoadNode
  <2>6. CASE Open
        BY <2>6 DEF Open
  <2>7. CASE Emit
        BY <2>7 DEF Emit
  <2>8. CASE Mark
    <3>1. reading \in todo
          BY <2>8 DEF Mark, IInv, SavingOK, TodoOK
    <3> QED BY <2>8, <3>1 DEF Mark
  <2>9. CASE UNCHANGED vars
        BY <2>9 DEF vars
  <2> QED BY <2>3, <2>4, <2>5, <2>6, <2>7, <2>8, <2>9 DEF Next
<1> QED BY <1>1, InductiveInvariant, PTL DEF Spec
=============================================================================
