------------------------------ MODULE ServerLog ------------------------------
(***************************************************************************)
(* The logging server: values logged by the robot program wait in one      *)
(* queue per type; a periodic tick moves them to the history, where names  *)
(* become ids, and clamps the history to a length of time; the history is  *)
(* written to a file on request and read back by name.                     *)
(*                                                                         *)
(* A queue stands for a LockFreeDoubleQueue that no late writer races (see *)
(* LockFreeDoubleQueue): a swap takes everything appended before it.       *)
(***************************************************************************)
EXTENDS Integers, Sequences, FiniteSets, Functions

CONSTANTS Types,          \* the value types, in the order of the source
          Name,           \* absolute value names
          Capacity,       \* of a queue
          LogLengthSecs,  \* the history length asked for in start(); Forever for none
          Forever,
          Second,         \* microseconds in a second
          Wrap,           \* an unsigned int counts modulo this
          MaxLag,         \* bound: how late a timestamp is when it is appended
          MaxTime,        \* bound: the clock
          MaxEntries      \* bound: values logged in all

ASSUME ServerLogAssumption ==
    /\ Types \in Seq(STRING) /\ Types # <<>> /\ IsInjective(Types)
    /\ {Capacity, Second, Wrap} \subseteq Nat \ {0}
    /\ LogLengthSecs \in Nat \cup {Forever} /\ Forever \notin Int
    /\ {MaxLag, MaxTime, MaxEntries} \subseteq Nat

VARIABLES queue,    \* per type: appended, not yet swapped
          reading,  \* per type: what is left to log of the reader's buffer
          mapping,  \* per type: name to id
          values,   \* per type: the history
          step,     \* of the tick under way; 0 when _mutex is free
          file,     \* the last log written
          clock,
          entries,  \* the values logged so far
          moved     \* history: per type, everything moved to the history

logVars == <<queue, reading, mapping, values, step, file, clock, entries, moved>>

Type == Range(Types)
N == Len(Types)
NoFile == [mapping |-> <<>>, values |-> <<>>, moved |-> <<>>]

LogInit ==
    /\ queue = [t \in Type |-> <<>>]
    /\ reading = [t \in Type |-> <<>>]
    /\ mapping = [t \in Type |-> <<>>]
    /\ values = [t \in Type |-> <<>>]
    /\ step = 0
    /\ file = NoFile
    /\ clock = 0
    /\ entries = 0
    /\ moved = [t \in Type |-> <<>>]

-----------------------------------------------------------------------------
\* Time passes for the robot program (getRhIOTime).
Elapse ==
    /\ clock < MaxTime
    /\ clock' = clock + 1
    /\ UNCHANGED <<queue, reading, mapping, values, step, file, entries, moved>>

RoomForOneMore(t) == Len(queue[t]) <= Capacity
Room(t) == Len(queue[t]) < Capacity

\* logBool, logInt, logFloat, logStr: dropped when the queue is full.  The caller
\* took, or chose, its timestamp some time ago.  The value is a number of its own.
LogValue(t, n) ==
    /\ entries < MaxEntries
    /\ entries' = entries + 1
    /\ \E lag \in 0 .. MaxLag :
          /\ lag <= clock
          /\ queue' = IF Room(t)
                      THEN [queue EXCEPT ![t] = Append(@, [name |-> n, ts |-> clock - lag,
                                                           value |-> entries])]
                      ELSE queue
    /\ UNCHANGED <<reading, mapping, values, step, file, clock, moved>>

-----------------------------------------------------------------------------
(* ServerLog::tick *)

Unguarded == TRUE
MutexFree == step = 0

BeginTick ==
    /\ step = 0
    /\ step' = 1
    /\ UNCHANGED <<queue, reading, mapping, values, file, clock, entries, moved>>

\* The buffers are swapped one after the other, while writers append.
Swap ==
    /\ step \in 1 .. N
    /\ LET t == Types[step]
       IN  /\ reading' = [reading EXCEPT ![t] = queue[t]]
           /\ queue' = [queue EXCEPT ![t] = <<>>]
    /\ step' = step + 1
    /\ UNCHANGED <<mapping, values, file, clock, entries, moved>>

\* A new name is mapped to the size of its type's mapping so far.
NextIdOfFirstType(t) == Cardinality(DOMAIN mapping[Types[1]])
NextId(t) == Cardinality(DOMAIN mapping[t])

Mapped(t, n) ==
    [m \in DOMAIN mapping[t] \cup {n} |-> IF m \in DOMAIN mapping[t] THEN mapping[t][m]
                                         ELSE NextId(t)]

\* One value of the buffer that was read becomes a point of the history.
Transfer ==
    /\ step \in N + 1 .. 2 * N
    /\ LET t == Types[step - N]
           e == Head(reading[t])
           ids == Mapped(t, e.name)
       IN  /\ reading[t] # <<>>
           /\ mapping' = [mapping EXCEPT ![t] = ids]
           /\ values' = [values EXCEPT ![t] = Append(@, [id |-> ids[e.name], ts |-> e.ts,
                                                        value |-> e.value])]
           /\ moved' = [moved EXCEPT ![t] = Append(@, e)]
           /\ reading' = [reading EXCEPT ![t] = Tail(@)]
    /\ UNCHANGED <<queue, step, file, clock, entries>>

EndTransfer ==
    /\ step \in N + 1 .. 2 * N
    /\ reading[Types[step - N]] = <<>>
    /\ step' = step + 1
    /\ UNCHANGED <<queue, reading, mapping, values, file, clock, entries, moved>>

\* runServerLog: logLengthSecs*1000000 is computed in an unsigned int.
LengthHistory == IF LogLengthSecs = Forever THEN -1 ELSE (LogLengthSecs * Second) % Wrap

\* Older, by more than the length of the history, than the newest of the timestamps at
\* the back of the histories.
Newest(s) == s[Len(s)].ts
TooOldOrLast(ts) ==
    \E t \in Type : values[t] # <<>> /\ ts <= Newest(values[t]) - LengthHistory
TooOld(ts) ==
    \E t \in Type : values[t] # <<>> /\ ts < Newest(values[t]) - LengthHistory

\* The front goes while more than one value is left and the front is too old.
Excess(t) == LengthHistory > 0 /\ Len(values[t]) > 1 /\ TooOld(values[t][1].ts)

Clamp ==
    /\ step \in 2 * N + 1 .. 3 * N
    /\ LET t == Types[step - 2 * N]
       IN  Excess(t) /\ values' = [values EXCEPT ![t] = Tail(@)]
    /\ UNCHANGED <<queue, reading, mapping, step, file, clock, entries, moved>>

\* The last of the types ends the tick.
EndClamp ==
    /\ step \in 2 * N + 1 .. 3 * N
    /\ ~Excess(Types[step - 2 * N])
    /\ step' = IF step = 3 * N THEN 0 ELSE step + 1
    /\ UNCHANGED <<queue, reading, mapping, values, file, clock, entries, moved>>

-----------------------------------------------------------------------------
\* ServerLog::writeLogsToFile.  When the file cannot be opened the call throws, and the
\* log written before, if there was one, is what is left.
WriteLogs ==
    /\ MutexFree
    /\ \/ file' = [mapping |-> mapping, values |-> values, moved |-> moved]
       \/ file' = file
    /\ UNCHANGED <<queue, reading, mapping, values, step, clock, entries, moved>>

\* RhIOReadBinaryLog, by name: a point goes to the series of the name of its id.
NameOf(ids, id) == CHOOSE n \in DOMAIN ids : ids[n] = id

LogNext ==
    \/ Elapse
    \/ \E t \in Type, n \in Name : LogValue(t, n)
    \/ BeginTick
    \/ Swap
    \/ Transfer
    \/ EndTransfer
    \/ Clamp
    \/ EndClamp
    \/ WriteLogs

LogSpec == LogInit /\ [][LogNext]_logVars

-----------------------------------------------------------------------------
(* Properties *)

Entries == [name : Name, ts : Nat, value : Nat]
Points == [id : Nat, ts : Nat, value : Nat]

LogTypeOK ==
    /\ {queue, reading, moved} \subseteq [Type -> Seq(Entries)]
    /\ values \in [Type -> Seq(Points)]
    /\ mapping \in [Type -> UNION {[names -> Nat] : names \in SUBSET Name}]
    /\ step \in 0 .. 3 * N
    /\ clock \in Nat /\ entries \in Nat

Written == file # NoFile

\* What was moved to the history of a type and is no longer in it was moved first.
Cut(h, v) == Len(h) - Len(v)

\* Names survive their translation to ids: a reader of the file finds what was logged,
\* in the order it was logged, less a clamped beginning, each value under the name it
\* was logged under.
FileReadsBack ==
    Written => \A t \in Type :
        LET h == file.moved[t]
            v == file.values[t]
        IN  /\ Len(v) <= Len(h)
            /\ \A i \in 1 .. Len(v) :
                  LET e == h[Cut(h, v) + i]
                  IN  /\ NameOf(file.mapping[t], v[i].id) = e.name
                      /\ v[i].ts = e.ts /\ v[i].value = e.value

\* Within the history length the program asked for, of all that was logged.
Recent(ts) ==
    \/ LogLengthSecs = Forever
    \/ \A t \in Type : \A e \in Range(file.moved[t]) : ts >= e.ts - LogLengthSecs * Second

\* "Maximum log time of log server history in seconds (infinite if negative)": no
\* value younger than that is missing from the file.
FileKeepsRecent ==
    Written => \A t \in Type : \A e \in Range(file.moved[t]) :
                  Recent(e.ts) => \E p \in Range(file.values[t]) : p.value = e.value

\* Timestamps are taken before the value is appended, so a value can lie up to MaxLag
\* before one that was appended earlier; and so can the newest of a history.
Late == 2 * MaxLag

\* Within the history length the program asked for, but for what came late.
Young(ts) ==
    \/ LogLengthSecs = Forever
    \/ \A t \in Type : \A e \in Range(file.moved[t]) : ts >= e.ts - LogLengthSecs * Second - Late

\* "Clamp the history to given time length": no value of the file is older, if there is
\* more than one of its type, by more than the timestamps were out of order.  (The clamp
\* stops at the first front that is young and keeps whatever is older behind it.)
FileClamped ==
    Written => \A t \in Type : Len(file.values[t]) > 1 =>
                  \A p \in Range(file.values[t]) : Young(p.ts)
=============================================================================
