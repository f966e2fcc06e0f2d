------------------------------- MODULE Streams -------------------------------
(***************************************************************************)
(* A text stream from the threads of the robot program that write to it    *)
(* (Server/src/StreamNode.cpp, Server/src/Stream.cpp) over the publishing  *)
(* server to the shells that show it with cat                              *)
(* (Shell/src/commands/CatCommand.cpp).                                    *)
(*                                                                         *)
(* The ostream and its buffer are shared without a mutex.  In a shell the  *)
(* user's thread sets and removes the handler that the subscriber's thread *)
(* looks at and calls.                                                     *)
(***************************************************************************)
EXTENDS ServerPub

CONSTANTS Writer,    \* threads of the program that write to the stream
          Shell,     \* shells
          MaxTexts,  \* bound: texts that are written
          MaxCats    \* bound: times a shell enters cat

ASSUME StreamsAssumption ==
    /\ "Stream" \in Type
    /\ IsFiniteSet(Writer) /\ IsFiniteSet(Shell)
    /\ MaxTexts \in Nat /\ MaxCats \in Nat

VARIABLES
    text,            \* the texts in the StreamBuffer: they are numbered
    use,             \* per writer: where it is in its use of the stream, the text it
                     \* writes, and what it has read of the buffer
    streamWatchers,  \* _streamWatchers
    cat,             \* per shell: where its user's thread is
    callback,        \* per shell: whether handlerStream is set
    cats,            \* per shell: the cats so far
    handling,        \* per shell: where its subscriber's thread is
    heard,           \* per shell: the messages that have reached it
    written,         \* history: the number of texts
    raced,           \* history: the texts whose writing another use overlapped
    flushed,         \* history: the texts that were published, or that nobody watched
    late             \* history, per shell: texts shown since the handler was removed

streamVars == <<text, use, streamWatchers, written, raced, flushed>>
shellVars == <<cat, callback, cats, handling, heard, late>>
pubVars == vars
streamsVars == <<pubVars, streamVars, shellVars>>

NoUse == [pc |-> "out", id |-> 0, seen |-> <<>>]

\* After n texts that were flushed, and c cats of every shell.
StreamsInitAfter(n, c) ==
    /\ text = <<>>
    /\ use = [w \in Writer |-> NoUse]
    /\ streamWatchers = 0
    /\ cat = [s \in Shell |-> "out"]
    /\ callback = [s \in Shell |-> FALSE]
    /\ cats = [s \in Shell |-> c]
    /\ handling = [s \in Shell |-> "idle"]
    /\ heard = [s \in Shell |-> {}]
    /\ written = n
    /\ raced = {} /\ flushed = 1 .. n
    /\ late = [s \in Shell |-> 0]
StreamsInit == StreamsInitAfter(0, 0)

-----------------------------------------------------------------------------
(* The threads of the robot program *)

\* What it writes while another one begins to use the stream.
OthersWrite(w) == {use[v].id : v \in {u \in Writer \ {w} : use[u].pc = "writing"}}
OthersUse(w) == \E v \in Writer \ {w} : use[v].pc # "out"

\* out(name) << text: the reference is used without a mutex.
BaseRewound(t) == <<>>
Base(t) == t
BeginWrite(w) ==
    /\ use[w].pc = "out"
    /\ written < MaxTexts
    /\ written' = written + 1
    /\ use' = [use EXCEPT ![w] = [pc |-> "writing", id |-> written', seen |-> Base(text)]]
    /\ raced' = raced \cup OthersWrite(w) \cup (IF OthersUse(w) THEN {written'} ELSE {})
    /\ UNCHANGED <<pubVars, text, streamWatchers, flushed, shellVars>>

\* The end of the text is that of the buffer before, or after, what others have done
\* since.
EndWrite(w) ==
    /\ use[w].pc = "writing"
    /\ \E t \in {use[w].seen, Base(text)} : text' = Append(t, use[w].id)
    /\ use' = [use EXCEPT ![w] = [pc |-> "written", id |-> 0, seen |-> <<>>]]
    /\ UNCHANGED <<pubVars, streamWatchers, written, raced, flushed, shellVars>>

\* Without std::endl or std::flush the text stays in the buffer.
KeepText(w) ==
    /\ use[w].pc = "written"
    /\ use' = [use EXCEPT ![w] = NoUse]
    /\ UNCHANGED <<pubVars, text, streamWatchers, written, raced, flushed, shellVars>>

\* StreamBuffer::sync: what is in the buffer is read, if somebody watches and there is a
\* ServerStream (until the publisher of start() has set it there is none) ...
Sync(w) ==
    /\ use[w].pc = "written"
    /\ \E hasServer \in BOOLEAN :
       IF streamWatchers > 0 /\ hasServer
       THEN /\ use' = [use EXCEPT ![w] = [pc |-> "publishing", id |-> 0, seen |-> text]]
            /\ UNCHANGED flushed
       ELSE /\ use' = [use EXCEPT ![w].pc = "clearing"]
            /\ flushed' = flushed \cup Range(text)
    /\ UNCHANGED <<pubVars, text, streamWatchers, written, raced, shellVars>>

\* ... published ...
PublishStream(w) ==
    /\ use[w].pc = "publishing"
    /\ PublishFor("Stream")
    /\ use' = [use EXCEPT ![w] = [pc |-> "clearing", id |-> 0, seen |-> <<>>]]
    /\ flushed' = flushed \cup Range(use[w].seen)
    /\ UNCHANGED <<text, streamWatchers, written, raced, shellVars>>

\* ... and the buffer is emptied.
ClearBuffer(w) ==
    /\ use[w].pc = "clearing"
    /\ text' = <<>>
    /\ use' = [use EXCEPT ![w] = NoUse]
    /\ UNCHANGED <<pubVars, streamWatchers, written, raced, flushed, shellVars>>

WriterStep(w) == \/ BeginWrite(w) \/ EndWrite(w) \/ KeepText(w)
                 \/ Sync(w) \/ PublishStream(w) \/ ClearBuffer(w)

-----------------------------------------------------------------------------
(* A shell: the user's thread in CatCommand::process.  That its requests may meet those *)
(* of the worker on one socket is in StreamManager.                                     *)

Goes(s, from, to) ==
    /\ cat[s] = from /\ handling[s] # "terminated"
    /\ cat' = [cat EXCEPT ![s] = to]

\* enableStreamingStream, at the server and back.
Enabled == streamWatchers + 1
Disabled == IF streamWatchers > 0 THEN streamWatchers - 1 ELSE 0
EnableStreaming(s) ==
    /\ cats[s] < MaxCats
    /\ Goes(s, "out", "enabled")
    /\ cats' = [cats EXCEPT ![s] = @ + 1]
    /\ streamWatchers' = Enabled
    /\ UNCHANGED <<pubVars, text, use, written, raced, flushed, callback, handling, heard, late>>

SetCallback(s) ==
    /\ Goes(s, "enabled", "watching")
    /\ callback' = [callback EXCEPT ![s] = TRUE]
    /\ late' = [late EXCEPT ![s] = 0]
    /\ UNCHANGED <<pubVars, streamVars, cats, handling, heard>>

\* A key was pressed: unsetStreamCallback, ...
UnsetNot(s) == callback[s]
Unset(s) == FALSE
UnsetCallback(s) ==
    /\ Goes(s, "watching", "unset")
    /\ callback' = [callback EXCEPT ![s] = Unset(s)]
    /\ UNCHANGED <<pubVars, streamVars, cats, handling, heard, late>>

\* ... clearStream, which closes the file of a cat > file, ...
ClearStream(s) ==
    /\ Goes(s, "unset", "closed")
    /\ UNCHANGED <<pubVars, streamVars, callback, cats, handling, heard, late>>

\* ... and disableStreamingStream.
DisableStreaming(s) ==
    /\ Goes(s, "closed", "out")
    /\ streamWatchers' = Disabled
    /\ UNCHANGED <<pubVars, text, use, written, raced, flushed, callback, cats, handling,
                   heard, late>>

-----------------------------------------------------------------------------
(* A shell: the subscriber's thread in StreamManager::streamHandler *)

\* A message comes in, others may be lost or come later: UDP.
Hear(s) ==
    /\ handling[s] = "idle"
    /\ \E m \in Range(sent) :
          /\ m.name = "Stream" /\ m.n \notin heard[s]
          /\ heard' = [heard EXCEPT ![s] = @ \cup {m.n}]
    /\ handling' = [handling EXCEPT ![s] = IF callback[s] THEN "found" ELSE "idle"]
    /\ UNCHANGED <<pubVars, streamVars, cat, callback, cats, late>>

\* The handler that was found is called; an empty one throws, and the shell ends.
CallHandler(s) ==
    /\ handling[s] = "found"
    /\ handling' = [handling EXCEPT ![s] = IF callback[s] THEN "printing" ELSE "terminated"]
    /\ UNCHANGED <<pubVars, streamVars, cat, callback, cats, heard, late>>

\* The text is shown, or written to a file that is closed.
ShowText(s) ==
    /\ handling[s] = "printing"
    /\ handling' = [handling EXCEPT ![s] = "idle"]
    /\ late' = [late EXCEPT ![s] = IF cat[s] = "watching" THEN @ ELSE @ + 1]
    /\ UNCHANGED <<pubVars, streamVars, cat, callback, cats, heard>>

CatStep(s) == \/ EnableStreaming(s) \/ SetCallback(s) \/ UnsetCallback(s) \/ ClearStream(s)
              \/ DisableStreaming(s) \/ Hear(s) \/ CallHandler(s) \/ ShowText(s)

-----------------------------------------------------------------------------
StreamsNext ==
    \/ \E w \in Writer : WriterStep(w)
    \/ \E s \in Shell : CatStep(s)
    \/ /\ \/ \E t \in Type \ {"Stream"} : Publish(t)
          \/ \E f \in Frame : FramePush(f) \/ Watch(f) \/ Clear(f) \/ Fill(f)
          \/ Sender
       /\ UNCHANGED <<streamVars, shellVars>>

StreamsFairness ==
    /\ WF_streamsVars(Sender /\ UNCHANGED <<streamVars, shellVars>>)
    /\ \A f \in Frame : WF_streamsVars(Fill(f) /\ UNCHANGED <<streamVars, shellVars>>)
StreamsSpec == Init /\ StreamsInit /\ [][StreamsNext]_streamsVars /\ StreamsFairness

-----------------------------------------------------------------------------
(* Properties *)

StreamsTypeOK ==
    /\ text \in Seq(1 .. MaxTexts)
    /\ \A w \in Writer :
          /\ use[w].pc \in {"out", "writing", "written", "publishing", "clearing"}
          /\ use[w].id \in 0 .. MaxTexts /\ use[w].seen \in Seq(1 .. MaxTexts)
    /\ streamWatchers \in 0 .. Cardinality(Shell)
    /\ cat \in [Shell -> {"out", "enabled", "watching", "unset", "closed"}]
    /\ callback \in [Shell -> BOOLEAN]
    /\ handling \in [Shell -> {"idle", "found", "printing", "terminated"}]

\* A text is lost on its way to publishStream only if another thread used the stream
\* while it was written: otherwise it still is in the buffer or on its way, or it was
\* published, or flushed while nobody watched or there was no server (StreamBuffer::sync
\* empties the buffer after it has published, without a mutex).
OnTheWay ==
    Range(text) \cup {use[w].id : w \in Writer}
    \cup UNION {Range(use[w].seen) : w \in {v \in Writer : use[v].pc = "publishing"}}
LostOnlyIfRaced == 1 .. written \subseteq OnTheWay \cup flushed \cup raced

\* A cat leaves nothing behind: once its handler was removed at most the one text that
\* was being handled is still shown, and the stream is watched by as many as have
\* enabled it and not disabled it, the shells that ended in between included.
CatLeavesNothing ==
    /\ \A s \in Shell : late[s] <= 1
    /\ streamWatchers = Cardinality({s \in Shell : cat[s] # "out"})
=============================================================================
