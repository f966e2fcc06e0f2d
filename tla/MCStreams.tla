------------------------------ MODULE MCStreams ------------------------------
(***************************************************************************)
(* Instances of Streams for TLC: two of the five types, that share their   *)
(* code, and two frames; two threads that write to the stream and a shell. *)
(***************************************************************************)
EXTENDS Streams

MCTypes == <<"Bool", "Stream">>

\* Values and frames are published, and nobody uses the stream.
Publishing == InitAfter(0) /\ StreamsInitAfter(MaxTexts, MaxCats)

\* The stream is used, and nothing else is published.
Streaming ==
    /\ InitAfter(MaxMessages) /\ StreamsInitAfter(0, 0)
    /\ watchers = [f \in Frame |-> 0]

MCInit == Publishing \/ Streaming
MCSpec == MCInit /\ [][StreamsNext]_streamsVars /\ StreamsFairness
=============================================================================
