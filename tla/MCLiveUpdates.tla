--------------------------- MODULE MCLiveUpdates ---------------------------
(***************************************************************************)
(* An instance of LiveUpdates for TLC, and the parser that it relies on.   *)
(***************************************************************************)
EXTENDS LiveUpdates, ParseSse

(* The streams of up to four frames, evaluated once. *)
ReadWhole == [n \in 0 .. WireRoom |-> CutsDoNotMatter(4, n)]

(* The events on their way are read, each once, however the network cuts   *)
(* the stream that they are in.                                            *)
WireIsReadWhole == wire # None => ReadWhole[wire]
=============================================================================
