----------------------------- MODULE MCH2Relay -----------------------------
(* Two streams; the client uploads, the server answers and grants windows. *)
EXTENDS H2Relay

MCClientFrames ==
  {[type |-> "DATA", s |-> 1, len |-> 2, end |-> FALSE],
   [type |-> "DATA", s |-> 3, len |-> 1, end |-> TRUE],
   [type |-> "HEADERS", s |-> 1, end |-> FALSE, ended |-> FALSE],
   [type |-> "CONTINUATION", s |-> 1, ended |-> FALSE],
   [type |-> "CONTINUATION", s |-> 1, ended |-> TRUE],
   [type |-> "RST_STREAM", s |-> 3]}

MCServerFrames ==
  {[type |-> "WINDOW_UPDATE", s |-> 0, inc |-> 2],
   [type |-> "WINDOW_UPDATE", s |-> 1, inc |-> 1],
   [type |-> "INITIAL_WINDOW_SIZE", val |-> 2],
   [type |-> "INITIAL_WINDOW_SIZE", val |-> 0],
   [type |-> "MAX_FRAME_SIZE", val |-> 2],
   [type |-> "DATA", s |-> 1, len |-> 0, end |-> TRUE],
   [type |-> "PING"]}

MCFramesOf == [d \in Dirs |-> IF d = "cToS" THEN MCClientFrames ELSE MCServerFrames]
MCMaxRead == [d \in Dirs |-> IF d = "cToS" THEN 2 ELSE 2]
=============================================================================
