------------------------------ MODULE MCRegistry ------------------------------
(* Two names and the kinds of content that differ, for Registry.  The files *)
(* are alike: no action, and neither invariant, singles one out.            *)
EXTENDS Registry, TLC

AlikeFiles == Permutations(Files)

Good(kind, name) ==
  [kind |-> kind, name |-> name,
   active |-> TRUE, makes |-> TRUE, starts |-> TRUE, stops |-> TRUE]

MCContents ==
  { Good("subscription", "a"),
    Good("publication", "a"),
    (* a publication whose stop raises *)
    [Good("publication", "b") EXCEPT !.stops = FALSE],
    Good("storage", "a"),
    Good("processor", "a"),
    Good("processor", "b"),
    Good("runner", "a"),
    (* a runner that is not active *)
    [Good("runner", "a") EXCEPT !.active = FALSE],
    (* a class that does not exist *)
    [Good("runner", "a") EXCEPT !.makes = FALSE],
    (* an inotify_runner for a folder that does not exist *)
    [Good("runner", "a") EXCEPT !.starts = FALSE, !.stops = FALSE],
    (* a zmq subscriber, which has no method stop *)
    [Good("runner", "b") EXCEPT !.stops = FALSE] }
=============================================================================
