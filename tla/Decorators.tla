----------------------------- MODULE Decorators -----------------------------
(***************************************************************************)
(* The decorators of a publication: what publish of net/publishers.py does *)
(* with the copy of a file before it is queued, and max_age_filter of      *)
(* decorators/decorator.py.                                                *)
(*                                                                         *)
(* A decorator is [kind, discards, invalid, warn, block]: "max_age" with   *)
(* its two limits; "same", which returns the copy it was given, like       *)
(* example_filter; or a decorator of decorators/rave.py or of a user that  *)
(* returns None ("none"), a new file ("new"), or one whose metadata cannot *)
(* be read ("bad").  A copy is what has become of it, and whether its      *)
(* metadata can be read.                                                   *)
(***************************************************************************)
LOCAL INSTANCE Integers
LOCAL INSTANCE SequencesExt

(* Mutant: a file that is too late is reported and passed on. *)
MaxAgeReports(d, object, angle, delay) == "same"

(* max_age_filter.decorate.  The message about a file other than a SCAN    *)
(* that is late, but not too late, has an argument too many: it raises,    *)
(* and so does any message about a SCAN without an angle.  A file whose    *)
(* delay is exactly the second limit passes without a message.             *)
MaxAge(d, object, angle, delay) ==
  LET told == IF object = "SCAN" THEN angle ELSE TRUE
  IN IF d.warn = 0 \/ d.block = 0 \/ delay < d.warn THEN "same"
     ELSE CASE delay < d.block -> IF object = "SCAN" /\ told THEN "same" ELSE "raises"
            [] delay > d.block -> IF told THEN "none" ELSE "raises"
            [] delay = d.block -> "same"

Result(d, object, angle, delay) ==
  IF d.kind = "max_age" THEN MaxAge(d, object, angle, delay) ELSE d.kind

(* max_age_filter sets both options itself. *)
Discards(d) == d.kind = "max_age" \/ d.discards
MayBeInvalid(d) == d.kind # "max_age" /\ d.invalid

(* One turn of the loop: the metadata of the copy is read again after each *)
(* decorator that returned a file, the old one or a new one.               *)
Turn(copy, d, result) ==
  LET readable == IF result = "same" THEN copy.readable ELSE result = "new"
  IN CASE copy.fate # "kept" -> copy
       [] copy.fate = "kept" /\ result = "raises" -> [copy EXCEPT !.fate = "raised"]
       [] copy.fate = "kept" /\ result = "none" ->
            IF Discards(d) THEN [copy EXCEPT !.fate = "discarded"] ELSE copy
       [] copy.fate = "kept" /\ result \in {"same", "new", "bad"} ->
            [fate |-> IF readable \/ MayBeInvalid(d) THEN "kept" ELSE "raised", readable |-> readable]

(* What becomes of the copy: it is kept for the queue, discarded, or       *)
(* publish raises.                                                         *)
Decorated(decorators, object, angle, delay) ==
  FoldLeft(LAMBDA copy, d : Turn(copy, d, Result(d, object, angle, delay)),
           [fate |-> "kept", readable |-> TRUE], decorators).fate
=============================================================================
