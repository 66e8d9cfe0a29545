------------------------------- MODULE Filters -------------------------------
(***************************************************************************)
(* The filters of matching/filters.py, from their configuration, and how   *)
(* matching/metadata_matcher.py matches them against the metadata of a     *)
(* file.                                                                   *)
(*                                                                         *)
(* The metadata is a function from the names an attribute_filter may have  *)
(* to the values found under them: a sequence, one for each node whose     *)
(* path ends in the name, empty when there is none.  Under _exchange/      *)
(* what_age there is no list but the age itself, written here as a list of *)
(* one.  Values are numbers, for texts numbers that stand for them.        *)
(***************************************************************************)
LOCAL INSTANCE Integers
LOCAL INSTANCE Sequences
LOCAL INSTANCE SequencesExt

Age == "_exchange/what_age"

(* The value of an attribute_filter is a list, a number, or a text, which  *)
(* is given by the values it contains and those it matches as a pattern.   *)
List(values) ==
  [form |-> "list", list |-> values, within |-> {},
   matching |-> IF values = <<>> THEN {} ELSE {Head(values)}]
Number(n) == [form |-> "number", list |-> <<n>>, within |-> {}, matching |-> {}]
Text(n, within, matching) ==
  [form |-> "text", list |-> <<n>>, within |-> within, matching |-> matching]

(* The configurations.  One without "value" is not complete: that of an    *)
(* always_filter need not have one, by its documentation.                  *)
Always == [type |-> "always_filter", complete |-> TRUE]
AlwaysWithoutValue == [type |-> "always_filter", complete |-> FALSE]
Attribute(name, op, value) ==
  [type |-> "attribute_filter", complete |-> TRUE, name |-> name, op |-> op, value |-> value]
And(childs) == [type |-> "and_filter", complete |-> TRUE, childs |-> childs]
Or(childs) == [type |-> "or_filter", complete |-> TRUE, childs |-> childs]
Not(child) == [type |-> "not_filter", complete |-> TRUE, childs |-> <<child>>]

(* filter_manager.from_value makes no filter, None, of an incomplete       *)
(* configuration.  As a part of another filter None has no to_xpr.         *)
MakesFilter(conf) == conf.complete

(* What evaluating a filter may end in. *)
Truth(b) == IF b THEN "match" ELSE "no match"

----------------------------------------------------------------------------
(* The operations of metadata_matcher on the values found.                 *)

RECURSIVE Less(_, _)
Less(a, b) ==
  IF b = <<>> THEN FALSE
  ELSE \/ a = <<>>
       \/ Head(a) < Head(b)
       \/ Head(a) = Head(b) /\ Less(Tail(a), Tail(b))

(* "item in rhs" *)
Holds(value, item) ==
  IF value.form = "list" THEN item \in ToSet(value.list) ELSE item \in value.within

(* Mutant: all(item in rhs for item in lhs). *)
AllIn(name, found, value) ==
  IF name = Age \/ (value.form = "number" /\ found # <<>>) THEN "raises"
  ELSE Truth(\A item \in ToSet(found) : Holds(value, item))

(* in_: any(item in rhs for item in lhs), which needs two iterables.       *)
In(name, found, value) ==
  IF name = Age \/ (value.form = "number" /\ found # <<>>) THEN "raises"
  ELSE Truth(\E item \in ToSet(found) : Holds(value, item))

(* notin: not any(item in rhs for item in lhs) *)
NotIn(name, found, value) ==
  IF name = Age \/ (value.form = "number" /\ found # <<>>) THEN "raises"
  ELSE Truth(\A item \in ToSet(found) : ~Holds(value, item))

(* The list found is compared, not what it holds: a value that is no list  *)
(* is never equal to it.  The age is a number.                             *)
Alike(name, value) == value.form = (IF name = Age THEN "number" ELSE "list")
Equal(name, found, value) == Truth(Alike(name, value) /\ found = value.list)
Unequal(name, found, value) == Truth(~Alike(name, value) \/ found # value.list)

(* "<" and its likes, when both sides are lists or both are numbers; lists *)
(* are compared item by item, and an empty one is less than any other.     *)
Ordered(name, value, b) == IF Alike(name, value) THEN Truth(b) ELSE "raises"
LessThan(name, found, value) == Ordered(name, value, Less(found, value.list))
GreaterThan(name, found, value) == Ordered(name, value, Less(value.list, found))
AtMost(name, found, value) ==
  Ordered(name, value, found = value.list \/ Less(found, value.list))
AtLeast(name, found, value) ==
  Ordered(name, value, found = value.list \/ Less(value.list, found))

(* like: one of the values matches the pattern, the first of a list.       *)
Like(name, found, value) ==
  IF name = Age \/ value.form = "number" \/ value.list = <<>> THEN "raises"
  ELSE Truth(\E item \in ToSet(found) : item \in value.matching)

Compared(name, op, found, value) ==
  CASE op = "in" -> In(name, found, value)
    [] op = "not_in" -> NotIn(name, found, value)
    [] op = "=" -> Equal(name, found, value)
    [] op = "!=" -> Unequal(name, found, value)
    [] op = "<" -> LessThan(name, found, value)
    [] op = ">=" -> AtLeast(name, found, value)
    [] op = ">" -> GreaterThan(name, found, value)
    [] op = "<=" -> AtMost(name, found, value)
    [] op = "like" -> Like(name, found, value)
    [] OTHER -> "raises"

(* to_xpr and match: every part is evaluated, and one that raises makes    *)
(* the whole raise.                                                        *)
RECURSIVE Matched(_, _)
Matched(meta, f) ==
  IF ~MakesFilter(f) THEN "raises"
  ELSE CASE f.type = "always_filter" -> "match"
         [] f.type = "attribute_filter" -> Compared(f.name, f.op, meta[f.name], f.value)
         [] OTHER ->
            LET parts == {Matched(meta, f.childs[n]) : n \in DOMAIN f.childs}
            IN IF "raises" \in parts THEN "raises"
               ELSE CASE f.type = "and_filter" -> Truth("no match" \notin parts)
                      [] f.type = "or_filter" -> Truth("match" \in parts)
                      [] f.type = "not_filter" -> Truth("no match" \in parts)

(* subscription.filter_matching: without a filter everything matches ...   *)
SubscriptionMatches(meta, conf) ==
  IF MakesFilter(conf) THEN Matched(meta, conf) ELSE "match"

(* ... but a publication takes its filter for granted. *)
PublicationMatches(meta, conf) == Matched(meta, conf)

=============================================================================
