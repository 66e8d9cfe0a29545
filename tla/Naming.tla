------------------------------- MODULE Naming -------------------------------
(***************************************************************************)
(* The names of naming/namer.py: what metadata_namer makes of a template   *)
(* and the metadata of a file, and opera_filename_namer.                   *)
(*                                                                         *)
(* A text is a sequence of characters, and a character a number: 0..9 are  *)
(* the digits, LetterA..LetterA+25 the lower case letters and the negative *)
(* of these the upper case ones.  Bad stands for an exception.             *)
(***************************************************************************)
LOCAL INSTANCE Integers
LOCAL INSTANCE Sequences
LOCAL INSTANCE FiniteSets
LOCAL INSTANCE SequencesExt

LetterA == 10
Letter(n) == LetterA + n
Blank == 50
Slash == 51
Bar == 52
Dollar == 53

Bad == <<1000>>
Undefined == <<Letter(20), Letter(13), Letter(3), Letter(4), Letter(5)>>
None == <<-Letter(13), Letter(14), Letter(13), Letter(4)>>

Lower(c) == IF c < 0 THEN -c ELSE c
Upper(c) == IF c \in LetterA..(LetterA + 25) THEN -c ELSE c
Mapped(op, v, first, last) ==
  [n \in DOMAIN v |-> IF n \notin first..last THEN v[n]
                      ELSE IF op = "tolower" THEN Lower(v[n]) ELSE Upper(v[n])]

----------------------------------------------------------------------------
(* The suboperations [op, args] that a placeholder may carry.              *)

(* tolower and toupper: positions are counted from 0, and arguments that   *)
(* are out of range count as none.  Without arguments the result is made   *)
(* of the value as it was before any suboperation.                         *)
Cased(op, value, v, args) ==
  CASE Len(args) = 1 /\ args[1] < Len(v) ->
         Mapped(op, v, args[1] + 1, args[1] + 1)
    [] Len(args) = 2 /\ args[1] < args[2] /\ args[2] < Len(v) ->
         Mapped(op, v, args[1] + 1, args[2] + 1)
    [] OTHER -> Mapped(op, value, 1, Len(value))

Substring(v, args) ==
  LET to == IF Len(args) = 2 /\ args[2] < Len(v) THEN args[2] + 1 ELSE Len(v)
  IN SubSeq(v, args[1] + 1, to)

RECURSIVE TrimmedLeft(_)
TrimmedLeft(v) == IF v # <<>> /\ Head(v) = Blank THEN TrimmedLeft(Tail(v)) ELSE v
TrimmedRight(v) == Reverse(TrimmedLeft(Reverse(v)))

(* The first argument is the character to replace, the others what by.     *)
Replaced(v, args) ==
  FlattenSeq([n \in DOMAIN v |-> IF v[n] = args[1] THEN Tail(args) ELSE <<v[n]>>])

TwoDigits(n) == <<n \div 10, n % 10>>
EndsInDigits(v) ==
  Len(v) >= 2 /\ v[Len(v)] \in 0..9 /\ v[Len(v) - 1] \in 0..9
LastTwo(v) == 10 * v[Len(v) - 1] + v[Len(v)]
WithLastTwo(v, n) == SubSeq(v, 1, Len(v) - 2) \o TwoDigits(n)

(* Mutant: the limit is one of the upper ends. *)
IntervalUOff(v, interval, limit) ==
  LET n == (LastTwo(v) \div interval + 1) * interval
  IN WithLastTwo(v, IF n >= limit THEN limit - interval ELSE n)

(* interval_u: the upper end of the interval, 0 when that is the limit.    *)
IntervalU(v, interval, limit) ==
  LET n == (LastTwo(v) \div interval + 1) * interval
  IN WithLastTwo(v, IF n >= limit THEN 0 ELSE n)

IntervalL(v, interval) == WithLastTwo(v, (LastTwo(v) \div interval) * interval)

Suboperation(value, v, s) ==
  IF v = Bad THEN Bad
  ELSE CASE s.op \in {"tolower", "toupper"} -> Cased(s.op, value, v, s.args)
         [] s.op = "substring" -> Substring(v, s.args)
         [] s.op = "replace" -> Replaced(v, s.args)
         [] s.op = "trim" -> TrimmedLeft(TrimmedRight(v))
         [] s.op = "ltrim" -> TrimmedLeft(v)
         [] s.op = "rtrim" -> TrimmedRight(v)
         [] ~EndsInDigits(v) \/ s.args[1] = 0 -> Bad
         [] s.op = "interval_u" ->
              IntervalU(v, s.args[1], IF Len(s.args) = 2 THEN s.args[2] ELSE 60)
         [] s.op = "interval_l" -> IntervalL(v, s.args[1])

(* suboperation_helper.eval: from left to right. *)
Evaluated(value, subs) ==
  FoldLeft(LAMBDA v, s : Suboperation(value, v, s), value, subs)

----------------------------------------------------------------------------
(* A template is a sequence of pieces [form, text, key, interval, subs]:   *)
(* plain text, or a placeholder of one of the forms below.                 *)
PlainText(text) == [form |-> "text", text |-> text, key |-> "", interval |-> 0, subs |-> <<>>]
Placeholder(form, key, interval, subs) ==
  [form |-> form, text |-> <<>>, key |-> key, interval |-> interval, subs |-> subs]
Suboperates(op, args) == [op |-> op, args |-> args]

(* Metadata: time, in minutes, and the texts under its names; what the     *)
(* source lookup added; the data sets.  Timestamps end in the minutes.     *)
Hour == 60
Stamp(t) == <<t \div (24 * Hour)>> \o TwoDigits((t \div Hour) % 24) \o TwoDigits(t % Hour)

(* _baltrad/datetime_u:i and _l:i: the ends of the interval of the hour.   *)
IntervalEnd(t, i) == t - (t % Hour) + (((t % Hour) \div i) + 1) * i
IntervalStart(t, i) == t - ((t % Hour) % i)

(* The placeholder itself, slashes and all; without the ${} around it.     *)
Inner(replace) == <<IF replace THEN Bar ELSE Slash>>
Verbatim(replace) == <<Dollar>> \o Inner(replace)

----------------------------------------------------------------------------
(* opera_filename_namer.create with the elevation angles configured under  *)
(* names of sources and Default.  A file has data sets [elangle,           *)
(* quantities]; the angle looked at is that of the first, for each of      *)
(* them.  The fixed parts of the names are one character each.             *)
Default == <<>>
Tpa == 60
Originator == 61
Profile == 62
Capital(n) == <<-Letter(n)>>

A1Letter(quantities) ==
  LET one == CHOOSE q \in quantities : TRUE
  IN CASE Cardinality(quantities) > 1 -> Capital(25)
       [] one = "DBZH" -> Capital(6)
       [] one \in {"VRADH", "VRADV"} -> Capital(7)
       [] one \in {"WRADH", "WRADV"} -> Capital(8)
       [] one = "TH" -> Capital(9)
       [] one = "ZDR" -> Capital(10)
       [] one = "RHOHV" -> Capital(11)
       [] one = "PHIDP" -> Capital(16)
       [] one = "KDP" -> Capital(17)
       [] OTHER -> None

(* The letter of the angle is its position among the configured ones, "Y"  *)
(* when it is not there and "Z" for more than one data set.                *)
A2Letter(datasets, angles, name) ==
  LET known == IF name \in DOMAIN angles THEN name ELSE Default
      positions == IF known \in DOMAIN angles
                   THEN {n \in DOMAIN angles[known] : angles[known][n] = datasets[1].elangle}
                   ELSE {}
  IN CASE Len(datasets) > 1 -> Capital(25)
       [] positions = {} -> Capital(24)
       [] OTHER -> Capital((CHOOSE n \in positions : \A o \in positions : n <= o) - 1)

(* Nothing is made of the placeholder for other objects, and without       *)
(* angles or quantities; without a parent or a RAD, create raises.         *)
OperaName(meta, angles) ==
  LET quantities == UNION {meta.datasets[n].quantities : n \in DOMAIN meta.datasets}
  IN CASE meta.object = "VP" -> meta.bdb_source_name \o <<Profile>> \o Stamp(meta.time)
       [] meta.object \notin {"PVOL", "SCAN", "VP"} \/ quantities = {} -> Inner(FALSE)
       [] meta.parent = Undefined \/ "RAD" \notin DOMAIN meta.bdb_source -> Bad
       [] OTHER -> <<Tpa>> \o A1Letter(quantities) \o A2Letter(meta.datasets, angles, meta.bdb_source_name)
                   \o SubSeq(meta.bdb_source["RAD"], 3, Len(meta.bdb_source["RAD"]))
                   \o <<Originator>> \o meta.parent \o Stamp(meta.time)

----------------------------------------------------------------------------
SourceItem(kvs, key) == IF key \in DOMAIN kvs THEN kvs[key] ELSE Undefined

Property(meta, key) ==
  IF key \in DOMAIN meta.properties THEN meta.properties[key] ELSE <<>>

(* There may be no such attribute. *)
Missing == <<1001>>
AttributeValue(meta, key) == IF key \in DOMAIN meta.texts THEN meta.texts[key] ELSE Missing

(* What stands for a placeholder. *)
Replacement(piece, meta, now, angles) ==
  CASE piece.form = "_baltrad/source" -> SourceItem(meta.bdb_source, piece.key)
    [] piece.form = "_baltrad/source_name" -> meta.bdb_source_name
    [] piece.form = "what/source" -> SourceItem(meta.source, piece.key)
    [] piece.form = "_property" -> Property(meta, piece.key)
    [] piece.form = "operation" -> OperaName(meta, angles)
    [] piece.form = "_baltrad/datetime" -> Stamp(meta.time)
    [] piece.form = "_baltrad/datetime_u" -> Stamp(IntervalEnd(meta.time, piece.interval))
    [] piece.form = "_baltrad/datetime_l" -> Stamp(IntervalStart(meta.time, piece.interval))
    [] piece.form = "_baltrad/currentdt" -> Stamp(now)
    [] piece.form = "attribute" -> AttributeValue(meta, piece.key)

Written(piece, meta, now, angles, fail, keep, replace) ==
  IF piece.form = "text" THEN piece.text
  ELSE LET value == Replacement(piece, meta, now, angles)
       IN CASE value = Bad -> Bad
            [] value # Missing -> Evaluated(value, piece.subs)
            [] fail -> Bad
            [] ~keep -> <<>>
            [] OTHER -> Verbatim(replace)

(* metadata_namer.name *)
Name(template, meta, now, angles, fail, keep, replace) ==
  FoldLeft(LAMBDA name, piece :
             LET w == Written(piece, meta, now, angles, fail, keep, replace)
             IN IF name = Bad \/ w = Bad THEN Bad ELSE name \o w,
           <<>>, template)
=============================================================================
