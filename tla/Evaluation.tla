----------------------------- MODULE Evaluation -----------------------------
(***************************************************************************)
(* The evaluation of one flag for one user: evaluate in                    *)
(* src/evaluation/evaluator.rs, segments (segments.rs), condition          *)
(* operators (operators.rs), percentage rollouts (dispatch.rs) and the     *)
(* index built when data is published (prepared.rs).                       *)
(*                                                                         *)
(* An evaluation reads one immutable snapshot and nothing else, so it is   *)
(* one step.  Texts are abstract: what a parser makes of a text, and which *)
(* texts a pattern covers, are constants.  The hash of a dispatch key is   *)
(* any function of the text appended to the flag's key.  Of the points of  *)
(* the interval [0, 1] only the order matters: they are 0..One, and those  *)
(* from AlmostOne on lie within 1e-5 of its end.                           *)
(***************************************************************************)
EXTENDS Integers, Sequences, FiniteSetsExt, SequencesExt

CONSTANTS
    Texts, EmptyText,  \* user keys, attribute and condition values, ids
    NumberOf,          \* a text parsed as a finite number
    PatternOf,         \* a text compiled as a pattern: the texts it matches
    ListOf,            \* a text parsed as a JSON array of texts
    Holding,           \* the texts that contain, start with, end with a text
    TrueTexts, FalseTexts,  \* spellings of true and false
    Null, Unreadable,  \* the text is JSON null; the text does not parse
    Nothing,           \* None, or no such object
    One, AlmostOne,    \* the points
    Inputs             \* families of snapshots, users and hashes to evaluate

ASSUME PointsAssumption ==
    One \in Nat \ {0} /\ AlmostOne \in 1..One

ASSUME ParsersAssumption ==
    /\ EmptyText \in Texts /\ NumberOf[EmptyText] = Unreadable
    /\ \A t \in Texts : NumberOf[t] = Unreadable \/ NumberOf[t] \in Int
    /\ \A t \in Texts : ListOf[t] \in {Null, Unreadable} \/ ListOf[t] \in Seq(Texts)
    /\ DOMAIN Holding = {"Contains", "StartsWith", "EndsWith"}

Rollouts == Seq([id : Texts, rollout : Seq(Int \cup {Unreadable})])

Conditions == Seq([property : STRING, op : STRING, value : Texts])

Rule == [conditions : Conditions, variations : Rollouts, dispatchKey : STRING \cup {Nothing}]

Flag ==
    [archived : BOOLEAN, enabled : BOOLEAN, disabledVariation : Texts,
     variations : Seq([id : Texts, value : Texts]),
     targets : Seq([keys : SUBSET Texts, to : Texts]), rules : Seq(Rule),
     fallthrough : [variations : Rollouts, dispatchKey : STRING \cup {Nothing}]]

ASSUME InputsAssumption ==
    \A n \in DOMAIN Inputs : \A i \in Inputs[n] :
        /\ i.flag \in Flag \cup {Nothing}
        /\ i.user.key \in Texts
        /\ \A p \in DOMAIN i.user.attributes : i.user.attributes[p] \in Texts
        /\ i.hashOf \in [Texts -> 0..One]

VARIABLES
    flag,      \* the flag the snapshot has under the key, or Nothing
    segments,  \* the segment it has under each id, or Nothing
    user,
    hashOf,    \* the point a dispatch key is hashed to
    outcome    \* of the evaluation

vars == <<flag, segments, user, hashOf, outcome>>
-----------------------------------------------------------------------------
(***************************************************************************)
(* The index of a snapshot (prepared.rs).                                  *)
(***************************************************************************)
SegmentProperties == {"User is in segment", "User is not in segment"}

NumericOps == {"LessThan", "LessEqualThan", "BiggerThan", "BiggerEqualThan"}

ReadSet(text) ==
    IF ListOf[text] \in {Null, Unreadable} THEN Unreadable ELSE ToSet(ListOf[text])

ReadIds(text) == IF ListOf[text] = Null THEN <<>> ELSE ListOf[text]

Unprepared == [kind |-> "none"]

PreparedCondition(c) ==
    IF c.property \in SegmentProperties THEN [kind |-> "ids", of |-> ReadIds(c.value)]
    ELSE CASE c.op \in NumericOps -> [kind |-> "number", of |-> NumberOf[c.value]]
           [] c.op \in {"MatchRegex", "NotMatchRegex"} ->
                 [kind |-> "pattern", of |-> PatternOf[c.value]]
           [] c.op \in {"IsOneOf", "NotOneOf"} -> [kind |-> "set", of |-> ReadSet(c.value)]
           [] OTHER -> Unprepared

PreparedRule(conditions) == [i \in DOMAIN conditions |-> PreparedCondition(conditions[i])]

(* Seeded fault: of several targets with one key the last one is kept.     *)
LastTargets(targets) ==
    [key \in UNION {targets[i].keys : i \in DOMAIN targets} |->
        targets[Max({i \in DOMAIN targets : key \in targets[i].keys})].to]

(* Of several targets with one key, as of variations with one id, the      *)
(* first one is kept.                                                      *)
FirstTargets(targets) ==
    [key \in UNION {targets[i].keys : i \in DOMAIN targets} |->
        targets[Min({i \in DOMAIN targets : key \in targets[i].keys})].to]

PreparedFlag(f) ==
    [variations |-> [id \in {f.variations[i].id : i \in DOMAIN f.variations} |->
                        SelectInSeq(f.variations, LAMBDA v : v.id = id)],
     targets |-> FirstTargets(f.targets),
     rules |-> [i \in DOMAIN f.rules |-> PreparedRule(f.rules[i].conditions)]]

PreparedSegment(s) ==
    [included |-> s.included, excluded |-> s.excluded,
     rules |-> [i \in DOMAIN s.rules |-> PreparedRule(s.rules[i])]]

(* The index that goes with the snapshot, and no index: an empty one.      *)
Prepared ==
    [flag |-> PreparedFlag(flag),
     segments |-> [id \in {s \in DOMAIN segments : segments[s] # Nothing} |->
                        PreparedSegment(segments[id])]]

NoIndex ==
    [flag |-> [variations |-> <<>>, targets |-> <<>>, rules |-> <<>>], segments |-> <<>>]

ConditionAt(rules, i, j) ==
    IF i \in DOMAIN rules /\ j \in DOMAIN rules[i] THEN rules[i][j] ELSE Unprepared
-----------------------------------------------------------------------------
(***************************************************************************)
(* Conditions (operators.rs).  What the index has of a condition is used,  *)
(* otherwise its value is parsed on the spot.                              *)
(***************************************************************************)
ValueOf(property) ==
    CASE property = "keyId" -> user.key
      [] property \in DOMAIN user.attributes \ {"keyId"} -> user.attributes[property]
      [] OTHER -> EmptyText

Operand(p, kind, parsed) == IF p.kind = kind THEN p.of ELSE parsed

NumberMatches(text, c, p) ==
    LET left == NumberOf[text]
        right == Operand(p, "number", NumberOf[c.value])
    IN  /\ Unreadable \notin {left, right}
        /\ CASE c.op = "LessThan" -> left < right
             [] c.op = "LessEqualThan" -> left <= right
             [] c.op = "BiggerThan" -> left > right
             [] c.op = "BiggerEqualThan" -> left >= right

MemberMatches(text, set, negate) ==
    set # Unreadable /\ (text \in set) # negate

OperatorMatches(text, c, p) ==
    CASE c.op \in NumericOps -> NumberMatches(text, c, p)
      [] c.op = "Equal" -> text = c.value
      [] c.op = "NotEqual" -> text # c.value
      [] c.op \in DOMAIN Holding -> text \in Holding[c.op][c.value]
      [] c.op = "NotContain" -> text \notin Holding["Contains"][c.value]
      [] c.op \in {"MatchRegex", "NotMatchRegex"} ->
            MemberMatches(text, Operand(p, "pattern", PatternOf[c.value]),
                          c.op = "NotMatchRegex")
      [] c.op \in {"IsOneOf", "NotOneOf"} ->
            MemberMatches(text, Operand(p, "set", ReadSet(c.value)), c.op = "NotOneOf")
      [] c.op = "IsTrue" -> text \in TrueTexts
      [] c.op = "IsFalse" -> text \in FalseTexts
      [] OTHER -> FALSE

ConditionMatches(c, p) == OperatorMatches(ValueOf(c.property), c, p)
-----------------------------------------------------------------------------
(***************************************************************************)
(* Segments (segments.rs).                                                 *)
(***************************************************************************)
Live(id) == id \in DOMAIN segments /\ segments[id] # Nothing /\ ~ segments[id].archived

(* The prepared sets are those of the segment.                             *)
SegmentMatches(id, index) ==
    LET segment == segments[id]
        indexed == IF id \in DOMAIN index.segments THEN index.segments[id]
                   ELSE [included |-> segment.included, excluded |-> segment.excluded,
                         rules |-> <<>>]
    IN  /\ user.key \notin indexed.excluded
        /\ \/ user.key \in indexed.included
           \/ \E i \in DOMAIN segment.rules : \A j \in DOMAIN segment.rules[i] :
                 ConditionMatches(segment.rules[i][j], ConditionAt(indexed.rules, i, j))

(* Seeded fault: a segment that is not there is passed over.               *)
MatchSegmentsThatExist(ids, index) ==
    IF \E i \in DOMAIN ids : Live(ids[i]) /\ SegmentMatches(ids[i], index)
    THEN "Matched" ELSE "NotMatched"

(* The first id decides that has no live segment or whose segment matches. *)
MatchSegmentIds(ids, index) ==
    LET first == SelectInSeq(ids, LAMBDA id : ~ Live(id) \/ SegmentMatches(id, index))
    IN  IF first = 0 THEN "NotMatched"
        ELSE IF Live(ids[first]) THEN "Matched" ELSE "Invalid"

MatchesAnySegment(c, p, index) ==
    LET ids == Operand(p, "ids", ReadIds(c.value))
    IN  IF ids = Unreadable THEN "Invalid" ELSE MatchSegmentIds(ids, index)

RuleConditionMatches(c, p, index) ==
    CASE c.property = "User is in segment" -> MatchesAnySegment(c, p, index) = "Matched"
      [] c.property = "User is not in segment" -> MatchesAnySegment(c, p, index) = "NotMatched"
      [] OTHER -> ConditionMatches(c, p)

RuleMatches(i, index) ==
    \A j \in DOMAIN flag.rules[i].conditions :
        RuleConditionMatches(flag.rules[i].conditions[j],
                             ConditionAt(index.flag.rules, i, j), index)
-----------------------------------------------------------------------------
(***************************************************************************)
(* Percentage rollouts (dispatch.rs).                                      *)
(***************************************************************************)
Everyone(range) == range[1] = 0 /\ range[2] >= AlmostOne

(* Seeded fault: an empty range at zero is a range like any other.         *)
ClosedRangeMatches(range, point) ==
    /\ Len(range) = 2 /\ Unreadable \notin ToSet(range) /\ range[1] <= range[2]
    /\ Everyone(range) \/ (range[1] <= point /\ point <= range[2])

(* Seeded fault: the upper bound belongs to the next range.                *)
HalfOpenRangeMatches(range, point) ==
    /\ Len(range) = 2 /\ Unreadable \notin ToSet(range) /\ range[1] <= range[2]
    /\ \/ range[1] = 0 /\ range[2] = One
       \/ range # <<0, 0>> /\ range[1] <= point /\ point < range[2]

(* Unreadable stands for a bound that is no finite number.                 *)
RangeMatches(range, point) ==
    /\ Len(range) = 2 /\ Unreadable \notin ToSet(range) /\ range[1] <= range[2]
    /\ \/ Everyone(range)
       \/ range # <<0, 0>> /\ range[1] <= point /\ point <= range[2]

SelectRollout(rollouts, point) ==
    SelectInSeq(rollouts, LAMBDA r : RangeMatches(r.rollout, point))

IsPercentageSplit(rollouts) ==
    \/ Len(rollouts) > 1
    \/ /\ Len(rollouts) = 1
       /\ ~ (Len(rollouts[1].rollout) = 2 /\ Everyone(rollouts[1].rollout))

(* What follows the flag's key in the dispatch key; Nothing is an absent   *)
(* or a blank property.                                                    *)
DispatchText(property) == IF property = Nothing THEN user.key ELSE ValueOf(property)
-----------------------------------------------------------------------------
(***************************************************************************)
(* The evaluation (evaluator.rs).                                          *)
(***************************************************************************)
Failed(error) == [error |-> error]

VariationAt(id, index) ==
    IF id \in DOMAIN index.flag.variations THEN index.flag.variations[id]
    ELSE SelectInSeq(flag.variations, LAMBDA v : v.id = id)

(* Seeded fault: an id without a variation is served a default one.        *)
ServeDefault(id, index, reason) ==
    LET i == VariationAt(id, index)
    IN  [variation |-> IF i = 0 THEN [id |-> id, value |-> EmptyText] ELSE flag.variations[i],
         reason |-> reason]

Serve(id, index, reason) ==
    LET i == VariationAt(id, index)
    IN  IF i = 0 THEN Failed("MalformedFlag")
        ELSE [variation |-> flag.variations[i], reason |-> reason]

ServeRollout(rollouts, property, index, why) ==
    LET i == SelectRollout(rollouts, hashOf[DispatchText(property)])
    IN  IF i = 0 THEN Failed("MalformedFlag")
        ELSE Serve(rollouts[i].id, index, <<why, IsPercentageSplit(rollouts)>>)

TargetOf(index) ==
    IF user.key \in DOMAIN index.flag.targets THEN index.flag.targets[user.key]
    ELSE LET i == SelectInSeq(flag.targets, LAMBDA t : user.key \in t.keys)
         IN  IF i = 0 THEN Nothing ELSE flag.targets[i].to

EvaluateFlag(index) ==
    LET target == TargetOf(index)
        rule == SelectInSeq([i \in DOMAIN flag.rules |-> i], LAMBDA i : RuleMatches(i, index))
    IN  IF ~ flag.enabled THEN Serve(flag.disabledVariation, index, <<"Off">>)
        ELSE IF target # Nothing THEN Serve(target, index, <<"TargetMatch">>)
        ELSE IF rule # 0
        THEN ServeRollout(flag.rules[rule].variations, flag.rules[rule].dispatchKey, index, "RuleMatch")
        ELSE ServeRollout(flag.fallthrough.variations, flag.fallthrough.dispatchKey, index, "Fallthrough")

Evaluation(index) ==
    IF user.key = EmptyText THEN Failed("InvalidContext")
    ELSE IF flag = Nothing \/ flag.archived THEN Failed("FlagNotFound")
    ELSE EvaluateFlag(index)

Init ==
    /\ \E n \in DOMAIN Inputs : \E i \in Inputs[n] :
          flag = i.flag /\ segments = i.segments /\ user = i.user /\ hashOf = i.hashOf
    /\ outcome = Nothing

Evaluate ==
    /\ outcome = Nothing
    /\ outcome' = Evaluation(Prepared)
    /\ UNCHANGED <<flag, segments, user, hashOf>>

Next == Evaluate

Spec == Init /\ [][Next]_vars
-----------------------------------------------------------------------------
(***************************************************************************)
(* Properties                                                              *)
(***************************************************************************)
Evaluated == outcome # Nothing

IsServed == Evaluated /\ "variation" \in DOMAIN outcome

(* An evaluation fails in one of three ways or serves a variation of the   *)
(* flag.                                                                   *)
TypeOK ==
    \/ outcome = Nothing
    \/ outcome \in {Failed(e) : e \in {"InvalidContext", "FlagNotFound", "MalformedFlag"}}
    \/ IsServed /\ outcome.variation \in ToSet(flag.variations)

(* The index changes the cost of an evaluation and nothing else: also with *)
(* duplicate targets and ids, unreadable values and missing segments it    *)
(* ends as it does without one.                                            *)
IndexIsTransparent == Evaluated => outcome = Evaluation(NoIndex)

(* A rollout whose ranges follow one another from 0 to 1.                  *)
CompleteSplit(rollouts) ==
    /\ rollouts # <<>>
    /\ \A i \in DOMAIN rollouts :
          LET range == rollouts[i].rollout IN
          /\ Len(range) = 2 /\ Unreadable \notin ToSet(range) /\ range[1] <= range[2]
          /\ range[1] = IF i = 1 THEN 0 ELSE rollouts[i - 1].rollout[2]
    /\ Last(rollouts).rollout[2] = One

KnownIds(f) == {f.variations[i].id : i \in DOMAIN f.variations}

WellFormedSplit(rollouts, ids) ==
    CompleteSplit(rollouts) /\ \A i \in DOMAIN rollouts : rollouts[i].id \in ids

WellFormed(f) ==
    /\ f.disabledVariation \in KnownIds(f)
    /\ \A i \in DOMAIN f.targets : f.targets[i].to \in KnownIds(f)
    /\ \A i \in DOMAIN f.rules : WellFormedSplit(f.rules[i].variations, KnownIds(f))
    /\ WellFormedSplit(f.fallthrough.variations, KnownIds(f))

(* A flag whose ids exist and whose splits are complete serves every user  *)
(* something, wherever his key is hashed to, the bounds of the ranges      *)
(* included, and whatever is wrong with its conditions and segments.       *)
WellFormedServes ==
    Evaluated /\ user.key # EmptyText /\ flag # Nothing =>
        (~ flag.archived /\ WellFormed(flag) => IsServed)

(* A variation that a complete split gives nothing is served to nobody,    *)
(* not even to a key that is hashed to the point its range shrank to.      *)
ZeroShareUnserved ==
    IsServed /\ outcome.reason[1] = "Fallthrough" =>
        LET split == flag.fallthrough.variations IN
        CompleteSplit(split) =>
            \E i \in DOMAIN split : /\ split[i].id = outcome.variation.id
                                    /\ split[i].rollout[1] < split[i].rollout[2]

Opposites ==
    {<<"IsOneOf", "NotOneOf">>, <<"MatchRegex", "NotMatchRegex">>, <<"Equal", "NotEqual">>,
     <<"Contains", "NotContain">>, <<"LessThan", "BiggerEqualThan">>,
     <<"BiggerThan", "LessEqualThan">>}

(* The data a condition needs is there: its value parses, and every        *)
(* segment in its list is live, or a matching one comes before the first   *)
(* that is not.                                                            *)
Resolved(c) ==
    IF c.property \in SegmentProperties
    THEN LET ids == ReadIds(c.value)
             dead == {i \in DOMAIN ids : ~ Live(ids[i])}
             hits == {i \in DOMAIN ids \ dead : SegmentMatches(ids[i], NoIndex)}
         IN  ids # Unreadable /\ \A d \in dead : \E h \in hits : h < d
    ELSE /\ c.op \in NumericOps =>
              Unreadable \notin {NumberOf[c.value], NumberOf[ValueOf(c.property)]}
         /\ c.op \in {"IsOneOf", "NotOneOf"} => ReadSet(c.value) # Unreadable
         /\ c.op \in {"MatchRegex", "NotMatchRegex"} => PatternOf[c.value] # Unreadable

Holds(c) == RuleConditionMatches(c, PreparedCondition(c), Prepared)

ExactlyOne(c, d) == IF Resolved(c) THEN Holds(c) <=> ~ Holds(d) ELSE ~ Holds(c) /\ ~ Holds(d)

(* A condition and its negation never hold together; data that is bad or   *)
(* missing makes neither hold, so it cannot turn into a match, and good    *)
(* data makes one of them hold.                                            *)
BadDataMatchesNothing ==
    Evaluated /\ flag # Nothing =>
        \A i \in DOMAIN flag.rules : \A j \in DOMAIN flag.rules[i].conditions :
            LET c == flag.rules[i].conditions[j] IN
            IF c.property \in SegmentProperties
            THEN ExactlyOne([c EXCEPT !.property = "User is in segment"],
                            [c EXCEPT !.property = "User is not in segment"])
            ELSE \A pair \in Opposites : c.op \in {pair[1], pair[2]} =>
                    ExactlyOne([c EXCEPT !.op = pair[1]], [c EXCEPT !.op = pair[2]])
=============================================================================
