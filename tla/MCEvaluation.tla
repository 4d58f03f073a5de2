---------------------------- MODULE MCEvaluation ----------------------------
(***************************************************************************)
(* Small instances of Evaluation.  The inputs are four families: targets   *)
(* and duplicate ids, rollout ranges, single conditions of every operator, *)
(* and conditions on segments.                                             *)
(***************************************************************************)
EXTENDS Evaluation

CONSTANTS Nil, Bad, JsonNull

MCTexts == {"", "u", "v", "1", "2", "[u1]", "[]", "null", "[", "s", "z",
            "[s]", "[sz]", "[zs]",
            "t", "f", "g", "none"}

MCNumberOf == [t \in MCTexts |-> IF t = "1" THEN 1 ELSE IF t = "2" THEN 2 ELSE Bad]

MCPatternOf == [t \in MCTexts |-> IF t = "[" THEN Bad ELSE {t}]

MCListOf ==
    [t \in MCTexts |-> CASE t = "[u1]" -> <<"u", "1">>
                         [] t = "[]" -> <<>>
                         [] t = "null" -> JsonNull
                         [] t = "[s]" -> <<"s">>
                         [] t = "[sz]" -> <<"s", "z">>
                         [] t = "[zs]" -> <<"z", "s">>
                         [] OTHER -> Bad]

(* A text holds itself and the empty text.                                 *)
MCHolding ==
    [op \in {"Contains", "StartsWith", "EndsWith"} |->
        [t \in MCTexts |-> IF t = "" THEN MCTexts ELSE {t}]]

MCTrueTexts == {"1"}
MCFalseTexts == {"2"}

Points == 0..One

User(key, x) == [key |-> key, attributes |-> [name |-> "v", x |-> x]]

Hash(p, q) == "u" :> p @@ [t \in MCTexts |-> q]

All(id) == [id |-> id, rollout |-> <<0, One>>]

Fallthrough(rollouts, property) == [variations |-> rollouts, dispatchKey |-> property]

Basic ==
    [archived |-> FALSE, enabled |-> TRUE, disabledVariation |-> "f",
     variations |-> <<[id |-> "t", value |-> "1"], [id |-> "f", value |-> "2"]>>,
     targets |-> <<>>, rules |-> <<>>, fallthrough |-> Fallthrough(<<All("t")>>, Nil)]

NoSegments == [s |-> Nil, z |-> Nil]

Input(f, s, u, h) == [flag |-> f, segments |-> s, user |-> u, hashOf |-> h]

Targeting == [keys : {{}, {"u"}, {"u", "v"}}, to : {"t", "f", "none"}]

TargetInputs ==
    LET flags ==
          {[Basic EXCEPT !.archived = a, !.enabled = e, !.disabledVariation = d,
                         !.variations = vs, !.targets = ts] :
             a \in BOOLEAN, e \in BOOLEAN, d \in {"f", "none"},
             vs \in {Basic.variations, Append(Basic.variations, [id |-> "t", value |-> "v"])},
             ts \in {<<>>} \cup {<<x>> : x \in Targeting} \cup {<<x, y>> : x \in Targeting, y \in Targeting}}
    IN  {Input(f, NoSegments, User(k, "1"), Hash(1, 2)) :
            f \in flags \cup {Nil}, k \in {"", "u", "v"}}

(* Any two ranges, and every way of splitting the interval in three.       *)
RolloutInputs ==
    LET range == {<<>>, <<0>>, <<0, Bad>>} \cup (Points \X Points)
        rollouts ==
          {<<>>} \cup {<<[id |-> "t", rollout |-> r]>> : r \in range}
          \cup {<<[id |-> "t", rollout |-> r], [id |-> "f", rollout |-> q]>> :
                    r \in range, q \in range}
          \cup {<<[id |-> "t", rollout |-> <<0, m>>], [id |-> "f", rollout |-> <<m, n>>],
                  [id |-> "g", rollout |-> <<n, One>>]>> : m \in Points, n \in Points}
        flags == {[Basic EXCEPT !.variations = Append(@, [id |-> "g", value |-> "v"]),
                                !.fallthrough = Fallthrough(r, d)] :
                     r \in rollouts, d \in {Nil, "keyId", "x"}}
    IN  {Input(f, NoSegments, User("u", "1"), Hash(p, One - p)) : f \in flags, p \in Points}

Condition(property, op, value) == [property |-> property, op |-> op, value |-> value]

RuleOf(conditions, id, property) ==
    [conditions |-> conditions, variations |-> <<All(id)>>, dispatchKey |-> property]

Ops == NumericOps \cup DOMAIN MCHolding
         \cup {"Equal", "NotEqual", "NotContain", "MatchRegex", "NotMatchRegex",
               "IsOneOf", "NotOneOf", "IsTrue", "IsFalse", ""}

ConditionInputs ==
    LET some == {Condition("x", "Equal", "1"), Condition("name", "NotOneOf", "[")}
        one == {Condition(p, o, v) : p \in {"x", "keyId"}, o \in Ops,
                                     v \in {"", "u", "1", "2", "[u1]", "null", "["}}
        conditions == {<<>>} \cup {<<c>> : c \in one} \cup {<<c, d>> : c \in some, d \in one}
        flags == {[Basic EXCEPT !.rules = <<RuleOf(c, "f", "x"), RuleOf(<<>>, "t", Nil)>>] :
                     c \in conditions}
    IN  {Input(f, NoSegments, User("u", x), Hash(1, 3)) : f \in flags, x \in {"", "1", "2"}}

Segment(archived, included, excluded, rules) ==
    [archived |-> archived, included |-> included, excluded |-> excluded, rules |-> rules]

SegmentKinds ==
    {Nil, Segment(TRUE, {"u"}, {}, <<>>), Segment(FALSE, {"u"}, {}, <<>>),
     Segment(FALSE, {"u"}, {"u"}, << <<>> >>), Segment(FALSE, {"v"}, {}, <<>>),
     Segment(FALSE, {}, {}, << <<>> >>),
     Segment(FALSE, {}, {}, << <<Condition("x", "Equal", "2")>>,
                               <<Condition("name", "Equal", "v"), Condition("x", "BiggerThan", "1")>> >>),
     Segment(FALSE, {}, {}, << <<Condition("User is in segment", "IsOneOf", "[s]")>> >>)}

SegmentInputs ==
    LET conditions == {Condition(p, "", v) : p \in SegmentProperties,
                                             v \in {"[s]", "[sz]", "[zs]", "[]", "null", "["}}
        flags == {[Basic EXCEPT !.rules = <<RuleOf(<<c>>, "f", Nil)>>] : c \in conditions}
                 \cup {[Basic EXCEPT !.rules = <<RuleOf(<<c, Condition("x", "NotEqual", "1")>>, "f", Nil)>>] :
                          c \in conditions}
    IN  {Input(f, [s |-> s1, z |-> s2], User("u", x), Hash(1, 3)) :
            f \in flags, s1 \in SegmentKinds, s2 \in SegmentKinds, x \in {"1", "2"}}

MCInputs == <<TargetInputs, RolloutInputs, ConditionInputs, SegmentInputs>>
=============================================================================
