-------------------------- MODULE EvaluationProofs --------------------------
(***************************************************************************)
(* Proofs about Evaluation, for every flag, segment, user and hash and any *)
(* number of points: no complete split leaves a hash without a variation,  *)
(* none serves a variation whose share is nothing, the index changes no    *)
(* outcome, and of a condition and its negation exactly one holds, or      *)
(* neither when the data they need is bad.                                 *)
(***************************************************************************)
EXTENDS Evaluation, NaturalsInduction, WellFoundedInduction, TLAPS

(* A non-empty set of natural numbers has a least element.                 *)
LEMMA LeastElement ==
    ASSUME NEW S \in SUBSET Nat, S # {}
    PROVE  Min(S) \in S /\ \A y \in S : Min(S) =< y
<1>1. PICK d \in S : \A e \in S : ~ (<<e, d>> \in OpToRel(<, Nat))
  BY NatLessThanWellFounded, WFMin, Zenon
<1>2. \A e \in S : ~ (e < d)
  BY <1>1 DEF OpToRel
<1>3. \A e \in S : d =< e
  BY <1>2
<1>4. Min(S) \in S /\ \A y \in S : Min(S) =< y
  BY <1>3, Zenon DEF Min
<1> QED  BY <1>4

(* The elements of a sequence over a set are in the set.                   *)
LEMMA ElementOf ==
    ASSUME NEW A, NEW s \in Seq(A)
    PROVE  Len(s) \in Nat /\ DOMAIN s = 1..Len(s) /\ \A i \in 1..Len(s) : s[i] \in A
OBVIOUS

(* The selected range is the first that takes the point.                   *)
LEMMA SelectedIsFirst ==
    ASSUME NEW rollouts \in Rollouts, NEW point \in 0..One
    PROVE  LET i == SelectRollout(rollouts, point) IN
           IF \E j \in 1..Len(rollouts) : RangeMatches(rollouts[j].rollout, point)
           THEN /\ i \in 1..Len(rollouts) /\ RangeMatches(rollouts[i].rollout, point)
                /\ \A j \in 1..Len(rollouts) :
                      j < i => ~ RangeMatches(rollouts[j].rollout, point)
           ELSE i = 0
<1> DEFINE I == {j \in 1..Len(rollouts) : RangeMatches(rollouts[j].rollout, point)}
<1>1. SelectRollout(rollouts, point) = IF I # {} THEN Min(I) ELSE 0
  BY DEF SelectRollout, SelectInSeq
<1>2. I \in SUBSET Nat /\ Len(rollouts) \in Nat
  BY DEF Rollouts
<1>3. CASE I = {}
  BY <1>1, <1>3
<1>4. CASE I # {}
  <2>1. Min(I) \in I /\ \A y \in I : Min(I) =< y
    BY <1>2, <1>4, LeastElement
  <2>2. \A j \in 1..Len(rollouts) : j < Min(I) => j \notin I
    BY <2>1, <1>2
  <2> QED  BY <1>1, <1>4, <2>1, <2>2
<1> QED  BY <1>3, <1>4

(* The bounds of a complete split are ordered numbers, and each range      *)
(* starts where the one before it ends.                                    *)
LEMMA SplitBounds ==
    ASSUME NEW rollouts \in Rollouts, CompleteSplit(rollouts), NEW i \in 1..Len(rollouts)
    PROVE  LET range == rollouts[i].rollout IN
           /\ Len(range) = 2 /\ Unreadable \notin ToSet(range)
           /\ range = <<range[1], range[2]>>
           /\ range[1] \in Int /\ range[2] \in Int /\ range[1] =< range[2]
           /\ i = 1 => range[1] = 0
           /\ i # 1 => i - 1 \in 1..Len(rollouts) /\ range[1] = rollouts[i - 1].rollout[2]
<1> DEFINE range == rollouts[i].rollout
<1>1. Len(rollouts) \in Nat /\ DOMAIN rollouts = 1..Len(rollouts)
  BY DEF Rollouts
<1>2. range \in Seq(Int \cup {Unreadable})
  <2>1. rollouts[i] \in [id : Texts, rollout : Seq(Int \cup {Unreadable})]
    BY ElementOf, Zenon DEF Rollouts
  <2> QED  BY <2>1
<1>3. /\ Len(range) = 2 /\ Unreadable \notin ToSet(range) /\ range[1] <= range[2]
      /\ range[1] = IF i = 1 THEN 0 ELSE rollouts[i - 1].rollout[2]
  BY <1>1 DEF CompleteSplit
<1>4. range[1] \in Int /\ range[2] \in Int /\ range = <<range[1], range[2]>>
  BY <1>2, <1>3 DEF ToSet
<1> QED  BY <1>1, <1>3, <1>4

(* Every point is taken by some range of a complete split: the first one   *)
(* that ends at the point or beyond and does not end at zero.              *)
LEMMA SplitCovers ==
    ASSUME NEW rollouts \in Rollouts, CompleteSplit(rollouts), NEW point \in 0..One
    PROVE  \E i \in 1..Len(rollouts) : RangeMatches(rollouts[i].rollout, point)
<1> DEFINE S == {i \in 1..Len(rollouts) :
                    rollouts[i].rollout[2] >= point /\ rollouts[i].rollout[2] > 0}
<1>1. Len(rollouts) \in Nat /\ Len(rollouts) # 0 /\ Last(rollouts) = rollouts[Len(rollouts)]
  BY DEF Rollouts, CompleteSplit, Last
<1>2. Len(rollouts) \in S
  BY <1>1, PointsAssumption DEF CompleteSplit
<1>3. PICK i \in S : \A j \in S : i =< j
  <2>1. S \in SUBSET Nat /\ S # {}
    BY <1>1, <1>2
  <2> QED  BY <2>1, LeastElement
<1> DEFINE range == rollouts[i].rollout
<1>4. /\ Len(range) = 2 /\ Unreadable \notin ToSet(range)
      /\ range[1] \in Int /\ range[2] \in Int /\ range[1] =< range[2]
      /\ i = 1 => range[1] = 0
      /\ i # 1 => i - 1 \in 1..Len(rollouts) /\ range[1] = rollouts[i - 1].rollout[2]
  BY SplitBounds
<1>5. range[1] =< point
  <2>1. CASE i = 1
    BY <1>4, <2>1
  <2>2. CASE i # 1
    <3>1. i - 1 \notin S
      BY <1>1, <1>3
    <3> QED  BY <1>4, <2>2, <3>1
  <2> QED  BY <2>1, <2>2
<1>6. range # <<0, 0>>
  <2>1. range[2] # 0
    BY <1>4
  <2> QED  BY <2>1
<1> QED  BY <1>4, <1>5, <1>6 DEF RangeMatches

(* The range that is selected of a complete split is not an empty one.     *)
LEMMA SelectedHasShare ==
    ASSUME NEW rollouts \in Rollouts, CompleteSplit(rollouts), NEW point \in 0..One,
           NEW i \in 1..Len(rollouts), RangeMatches(rollouts[i].rollout, point),
           \A j \in 1..Len(rollouts) : j < i => ~ RangeMatches(rollouts[j].rollout, point)
    PROVE  rollouts[i].rollout[1] < rollouts[i].rollout[2]
<1> DEFINE range == rollouts[i].rollout
           before == rollouts[i - 1].rollout
<1>1. /\ range = <<range[1], range[2]>>
      /\ range[1] \in Int /\ range[2] \in Int /\ range[1] =< range[2]
      /\ i = 1 => range[1] = 0
      /\ i # 1 => i - 1 \in 1..Len(rollouts) /\ range[1] = before[2]
  BY SplitBounds
<1> SUFFICES ASSUME range[1] = range[2] PROVE FALSE
  BY <1>1
<1>2. ~ Everyone(range)
  BY PointsAssumption DEF Everyone
<1>3. range[1] = point /\ range[1] # 0
  BY <1>1, <1>2 DEF RangeMatches
<1>4. i # 1 /\ before[2] = point /\ point # 0
  BY <1>1, <1>3
<1>5. /\ Len(before) = 2 /\ Unreadable \notin ToSet(before)
      /\ before[1] \in Int /\ before[2] \in Int /\ before[1] =< before[2]
  BY <1>1, <1>4, SplitBounds
<1>6. before # <<0, 0>>
  BY <1>4
<1>7. RangeMatches(before, point)
  BY <1>4, <1>5, <1>6 DEF RangeMatches
<1> QED  BY <1>1, <1>4, <1>7
-----------------------------------------------------------------------------
(* What the inputs are.                                                    *)
Typed ==
    /\ flag \in Flag \cup {Nothing}
    /\ user.key \in Texts
    /\ \A p \in DOMAIN user.attributes : user.attributes[p] \in Texts
    /\ hashOf \in [Texts -> 0..One]

(* With the index, an id of the flag is served one of its variations.      *)
LEMMA KnownIsServed ==
    ASSUME Typed, flag \in Flag, NEW id \in KnownIds(flag), NEW reason
    PROVE  /\ "variation" \in DOMAIN Serve(id, Prepared, reason)
           /\ Serve(id, Prepared, reason).variation.id = id
           /\ Serve(id, Prepared, reason).reason = reason
<1> DEFINE I == {j \in 1..Len(flag.variations) : flag.variations[j].id = id}
<1>1. /\ flag.variations \in Seq([id : Texts, value : Texts])
      /\ Len(flag.variations) \in Nat /\ DOMAIN flag.variations = 1..Len(flag.variations)
  BY ElementOf DEF Flag
<1>2. I # {} /\ I \in SUBSET Nat
  BY <1>1 DEF KnownIds
<1>3. Min(I) \in I
  BY <1>2, LeastElement
<1>4. Prepared.flag.variations =
        [v \in KnownIds(flag) |-> SelectInSeq(flag.variations, LAMBDA x : x.id = v)]
  BY DEF Prepared, PreparedFlag, KnownIds
<1>5. SelectInSeq(flag.variations, LAMBDA x : x.id = id) = Min(I)
  BY <1>2 DEF SelectInSeq
<1>6. VariationAt(id, Prepared) = Min(I)
  BY <1>4, <1>5 DEF VariationAt
<1>7. Serve(id, Prepared, reason) = [variation |-> flag.variations[Min(I)], reason |-> reason]
  BY <1>3, <1>6 DEF Serve
<1> QED  BY <1>3, <1>7

(* A dispatch key is hashed to a point.                                    *)
LEMMA DispatchedToPoint ==
    ASSUME Typed, NEW property
    PROVE  hashOf[DispatchText(property)] \in 0..One
<1>1. ValueOf(property) \in Texts
  BY ParsersAssumption DEF ValueOf, Typed
<1>2. DispatchText(property) \in Texts
  BY <1>1 DEF DispatchText, Typed
<1> QED  BY <1>2 DEF Typed

(* A well-formed split serves one of its variations, one with a share.     *)
LEMMA SplitServes ==
    ASSUME Typed, flag \in Flag, NEW rollouts \in Rollouts, CompleteSplit(rollouts),
           NEW property
    PROVE  LET i == SelectRollout(rollouts, hashOf[DispatchText(property)]) IN
           /\ i \in 1..Len(rollouts) /\ i # 0
           /\ rollouts[i].rollout[1] < rollouts[i].rollout[2]
<1> DEFINE point == hashOf[DispatchText(property)]
           i == SelectRollout(rollouts, point)
<1>1. point \in 0..One
  BY DispatchedToPoint
<1>2. \E j \in 1..Len(rollouts) : RangeMatches(rollouts[j].rollout, point)
  BY <1>1, SplitCovers
<1>3. /\ i \in 1..Len(rollouts) /\ RangeMatches(rollouts[i].rollout, point)
      /\ \A j \in 1..Len(rollouts) : j < i => ~ RangeMatches(rollouts[j].rollout, point)
  BY <1>1, <1>2, SelectedIsFirst
<1>4. Len(rollouts) \in Nat
  BY ElementOf DEF Rollouts
<1> QED  BY <1>1, <1>3, <1>4, SelectedHasShare

(* So a well-formed split is served.                                       *)
LEMMA WellFormedSplitServed ==
    ASSUME Typed, flag \in Flag, NEW rollouts \in Rollouts,
           WellFormedSplit(rollouts, KnownIds(flag)), NEW property, NEW why
    PROVE  "variation" \in DOMAIN ServeRollout(rollouts, property, Prepared, why)
<1> DEFINE i == SelectRollout(rollouts, hashOf[DispatchText(property)])
<1>1. i \in 1..Len(rollouts) /\ i # 0
  BY SplitServes DEF WellFormedSplit
<1>2. rollouts[i].id \in KnownIds(flag)
  BY <1>1, ElementOf DEF WellFormedSplit, Rollouts
<1>3. ServeRollout(rollouts, property, Prepared, why)
        = Serve(rollouts[i].id, Prepared, <<why, IsPercentageSplit(rollouts)>>)
  BY <1>1 DEF ServeRollout
<1> QED  BY <1>2, <1>3, KnownIsServed

(* The target of a user, if any, is that of one of the flag's targets.     *)
LEMMA TargetIsListed ==
    ASSUME flag \in Flag, TargetOf(Prepared) # Nothing
    PROVE  \E i \in DOMAIN flag.targets : TargetOf(Prepared) = flag.targets[i].to
<1> DEFINE targets == flag.targets
           Least(key) == Min({i \in DOMAIN targets : key \in targets[i].keys})
<1>1. Len(targets) \in Nat /\ DOMAIN targets = 1..Len(targets)
  BY ElementOf DEF Flag
<1>2. CASE user.key \in DOMAIN Prepared.flag.targets
  <2>1. Prepared.flag.targets = FirstTargets(targets)
    BY DEF Prepared, PreparedFlag
  <2>2. /\ user.key \in UNION {targets[i].keys : i \in DOMAIN targets}
        /\ TargetOf(Prepared) = targets[Least(user.key)].to
    BY <1>2, <2>1 DEF FirstTargets, TargetOf
  <2>3. Least(user.key) \in DOMAIN targets
    <3> DEFINE J == {i \in DOMAIN targets : user.key \in targets[i].keys}
    <3>1. J \in SUBSET Nat /\ J # {}
      BY <1>1, <2>2
    <3>2. Min(J) \in J
      BY <3>1, LeastElement
    <3> QED  BY <3>2
  <2> QED  BY <2>2, <2>3
<1>3. CASE user.key \notin DOMAIN Prepared.flag.targets
  <2> DEFINE I == {i \in 1..Len(targets) : user.key \in targets[i].keys}
  <2>1. I \in SUBSET Nat /\ (I # {} => Min(I) \in I /\ Min(I) # 0)
    <3>1. I \in SUBSET Nat
      BY <1>1
    <3>2. I # {} => Min(I) \in I
      BY <3>1, LeastElement
    <3> QED  BY <1>1, <3>1, <3>2
  <2>2. TargetOf(Prepared) = IF I # {} THEN targets[Min(I)].to ELSE Nothing
    <3>1. SelectInSeq(targets, LAMBDA t : user.key \in t.keys) = IF I # {} THEN Min(I) ELSE 0
      BY DEF SelectInSeq
    <3> QED  BY <1>3, <2>1, <3>1 DEF TargetOf
  <2> QED  BY <1>1, <2>1, <2>2
<1> QED  BY <1>2, <1>3

(* The rule that applies, if any, is one of the flag's rules.              *)
LEMMA RuleIsListed ==
    ASSUME flag \in Flag
    PROVE  LET rule == SelectInSeq([i \in DOMAIN flag.rules |-> i],
                                   LAMBDA i : RuleMatches(i, Prepared))
           IN  rule # 0 => rule \in 1..Len(flag.rules) /\ flag.rules[rule] \in Rule
<1> DEFINE numbers == [i \in DOMAIN flag.rules |-> i]
           I == {i \in 1..Len(numbers) : RuleMatches(numbers[i], Prepared)}
<1>1. /\ Len(flag.rules) \in Nat /\ DOMAIN flag.rules = 1..Len(flag.rules)
      /\ \A i \in 1..Len(flag.rules) : flag.rules[i] \in Rule
  BY ElementOf DEF Flag
<1>2. Len(numbers) = Len(flag.rules)
  BY <1>1
<1>3. SelectInSeq(numbers, LAMBDA i : RuleMatches(i, Prepared)) = IF I # {} THEN Min(I) ELSE 0
  BY DEF SelectInSeq
<1>4. I # {} => Min(I) \in I
  <2>1. I \in SUBSET Nat
    BY <1>1, <1>2
  <2> QED  BY <2>1, LeastElement
<1> QED  BY <1>1, <1>2, <1>3, <1>4

(* The evaluation of a well-formed flag serves a variation: one case for   *)
(* each way the evaluation can take.                                       *)
LEMMA WellFormedIsServed ==
    ASSUME Typed, flag \in Flag, user.key # EmptyText, ~ flag.archived, WellFormed(flag),
           flag # Nothing
    PROVE  "variation" \in DOMAIN Evaluation(Prepared)
<1> DEFINE target == TargetOf(Prepared)
           rule == SelectInSeq([i \in DOMAIN flag.rules |-> i],
                               LAMBDA i : RuleMatches(i, Prepared))
           through == flag.fallthrough
<1>1. Evaluation(Prepared) = EvaluateFlag(Prepared)
  BY DEF Evaluation
<1>2. EvaluateFlag(Prepared) =
        IF ~ flag.enabled THEN Serve(flag.disabledVariation, Prepared, <<"Off">>)
        ELSE IF target # Nothing THEN Serve(target, Prepared, <<"TargetMatch">>)
        ELSE IF rule # 0
        THEN ServeRollout(flag.rules[rule].variations, flag.rules[rule].dispatchKey,
                          Prepared, "RuleMatch")
        ELSE ServeRollout(through.variations, through.dispatchKey, Prepared, "Fallthrough")
  BY DEF EvaluateFlag
<1>3. CASE ~ flag.enabled
  BY <1>1, <1>2, <1>3, KnownIsServed DEF WellFormed
<1>4. CASE flag.enabled /\ target # Nothing
  <2>1. target \in KnownIds(flag)
    BY <1>4, TargetIsListed DEF WellFormed
  <2> QED  BY <1>1, <1>2, <1>4, <2>1, KnownIsServed
<1>5. CASE flag.enabled /\ target = Nothing /\ rule # 0
  <2>1. rule \in 1..Len(flag.rules) /\ flag.rules[rule] \in Rule
    BY <1>5, RuleIsListed
  <2>2. rule \in DOMAIN flag.rules /\ flag.rules[rule].variations \in Rollouts
    BY <2>1, ElementOf DEF Flag, Rule
  <2>3. WellFormedSplit(flag.rules[rule].variations, KnownIds(flag))
    BY <2>2 DEF WellFormed
  <2> QED  BY <1>1, <1>2, <1>5, <2>2, <2>3, WellFormedSplitServed
<1>6. CASE flag.enabled /\ target = Nothing /\ rule = 0
  <2>1. through.variations \in Rollouts
    BY DEF Flag
  <2>2. WellFormedSplit(through.variations, KnownIds(flag))
    BY DEF WellFormed
  <2> QED  BY <1>1, <1>2, <1>6, <2>1, <2>2, WellFormedSplitServed
<1> QED  BY <1>3, <1>4, <1>5, <1>6 DEF Flag

(* Whatever the id, a variation of the flag with that id is served, or     *)
(* none.                                                                   *)
LEMMA ServeOutcome ==
    ASSUME Typed, flag \in Flag, flag # Nothing, NEW id, NEW reason
    PROVE  \/ Serve(id, Prepared, reason) = Failed("MalformedFlag")
           \/ \E v \in ToSet(flag.variations) :
                 v.id = id /\ Serve(id, Prepared, reason) = [variation |-> v, reason |-> reason]
<1> DEFINE I == {j \in 1..Len(flag.variations) : flag.variations[j].id = id}
<1>1. Len(flag.variations) \in Nat /\ DOMAIN flag.variations = 1..Len(flag.variations)
  BY ElementOf DEF Flag
<1>2. I # {} => Min(I) \in I /\ Min(I) # 0
  <2>1. I \in SUBSET Nat
    BY <1>1
  <2>2. I # {} => Min(I) \in I
    BY <2>1, LeastElement
  <2> QED  BY <1>1, <2>2
<1>3. SelectInSeq(flag.variations, LAMBDA x : x.id = id) = IF I # {} THEN Min(I) ELSE 0
  BY DEF SelectInSeq
<1>4. Prepared.flag.variations =
        [v \in KnownIds(flag) |-> SelectInSeq(flag.variations, LAMBDA x : x.id = v)]
  BY DEF Prepared, PreparedFlag, KnownIds
<1>5. VariationAt(id, Prepared) = IF I # {} THEN Min(I) ELSE 0
  BY <1>3, <1>4 DEF VariationAt
<1>6. CASE I = {}
  BY <1>5, <1>6 DEF Serve
<1>7. CASE I # {}
  <2>1. Serve(id, Prepared, reason) = [variation |-> flag.variations[Min(I)], reason |-> reason]
    BY <1>2, <1>5, <1>7 DEF Serve
  <2>2. flag.variations[Min(I)] \in ToSet(flag.variations)
    BY <1>1, <1>2, <1>7 DEF ToSet
  <2> QED  BY <1>2, <1>7, <2>1, <2>2
<1> QED  BY <1>6, <1>7

(* The same of a rollout; the variation is the one that was selected.      *)
LEMMA ServeRolloutOutcome ==
    ASSUME Typed, flag \in Flag, flag # Nothing, NEW rollouts \in Rollouts,
           NEW property, NEW why
    PROVE  LET served == ServeRollout(rollouts, property, Prepared, why)
               i == SelectRollout(rollouts, hashOf[DispatchText(property)])
           IN  \/ served = Failed("MalformedFlag")
               \/ \E v \in ToSet(flag.variations) :
                     /\ v.id = rollouts[i].id
                     /\ served = [variation |-> v, reason |-> <<why, IsPercentageSplit(rollouts)>>]
<1> DEFINE i == SelectRollout(rollouts, hashOf[DispatchText(property)])
           served == ServeRollout(rollouts, property, Prepared, why)
           reason == <<why, IsPercentageSplit(rollouts)>>
<1>1. CASE i = 0
  BY <1>1 DEF ServeRollout
<1>2. CASE i # 0
  <2>1. served = Serve(rollouts[i].id, Prepared, reason)
    BY <1>2 DEF ServeRollout
  <2> HIDE DEF served, i, reason
  <2>2. \/ served = Failed("MalformedFlag")
        \/ \E v \in ToSet(flag.variations) :
              v.id = rollouts[i].id /\ served = [variation |-> v, reason |-> reason]
    BY <2>1, ServeOutcome
  <2> QED  BY <2>2 DEF served, i, reason
<1> QED  BY <1>1, <1>2

(* The two ends of an evaluation: an error, or a variation of the flag,    *)
(* which on the fallthrough is the one selected there.                     *)
Failures == {Failed(e) : e \in {"InvalidContext", "FlagNotFound", "MalformedFlag"}}

Selected ==
    flag.fallthrough.variations[
        SelectRollout(flag.fallthrough.variations,
                      hashOf[DispatchText(flag.fallthrough.dispatchKey)])]

Serves(result) ==
    \E v \in ToSet(flag.variations) : \E reason :
        /\ result = [variation |-> v, reason |-> reason]
        /\ reason[1] = "Fallthrough" => v.id = Selected.id

(* Every way an evaluation can take leads to one of them.                  *)
LEMMA EvaluationOutcome ==
    ASSUME Typed, flag \in Flag, flag # Nothing
    PROVE  Evaluation(Prepared) \in Failures \/ Serves(Evaluation(Prepared))
<1> DEFINE target == TargetOf(Prepared)
           rule == SelectInSeq([i \in DOMAIN flag.rules |-> i],
                               LAMBDA i : RuleMatches(i, Prepared))
           through == flag.fallthrough
           result == Evaluation(Prepared)
<1>0. Failed("MalformedFlag") \in Failures
  BY DEF Failures
<1>1. CASE user.key = EmptyText \/ flag.archived
  BY <1>1 DEF Evaluation, Failures
<1>2. CASE user.key # EmptyText /\ ~ flag.archived
  <2>1. result =
          IF ~ flag.enabled THEN Serve(flag.disabledVariation, Prepared, <<"Off">>)
          ELSE IF target # Nothing THEN Serve(target, Prepared, <<"TargetMatch">>)
          ELSE IF rule # 0
          THEN ServeRollout(flag.rules[rule].variations, flag.rules[rule].dispatchKey,
                            Prepared, "RuleMatch")
          ELSE ServeRollout(through.variations, through.dispatchKey, Prepared, "Fallthrough")
    BY <1>2 DEF Evaluation, EvaluateFlag
  <2>2. CASE ~ flag.enabled
    <3>1. result = Serve(flag.disabledVariation, Prepared, <<"Off">>)
      BY <2>1, <2>2
    <3>2. ASSUME NEW v \in ToSet(flag.variations),
                 result = [variation |-> v, reason |-> <<"Off">>]
          PROVE  Serves(result)
      <4>1. (<<"Off">>)[1] # "Fallthrough"
        OBVIOUS
      <4> QED  BY <3>2, <4>1 DEF Serves
    <3> HIDE DEF result
    <3> QED  BY <1>0, <3>1, <3>2, ServeOutcome DEF result
  <2>3. CASE flag.enabled /\ target # Nothing
    <3>1. result = Serve(target, Prepared, <<"TargetMatch">>)
      BY <2>1, <2>3
    <3>2. ASSUME NEW v \in ToSet(flag.variations),
                 result = [variation |-> v, reason |-> <<"TargetMatch">>]
          PROVE  Serves(result)
      <4>1. (<<"TargetMatch">>)[1] # "Fallthrough"
        OBVIOUS
      <4> QED  BY <3>2, <4>1 DEF Serves
    <3> HIDE DEF result, target
    <3> QED  BY <1>0, <3>1, <3>2, ServeOutcome DEF result, target
  <2>4. CASE flag.enabled /\ target = Nothing /\ rule # 0
    <3> DEFINE rollouts == flag.rules[rule].variations
    <3>1. rule \in 1..Len(flag.rules) /\ flag.rules[rule] \in Rule
      BY <2>4, RuleIsListed
    <3>2. rollouts \in Rollouts
      BY <3>1 DEF Rule
    <3>3. result = ServeRollout(rollouts, flag.rules[rule].dispatchKey, Prepared, "RuleMatch")
      BY <2>1, <2>4
    <3>4. ASSUME NEW v \in ToSet(flag.variations), NEW split,
                 result = [variation |-> v, reason |-> <<"RuleMatch", split>>]
          PROVE  Serves(result)
      <4>1. (<<"RuleMatch", split>>)[1] # "Fallthrough"
        OBVIOUS
      <4> QED  BY <3>4, <4>1 DEF Serves
    <3> HIDE DEF result, rollouts, rule
    <3> QED  BY <1>0, <3>2, <3>3, <3>4, ServeRolloutOutcome DEF result
  <2>5. CASE flag.enabled /\ target = Nothing /\ rule = 0
    <3>1. through.variations \in Rollouts
      BY DEF Flag
    <3>2. result = ServeRollout(through.variations, through.dispatchKey, Prepared, "Fallthrough")
      BY <2>1, <2>5
    <3>3. ASSUME NEW v \in ToSet(flag.variations), NEW split, v.id = Selected.id,
                 result = [variation |-> v, reason |-> <<"Fallthrough", split>>]
          PROVE  Serves(result)
      BY <3>3 DEF Serves
    <3> HIDE DEF result
    <3> QED  BY <1>0, <3>1, <3>2, <3>3, ServeRolloutOutcome DEF result, Selected
  <2> QED  BY <2>2, <2>3, <2>4, <2>5 DEF Flag
<1> QED  BY <1>1, <1>2 DEF Flag

(* What the fallthrough serves of a complete split has a share.            *)
LEMMA FallthroughHasShare ==
    ASSUME Typed, flag \in Flag, NEW result, Serves(result), result.reason[1] = "Fallthrough",
           CompleteSplit(flag.fallthrough.variations)
    PROVE  LET split == flag.fallthrough.variations IN
           \E i \in DOMAIN split : /\ split[i].id = result.variation.id
                                   /\ split[i].rollout[1] < split[i].rollout[2]
<1> DEFINE split == flag.fallthrough.variations
           i == SelectRollout(split, hashOf[DispatchText(flag.fallthrough.dispatchKey)])
<1>1. split \in Rollouts
  BY DEF Flag
<1>2. i \in 1..Len(split) /\ split[i].rollout[1] < split[i].rollout[2]
  BY <1>1, SplitServes
<1>3. i \in DOMAIN split
  BY <1>1, <1>2, ElementOf DEF Rollouts
<1>4. result.variation.id = split[i].id
  BY DEF Serves, Selected
<1> QED  BY <1>2, <1>3, <1>4
-----------------------------------------------------------------------------
(***************************************************************************)
(* The index changes nothing: every operator that is given it answers as   *)
(* it does without one.                                                    *)
(***************************************************************************)

(* What the index holds of a condition is what its value parses to, of the *)
(* kind that is asked for, or it is of another kind.                       *)
LEMMA OperandIsParsed ==
    ASSUME NEW c
    PROVE  /\ c.op \in NumericOps =>
                Operand(PreparedCondition(c), "number", NumberOf[c.value]) = NumberOf[c.value]
           /\ c.op \in {"MatchRegex", "NotMatchRegex"} =>
                Operand(PreparedCondition(c), "pattern", PatternOf[c.value]) = PatternOf[c.value]
           /\ c.op \in {"IsOneOf", "NotOneOf"} =>
                Operand(PreparedCondition(c), "set", ReadSet(c.value)) = ReadSet(c.value)
           /\ c.property \in SegmentProperties =>
                Operand(PreparedCondition(c), "ids", ReadIds(c.value)) = ReadIds(c.value)
<1>1. CASE c.property \in SegmentProperties
  <2>1. PreparedCondition(c) = [kind |-> "ids", of |-> ReadIds(c.value)]
    BY <1>1 DEF PreparedCondition
  <2> QED  BY <2>1 DEF Operand
<1>2. CASE c.property \notin SegmentProperties
  <2>1. c.op \in NumericOps =>
          PreparedCondition(c) = [kind |-> "number", of |-> NumberOf[c.value]]
    BY <1>2 DEF PreparedCondition, NumericOps
  <2>2. c.op \in {"MatchRegex", "NotMatchRegex"} =>
          PreparedCondition(c) = [kind |-> "pattern", of |-> PatternOf[c.value]]
    BY <1>2 DEF PreparedCondition, NumericOps
  <2>3. c.op \in {"IsOneOf", "NotOneOf"} =>
          PreparedCondition(c) = [kind |-> "set", of |-> ReadSet(c.value)]
    BY <1>2 DEF PreparedCondition, NumericOps
  <2> QED  BY <1>2, <2>1, <2>2, <2>3 DEF Operand
<1> QED  BY <1>1, <1>2

(* Without the index a value is parsed on the spot.                        *)
LEMMA UnpreparedIsParsed ==
    ASSUME NEW kind \in {"number", "pattern", "set", "ids"}, NEW parsed
    PROVE  Operand(Unprepared, kind, parsed) = parsed
BY DEF Operand, Unprepared

(* So a condition matches the same texts with the index and without.       *)
LEMMA ConditionIsTransparent ==
    ASSUME NEW c
    PROVE  ConditionMatches(c, PreparedCondition(c)) <=> ConditionMatches(c, Unprepared)
<1> DEFINE text == ValueOf(c.property)
           p == PreparedCondition(c)
           q == Unprepared
<1>1. c.op \in NumericOps =>
        Operand(p, "number", NumberOf[c.value]) = Operand(q, "number", NumberOf[c.value])
  BY OperandIsParsed, UnpreparedIsParsed
<1>2. c.op \in {"MatchRegex", "NotMatchRegex"} =>
        Operand(p, "pattern", PatternOf[c.value]) = Operand(q, "pattern", PatternOf[c.value])
  BY OperandIsParsed, UnpreparedIsParsed
<1>3. c.op \in {"IsOneOf", "NotOneOf"} =>
        Operand(p, "set", ReadSet(c.value)) = Operand(q, "set", ReadSet(c.value))
  BY OperandIsParsed, UnpreparedIsParsed
<1> HIDE DEF p, q, text
<1>4. OperatorMatches(text, c, p) <=> OperatorMatches(text, c, q)
  <2>1. CASE c.op = "LessThan"
    BY <1>1, <2>1 DEF OperatorMatches, NumberMatches, NumericOps
  <2>2. CASE c.op = "LessEqualThan"
    BY <1>1, <2>2 DEF OperatorMatches, NumberMatches, NumericOps
  <2>3. CASE c.op = "BiggerThan"
    BY <1>1, <2>3 DEF OperatorMatches, NumberMatches, NumericOps
  <2>4. CASE c.op = "BiggerEqualThan"
    BY <1>1, <2>4 DEF OperatorMatches, NumberMatches, NumericOps
  <2>5. CASE c.op \in {"MatchRegex", "NotMatchRegex"}
    BY <1>2, <2>5, ParsersAssumption DEF OperatorMatches, MemberMatches, NumericOps
  <2>6. CASE c.op \in {"IsOneOf", "NotOneOf"}
    BY <1>3, <2>6, ParsersAssumption DEF OperatorMatches, MemberMatches, NumericOps
  <2>7. CASE c.op \notin NumericOps \cup {"MatchRegex", "NotMatchRegex", "IsOneOf", "NotOneOf"}
    BY <2>7 DEF OperatorMatches
  <2> QED  BY <2>1, <2>2, <2>3, <2>4, <2>5, <2>6, <2>7 DEF NumericOps
<1> QED  BY <1>4 DEF ConditionMatches, p, q, text

(* The index has each condition of a sequence of rules in its place.       *)
LEMMA ConditionInPlace ==
    ASSUME NEW rules, NEW i \in DOMAIN rules, NEW j \in DOMAIN rules[i]
    PROVE  /\ ConditionAt([k \in DOMAIN rules |-> PreparedRule(rules[k])], i, j)
                = PreparedCondition(rules[i][j])
           /\ ConditionAt(<<>>, i, j) = Unprepared
BY DEF ConditionAt, PreparedRule

(* A segment matches the same users.                                       *)
LEMMA SegmentIsTransparent ==
    ASSUME NEW id, Live(id)
    PROVE  SegmentMatches(id, Prepared) <=> SegmentMatches(id, NoIndex)
<1> DEFINE segment == segments[id]
           Matches(i, rules) == \A j \in DOMAIN segment.rules[i] :
                ConditionMatches(segment.rules[i][j], ConditionAt(rules, i, j))
           rules == [k \in DOMAIN segment.rules |-> PreparedRule(segment.rules[k])]
<1>1. id \in DOMAIN Prepared.segments /\ Prepared.segments[id] = PreparedSegment(segment)
  BY DEF Live, Prepared
<1>2. id \notin DOMAIN NoIndex.segments
  BY DEF NoIndex
<1>3. SegmentMatches(id, Prepared) <=>
        /\ user.key \notin segment.excluded
        /\ user.key \in segment.included \/ \E i \in DOMAIN segment.rules : Matches(i, rules)
  BY <1>1 DEF SegmentMatches, PreparedSegment
<1>4. SegmentMatches(id, NoIndex) <=>
        /\ user.key \notin segment.excluded
        /\ user.key \in segment.included \/ \E i \in DOMAIN segment.rules : Matches(i, <<>>)
  BY <1>2 DEF SegmentMatches
<1>5. ASSUME NEW i \in DOMAIN segment.rules
      PROVE  Matches(i, rules) <=> Matches(i, <<>>)
  <2>1. ASSUME NEW j \in DOMAIN segment.rules[i]
        PROVE  ConditionMatches(segment.rules[i][j], ConditionAt(rules, i, j))
                 <=> ConditionMatches(segment.rules[i][j], ConditionAt(<<>>, i, j))
    <3>1. ConditionAt(rules, i, j) = PreparedCondition(segment.rules[i][j])
      BY ConditionInPlace
    <3>2. ConditionAt(<<>>, i, j) = Unprepared
      BY ConditionInPlace
    <3> QED  BY <3>1, <3>2, ConditionIsTransparent
  <2> QED  BY <2>1
<1> HIDE DEF Matches, rules, segment
<1> QED  BY <1>3, <1>4, <1>5

(* A list of segments ends alike.                                          *)
LEMMA SegmentIdsAreTransparent ==
    ASSUME NEW ids
    PROVE  MatchSegmentIds(ids, Prepared) = MatchSegmentIds(ids, NoIndex)
<1> DEFINE Stops(index) ==
              {i \in 1..Len(ids) : ~ Live(ids[i]) \/ SegmentMatches(ids[i], index)}
           First(index) == IF Stops(index) # {} THEN Min(Stops(index)) ELSE 0
<1>1. Stops(Prepared) = Stops(NoIndex)
  BY SegmentIsTransparent
<1>2. SelectInSeq(ids, LAMBDA id : ~ Live(id) \/ SegmentMatches(id, Prepared)) = First(Prepared)
  BY DEF SelectInSeq
<1>3. SelectInSeq(ids, LAMBDA id : ~ Live(id) \/ SegmentMatches(id, NoIndex)) = First(NoIndex)
  BY DEF SelectInSeq
<1>4. First(Prepared) = First(NoIndex)
  <2> HIDE DEF Stops
  <2> QED  BY <1>1
<1> HIDE DEF First
<1> QED  BY <1>2, <1>3, <1>4, Zenon DEF MatchSegmentIds

(* So does a condition of a rule, on a segment or on the user.             *)
LEMMA RuleConditionIsTransparent ==
    ASSUME NEW c
    PROVE  RuleConditionMatches(c, PreparedCondition(c), Prepared)
             <=> RuleConditionMatches(c, Unprepared, NoIndex)
<1>1. CASE c.property \in SegmentProperties
  <2>1. Operand(PreparedCondition(c), "ids", ReadIds(c.value))
          = Operand(Unprepared, "ids", ReadIds(c.value))
    BY <1>1, OperandIsParsed, UnpreparedIsParsed
  <2>2. MatchesAnySegment(c, PreparedCondition(c), Prepared)
          = MatchesAnySegment(c, Unprepared, NoIndex)
    BY <2>1, SegmentIdsAreTransparent, Zenon DEF MatchesAnySegment
  <2> QED  BY <1>1, <2>2 DEF RuleConditionMatches, SegmentProperties
<1>2. CASE c.property \notin SegmentProperties
  BY <1>2, ConditionIsTransparent DEF RuleConditionMatches, SegmentProperties
<1> QED  BY <1>1, <1>2

(* A rule applies to the same users.                                       *)
LEMMA RuleIsTransparent ==
    ASSUME NEW i \in DOMAIN flag.rules
    PROVE  RuleMatches(i, Prepared) <=> RuleMatches(i, NoIndex)
<1> DEFINE conditions == flag.rules[i].conditions
           rules == [k \in DOMAIN flag.rules |-> PreparedRule(flag.rules[k].conditions)]
<1>1. Prepared.flag.rules = rules /\ NoIndex.flag.rules = <<>>
  BY DEF Prepared, PreparedFlag, NoIndex
<1>2. ASSUME NEW j \in DOMAIN conditions
      PROVE  RuleConditionMatches(conditions[j], ConditionAt(rules, i, j), Prepared)
               <=> RuleConditionMatches(conditions[j], ConditionAt(<<>>, i, j), NoIndex)
  <2>1. ConditionAt(rules, i, j) = PreparedCondition(conditions[j])
    BY DEF ConditionAt, PreparedRule
  <2>2. ConditionAt(<<>>, i, j) = Unprepared
    BY DEF ConditionAt
  <2> HIDE DEF conditions, rules
  <2> QED  BY <2>1, <2>2, RuleConditionIsTransparent
<1>3. RuleMatches(i, Prepared) <=>
        \A j \in DOMAIN conditions :
           RuleConditionMatches(conditions[j], ConditionAt(rules, i, j), Prepared)
  BY <1>1, Zenon DEF RuleMatches
<1>4. RuleMatches(i, NoIndex) <=>
        \A j \in DOMAIN conditions :
           RuleConditionMatches(conditions[j], ConditionAt(<<>>, i, j), NoIndex)
  BY <1>1, Zenon DEF RuleMatches
<1> HIDE DEF conditions, rules
<1> QED  BY <1>2, <1>3, <1>4

(* So the first rule that applies is the same one.                         *)
LEMMA FirstRuleIsTransparent ==
    ASSUME flag \in Flag
    PROVE  SelectInSeq([i \in DOMAIN flag.rules |-> i], LAMBDA i : RuleMatches(i, Prepared))
             = SelectInSeq([i \in DOMAIN flag.rules |-> i], LAMBDA i : RuleMatches(i, NoIndex))
<1> DEFINE numbers == [i \in DOMAIN flag.rules |-> i]
           Applying(index) == {i \in 1..Len(numbers) : RuleMatches(numbers[i], index)}
           First(index) == IF Applying(index) # {} THEN Min(Applying(index)) ELSE 0
<1>1. DOMAIN flag.rules = 1..Len(flag.rules) /\ Len(flag.rules) \in Nat
  BY ElementOf DEF Flag
<1>2. Len(numbers) = Len(flag.rules) /\ \A i \in 1..Len(flag.rules) : numbers[i] = i
  BY <1>1
<1>3. Applying(Prepared) = Applying(NoIndex)
  BY <1>1, <1>2, RuleIsTransparent
<1>4. First(Prepared) = First(NoIndex)
  <2> HIDE DEF Applying
  <2> QED  BY <1>3
<1>5. SelectInSeq(numbers, LAMBDA i : RuleMatches(i, Prepared)) = First(Prepared)
  BY DEF SelectInSeq
<1>6. SelectInSeq(numbers, LAMBDA i : RuleMatches(i, NoIndex)) = First(NoIndex)
  BY DEF SelectInSeq
<1> QED  BY <1>4, <1>5, <1>6

(* The variation of an id is the first with that id, indexed or not.       *)
LEMMA VariationIsTransparent ==
    ASSUME NEW id
    PROVE  VariationAt(id, Prepared) = VariationAt(id, NoIndex)
<1>1. Prepared.flag.variations =
        [v \in {flag.variations[i].id : i \in DOMAIN flag.variations} |->
            SelectInSeq(flag.variations, LAMBDA x : x.id = v)]
  BY DEF Prepared, PreparedFlag
<1>2. id \in DOMAIN Prepared.flag.variations =>
        Prepared.flag.variations[id] = SelectInSeq(flag.variations, LAMBDA x : x.id = id)
  BY <1>1
<1>3. DOMAIN NoIndex.flag.variations = {}
  BY DEF NoIndex
<1> QED  BY <1>2, <1>3 DEF VariationAt

(* The target of a key is the first that lists it, indexed or not.         *)
LEMMA TargetIsTransparent ==
    ASSUME flag \in Flag
    PROVE  TargetOf(Prepared) = TargetOf(NoIndex)
<1> DEFINE targets == flag.targets
           Listing == {i \in 1..Len(targets) : user.key \in targets[i].keys}
           first == SelectInSeq(targets, LAMBDA t : user.key \in t.keys)
<1>1. Len(targets) \in Nat /\ DOMAIN targets = 1..Len(targets)
  BY ElementOf DEF Flag
<1>2. first = IF Listing # {} THEN Min(Listing) ELSE 0
  BY DEF SelectInSeq
<1>3. TargetOf(NoIndex) = IF first = 0 THEN Nothing ELSE targets[first].to
  BY DEF TargetOf, NoIndex
<1>4. Prepared.flag.targets = FirstTargets(targets)
  BY DEF Prepared, PreparedFlag
<1>5. CASE user.key \in DOMAIN Prepared.flag.targets
  <2>1. Listing # {} /\ Listing \in SUBSET Nat
    BY <1>1, <1>4, <1>5 DEF FirstTargets
  <2>2. Min(Listing) \in Listing
    BY <2>1, LeastElement
  <2>3. TargetOf(Prepared) = targets[Min(Listing)].to
    BY <1>1, <1>4, <1>5 DEF FirstTargets, TargetOf
  <2>4. Min(Listing) # 0
    BY <1>1, <2>2
  <2> HIDE DEF Listing, first
  <2> QED  BY <1>2, <1>3, <2>1, <2>3, <2>4
<1>6. CASE user.key \notin DOMAIN Prepared.flag.targets
  <2> HIDE DEF first
  <2> QED  BY <1>3, <1>6 DEF TargetOf, first
<1> QED  BY <1>5, <1>6

(* The whole evaluation ends alike.                                        *)
LEMMA EvaluationIsTransparent ==
    ASSUME flag \in Flag \cup {Nothing}
    PROVE  Evaluation(Prepared) = Evaluation(NoIndex)
<1>1. CASE user.key = EmptyText \/ flag = Nothing \/ flag.archived
  BY <1>1 DEF Evaluation
<1>2. CASE ~ (user.key = EmptyText \/ flag = Nothing \/ flag.archived)
  <2> DEFINE Applied(index) == SelectInSeq([i \in DOMAIN flag.rules |-> i],
                                           LAMBDA i : RuleMatches(i, index))
  <2>1. ASSUME NEW id, NEW reason
        PROVE  Serve(id, Prepared, reason) = Serve(id, NoIndex, reason)
    BY VariationIsTransparent DEF Serve
  <2>2. ASSUME NEW rollouts, NEW property, NEW why
        PROVE  ServeRollout(rollouts, property, Prepared, why)
                 = ServeRollout(rollouts, property, NoIndex, why)
    BY <2>1 DEF ServeRollout
  <2>3. TargetOf(Prepared) = TargetOf(NoIndex)
    BY <1>2, TargetIsTransparent
  <2>4. Applied(Prepared) = Applied(NoIndex)
    BY <1>2, FirstRuleIsTransparent
  <2>5. ASSUME NEW index
        PROVE  EvaluateFlag(index) =
                 IF ~ flag.enabled THEN Serve(flag.disabledVariation, index, <<"Off">>)
                 ELSE IF TargetOf(index) # Nothing
                 THEN Serve(TargetOf(index), index, <<"TargetMatch">>)
                 ELSE IF Applied(index) # 0
                 THEN ServeRollout(flag.rules[Applied(index)].variations,
                                   flag.rules[Applied(index)].dispatchKey, index, "RuleMatch")
                 ELSE ServeRollout(flag.fallthrough.variations, flag.fallthrough.dispatchKey,
                                   index, "Fallthrough")
    BY DEF EvaluateFlag
  <2> HIDE DEF Applied
  <2>6. EvaluateFlag(Prepared) = EvaluateFlag(NoIndex)
    BY <2>1, <2>2, <2>3, <2>4, <2>5
  <2> QED  BY <2>6 DEF Evaluation
<1> QED  BY <1>1, <1>2

(* An evaluation reads the inputs and nothing else: a step that leaves     *)
(* them alone leaves what it would end with alone.                         *)
LEMMA EvaluationReadsInputs ==
    ASSUME UNCHANGED <<flag, segments, user, hashOf>>
    PROVE  Evaluation(NoIndex)' = Evaluation(NoIndex)
<1>0. flag' = flag /\ segments' = segments /\ user' = user /\ hashOf' = hashOf
  OBVIOUS
<1>1. ASSUME NEW CONSTANT property
      PROVE  ValueOf(property)' = ValueOf(property)
  BY <1>0 DEF ValueOf
<1>2. ASSUME NEW CONSTANT c, NEW CONSTANT p
      PROVE  ConditionMatches(c, p)' = ConditionMatches(c, p)
  BY <1>1, Zenon DEF ConditionMatches
<1>3. ASSUME NEW CONSTANT id
      PROVE  /\ Live(id)' = Live(id)
             /\ SegmentMatches(id, NoIndex)' = SegmentMatches(id, NoIndex)
  BY <1>0, <1>2 DEF Live, SegmentMatches, NoIndex
<1>4. ASSUME NEW CONSTANT ids
      PROVE  MatchSegmentIds(ids, NoIndex)' = MatchSegmentIds(ids, NoIndex)
  BY <1>3 DEF MatchSegmentIds, SelectInSeq
<1>5. ASSUME NEW CONSTANT c, NEW CONSTANT p
      PROVE  RuleConditionMatches(c, p, NoIndex)' = RuleConditionMatches(c, p, NoIndex)
  BY <1>2, <1>4 DEF RuleConditionMatches, MatchesAnySegment
<1>6. ASSUME NEW CONSTANT i
      PROVE  RuleMatches(i, NoIndex)' = RuleMatches(i, NoIndex)
  BY <1>0, <1>5 DEF RuleMatches
<1>7. ASSUME NEW CONSTANT id, NEW CONSTANT reason
      PROVE  Serve(id, NoIndex, reason)' = Serve(id, NoIndex, reason)
  BY <1>0 DEF Serve, VariationAt, NoIndex, SelectInSeq
<1>8. ASSUME NEW CONSTANT rollouts, NEW CONSTANT property, NEW CONSTANT why
      PROVE  ServeRollout(rollouts, property, NoIndex, why)'
               = ServeRollout(rollouts, property, NoIndex, why)
  BY <1>0, <1>1, <1>7 DEF ServeRollout, DispatchText
<1>9. TargetOf(NoIndex)' = TargetOf(NoIndex)
  BY <1>0 DEF TargetOf, NoIndex, SelectInSeq
<1>10. EvaluateFlag(NoIndex)' = EvaluateFlag(NoIndex)
  BY <1>0, <1>6, <1>7, <1>8, <1>9 DEF EvaluateFlag, SelectInSeq
<1> QED  BY <1>0, <1>10 DEF Evaluation

-----------------------------------------------------------------------------
(***************************************************************************)
(* A condition and its negation: of a list of segments first, then of the  *)
(* operators on values.                                                    *)
(***************************************************************************)

(* What a list of segments parses to is a sequence or unreadable.          *)
LEMMA IdsAreRead ==
    ASSUME NEW t \in Texts
    PROVE  ReadIds(t) # Unreadable =>
              Len(ReadIds(t)) \in Nat /\ DOMAIN ReadIds(t) = 1..Len(ReadIds(t))
<1>1. CASE ListOf[t] = Null
  BY <1>1 DEF ReadIds
<1>2. CASE ListOf[t] \in Seq(Texts) /\ ListOf[t] # Null
  BY <1>2, ElementOf DEF ReadIds
<1> QED  BY <1>1, <1>2, ParsersAssumption DEF ReadIds

(* A list ends at its first segment that matches or is not live; it is     *)
(* valid when that one is live or there is none.                           *)
LEMMA ListIsDecided ==
    ASSUME NEW ids, Len(ids) \in Nat, DOMAIN ids = 1..Len(ids)
    PROVE  LET result == MatchSegmentIds(ids, Prepared)
               dead == {i \in DOMAIN ids : ~ Live(ids[i])}
               hits == {i \in DOMAIN ids \ dead : SegmentMatches(ids[i], NoIndex)}
           IN  IF \A d \in dead : \E h \in hits : h < d
               THEN result \in {"Matched", "NotMatched"} ELSE result = "Invalid"
<1> DEFINE result == MatchSegmentIds(ids, Prepared)
           dead == {i \in DOMAIN ids : ~ Live(ids[i])}
           hits == {i \in DOMAIN ids \ dead : SegmentMatches(ids[i], NoIndex)}
           stops == {i \in 1..Len(ids) : ~ Live(ids[i]) \/ SegmentMatches(ids[i], Prepared)}
           first == IF stops # {} THEN Min(stops) ELSE 0
<1>1. SelectInSeq(ids, LAMBDA id : ~ Live(id) \/ SegmentMatches(id, Prepared)) = first
  BY DEF SelectInSeq
<1>2. result = IF first = 0 THEN "NotMatched"
               ELSE IF Live(ids[first]) THEN "Matched" ELSE "Invalid"
  <2> HIDE DEF first
  <2> QED  BY <1>1 DEF MatchSegmentIds
<1>3. stops = dead \cup hits /\ dead \in SUBSET (1..Len(ids)) /\ hits \in SUBSET (1..Len(ids))
  BY SegmentIsTransparent
<1>4. stops # {} => first \in stops /\ \A i \in stops : first =< i
  <2>1. stops \in SUBSET Nat
    OBVIOUS
  <2> HIDE DEF stops
  <2> QED  BY <2>1, LeastElement
<1>5. CASE stops = {}
  <2>1. first = 0 /\ dead = {}
    BY <1>3, <1>5
  <2> HIDE DEF first, dead, stops, result
  <2> QED  BY <1>2, <2>1 DEF dead, result
<1>6. CASE first \in dead
  <2>1. first # 0 /\ ~ Live(ids[first])
    BY <1>3, <1>6
  <2>2. result = "Invalid"
    <3> HIDE DEF first, result
    <3> QED  BY <1>2, <2>1
  <2>3. \A h \in hits : ~ (h < first)
    <3> HIDE DEF first, stops, hits, dead
    <3>1. stops # {} /\ first \in Int
      BY <1>3, <1>6
    <3>2. \A h \in hits : h \in Int /\ first =< h
      BY <1>3, <1>4, <3>1
    <3> QED  BY <3>1, <3>2
  <2> HIDE DEF first, hits, dead, result
  <2> QED  BY <1>6, <2>2, <2>3 DEF dead, hits, result
<1>7. CASE stops # {} /\ first \notin dead
  <2>1. first \in hits /\ first \in Int /\ first # 0
    <3> HIDE DEF first, stops, hits, dead
    <3>1. first \in hits
      BY <1>3, <1>4, <1>7
    <3>2. first \in 1..Len(ids)
      BY <1>3, <3>1
    <3> QED  BY <3>1, <3>2
  <2>2. Live(ids[first])
    BY <2>1
  <2>3. result = "Matched"
    <3> HIDE DEF first, result
    <3> QED  BY <1>2, <2>1, <2>2
  <2>4. \A d \in dead : first < d
    <3> HIDE DEF first, stops, hits, dead
    <3>1. \A d \in dead : d \in Int /\ first =< d /\ d # first
      BY <1>3, <1>4, <1>7
    <3> QED  BY <2>1, <3>1
  <2> HIDE DEF first, hits, dead, result
  <2> QED  BY <2>1, <2>3, <2>4 DEF dead, hits, result
<1> QED  BY <1>5, <1>6, <1>7

(* A condition on segments holds of a valid list or its negation does, and *)
(* neither of an invalid one.                                              *)
LEMMA SegmentOpposites ==
    ASSUME NEW c \in [property : STRING, op : STRING, value : Texts]
    PROVE  ExactlyOne([c EXCEPT !.property = "User is in segment"],
                      [c EXCEPT !.property = "User is not in segment"])
<1> DEFINE in == [c EXCEPT !.property = "User is in segment"]
           out == [c EXCEPT !.property = "User is not in segment"]
           ids == ReadIds(c.value)
           result == MatchSegmentIds(ids, Prepared)
<1>1. /\ in.property = "User is in segment" /\ in.value = c.value
      /\ out.property = "User is not in segment" /\ out.value = c.value
  OBVIOUS
<1>2. /\ Operand(PreparedCondition(in), "ids", ReadIds(in.value)) = ids
      /\ Operand(PreparedCondition(out), "ids", ReadIds(out.value)) = ids
  BY <1>1, OperandIsParsed DEF SegmentProperties
<1> HIDE DEF in, out
<1>3. /\ MatchesAnySegment(in, PreparedCondition(in), Prepared)
           = IF ids = Unreadable THEN "Invalid" ELSE result
      /\ MatchesAnySegment(out, PreparedCondition(out), Prepared)
           = IF ids = Unreadable THEN "Invalid" ELSE result
  BY <1>2, Zenon DEF MatchesAnySegment
<1>4. /\ Holds(in) <=> (IF ids = Unreadable THEN "Invalid" ELSE result) = "Matched"
      /\ Holds(out) <=> (IF ids = Unreadable THEN "Invalid" ELSE result) = "NotMatched"
  BY <1>1, <1>3 DEF Holds, RuleConditionMatches
<1>5. Resolved(in) <=>
        LET dead == {i \in DOMAIN ids : ~ Live(ids[i])}
            hits == {i \in DOMAIN ids \ dead : SegmentMatches(ids[i], NoIndex)}
        IN  ids # Unreadable /\ \A d \in dead : \E h \in hits : h < d
  BY <1>1 DEF Resolved, SegmentProperties
<1>6. CASE ids = Unreadable
  BY <1>4, <1>5, <1>6 DEF ExactlyOne, in, out
<1>7. CASE ids # Unreadable
  <2>1. Len(ids) \in Nat /\ DOMAIN ids = 1..Len(ids)
    BY <1>7, IdsAreRead
  <2> HIDE DEF ids
  <2>2. IF Resolved(in) THEN result \in {"Matched", "NotMatched"} ELSE result = "Invalid"
    BY <1>5, <1>7, <2>1, ListIsDecided
  <2> HIDE DEF result
  <2> QED  BY <1>4, <1>7, <2>2 DEF ExactlyOne, in, out
<1> QED  BY <1>6, <1>7

(* So it is with the operators: each pair of opposites decides a value     *)
(* that can be read, and no other.                                         *)
LEMMA OperatorOpposites ==
    ASSUME NEW c, NEW d, NEW text \in Texts, c.value \in Texts, d.value = c.value,
           <<c.op, d.op>> \in Opposites
    PROVE  LET readable ==
                 /\ c.op \in NumericOps => Unreadable \notin {NumberOf[c.value], NumberOf[text]}
                 /\ c.op \in {"IsOneOf", "NotOneOf"} => ReadSet(c.value) # Unreadable
                 /\ c.op \in {"MatchRegex", "NotMatchRegex"} => PatternOf[c.value] # Unreadable
           IN  IF readable
               THEN OperatorMatches(text, c, Unprepared) <=> ~ OperatorMatches(text, d, Unprepared)
               ELSE /\ ~ OperatorMatches(text, c, Unprepared)
                    /\ ~ OperatorMatches(text, d, Unprepared)
<1>1. CASE c.op = "IsOneOf" /\ d.op = "NotOneOf"
  BY <1>1, ParsersAssumption, UnpreparedIsParsed DEF OperatorMatches, MemberMatches, NumericOps
<1>2. CASE c.op = "MatchRegex" /\ d.op = "NotMatchRegex"
  BY <1>2, ParsersAssumption, UnpreparedIsParsed DEF OperatorMatches, MemberMatches, NumericOps
<1>3. CASE c.op = "Equal" /\ d.op = "NotEqual"
  BY <1>3, ParsersAssumption DEF OperatorMatches, NumericOps
<1>4. CASE c.op = "Contains" /\ d.op = "NotContain"
  BY <1>4, ParsersAssumption DEF OperatorMatches, NumericOps
<1>5. CASE c.op = "LessThan" /\ d.op = "BiggerEqualThan"
  BY <1>5, ParsersAssumption, UnpreparedIsParsed DEF OperatorMatches, NumberMatches, NumericOps
<1>6. CASE c.op = "BiggerThan" /\ d.op = "LessEqualThan"
  BY <1>6, ParsersAssumption, UnpreparedIsParsed DEF OperatorMatches, NumberMatches, NumericOps
<1> QED  BY <1>1, <1>2, <1>3, <1>4, <1>5, <1>6 DEF Opposites

(* So it is with every condition of a rule that is on a value of the user. *)
LEMMA ValueOpposites ==
    ASSUME Typed, NEW c \in [property : STRING, op : STRING, value : Texts],
           c.property \notin SegmentProperties, NEW pair \in Opposites
    PROVE  ExactlyOne([c EXCEPT !.op = pair[1]], [c EXCEPT !.op = pair[2]])
<1> DEFINE one == [c EXCEPT !.op = pair[1]]
           other == [c EXCEPT !.op = pair[2]]
           text == ValueOf(c.property)
<1>1. /\ one.op = pair[1] /\ one.value = c.value /\ one.property = c.property
      /\ other.op = pair[2] /\ other.value = c.value /\ other.property = c.property
  OBVIOUS
<1>2. <<one.op, other.op>> \in Opposites
  BY <1>1 DEF Opposites
<1>3. text \in Texts /\ c.value \in Texts
  BY ParsersAssumption DEF ValueOf, Typed
<1> HIDE DEF one, other
<1>4. ASSUME NEW x, x.property = c.property
      PROVE  Holds(x) <=> OperatorMatches(text, x, Unprepared)
  <2>1. Holds(x) <=> ConditionMatches(x, PreparedCondition(x))
    BY <1>4 DEF Holds, RuleConditionMatches, SegmentProperties
  <2>2. ConditionMatches(x, Unprepared) <=> OperatorMatches(text, x, Unprepared)
    BY <1>4, Zenon DEF ConditionMatches
  <2> QED  BY <2>1, <2>2, ConditionIsTransparent
<1>5. Resolved(one) <=>
        /\ one.op \in NumericOps => Unreadable \notin {NumberOf[one.value], NumberOf[text]}
        /\ one.op \in {"IsOneOf", "NotOneOf"} => ReadSet(one.value) # Unreadable
        /\ one.op \in {"MatchRegex", "NotMatchRegex"} => PatternOf[one.value] # Unreadable
  BY <1>1 DEF Resolved
<1> HIDE DEF text
<1>6. IF Resolved(one)
      THEN OperatorMatches(text, one, Unprepared) <=> ~ OperatorMatches(text, other, Unprepared)
      ELSE /\ ~ OperatorMatches(text, one, Unprepared)
           /\ ~ OperatorMatches(text, other, Unprepared)
  BY <1>1, <1>2, <1>3, <1>5, OperatorOpposites
<1>7. Holds(one) <=> OperatorMatches(text, one, Unprepared)
  BY <1>1, <1>4
<1>8. Holds(other) <=> OperatorMatches(text, other, Unprepared)
  BY <1>1, <1>4
<1>9. IF Resolved(one) THEN Holds(one) <=> ~ Holds(other) ELSE ~ Holds(one) /\ ~ Holds(other)
  BY <1>6, <1>7, <1>8
<1> QED  BY <1>9 DEF ExactlyOne, one, other

(* All of it together, of whatever the inputs can be.                      *)
LEMMA BadDataIsInert == Typed => BadDataMatchesNothing
<1> SUFFICES ASSUME Typed, flag # Nothing,
                    NEW i \in DOMAIN flag.rules, NEW j \in DOMAIN flag.rules[i].conditions
             PROVE  LET c == flag.rules[i].conditions[j] IN
                    IF c.property \in SegmentProperties
                    THEN ExactlyOne([c EXCEPT !.property = "User is in segment"],
                                    [c EXCEPT !.property = "User is not in segment"])
                    ELSE \A pair \in Opposites : c.op \in {pair[1], pair[2]} =>
                            ExactlyOne([c EXCEPT !.op = pair[1]], [c EXCEPT !.op = pair[2]])
  BY DEF BadDataMatchesNothing
<1> DEFINE c == flag.rules[i].conditions[j]
<1>1. flag.rules[i] \in Rule
  BY ElementOf DEF Typed, Flag
<1>2. flag.rules[i].conditions \in Conditions
  BY <1>1 DEF Rule
<1>3. c \in [property : STRING, op : STRING, value : Texts]
  BY <1>2, ElementOf DEF Conditions
<1> HIDE DEF c
<1>4. CASE c.property \in SegmentProperties
  BY <1>3, <1>4, SegmentOpposites DEF c
<1>5. CASE c.property \notin SegmentProperties
  BY <1>3, <1>5, ValueOpposites DEF c
<1> QED  BY <1>4, <1>5

-----------------------------------------------------------------------------
(* What holds of the states: before the evaluation nothing but the inputs, *)
(* after it what the lemmas say of its outcome.                            *)
IInv == Typed /\ TypeOK /\ WellFormedServes /\ ZeroShareUnserved

LEMMA InitIInv == Init => IInv
<1> SUFFICES ASSUME Init PROVE IInv
  OBVIOUS
<1>1. Typed
  BY InputsAssumption DEF Init, Typed
<1>2. outcome = Nothing
  BY DEF Init
<1> QED
  BY <1>1, <1>2 DEF IInv, TypeOK, WellFormedServes, ZeroShareUnserved, IsServed, Evaluated

LEMMA NextIInv == IInv /\ [Next]_vars => IInv'
<1> SUFFICES ASSUME IInv, [Next]_vars PROVE IInv'
  OBVIOUS
<1> USE DEF IInv
<1>1. CASE Evaluate
  <2> DEFINE result == Evaluation(Prepared)
  <2>1. outcome' = result /\ flag' = flag /\ user' = user /\ hashOf' = hashOf
    BY <1>1 DEF Evaluate
  <2>2. Typed'
    BY <2>1 DEF Typed
  <2>3. flag # Nothing => flag \in Flag
    BY DEF Typed
  <2>4. CASE flag = Nothing
    <3>1. result \in Failures
      BY <2>4 DEF Evaluation, Failures
    <3>2. "variation" \notin DOMAIN result
      BY <3>1 DEF Failures, Failed
    <3> HIDE DEF result
    <3> QED
      BY <2>1, <2>2, <2>4, <3>1, <3>2
      DEF TypeOK, Failures, WellFormedServes, ZeroShareUnserved, IsServed
  <2>5. CASE flag # Nothing
    <3>1. result \in Failures \/ Serves(result)
      BY <2>3, <2>5, EvaluationOutcome
    <3>2. result \in Failures => "variation" \notin DOMAIN result
      BY DEF Failures, Failed
    <3>3. Serves(result) =>
            "variation" \in DOMAIN result /\ result.variation \in ToSet(flag.variations)
      BY DEF Serves
    <3>4. user.key # EmptyText /\ ~ flag.archived /\ WellFormed(flag)
            => "variation" \in DOMAIN result
      BY <2>3, <2>5, WellFormedIsServed
    <3>5. /\ Serves(result) /\ result.reason[1] = "Fallthrough"
          /\ CompleteSplit(flag.fallthrough.variations)
          => \E i \in DOMAIN flag.fallthrough.variations :
                /\ flag.fallthrough.variations[i].id = result.variation.id
                /\ flag.fallthrough.variations[i].rollout[1]
                     < flag.fallthrough.variations[i].rollout[2]
      BY <2>3, <2>5, FallthroughHasShare
    <3> HIDE DEF result
    <3>6. TypeOK'
      BY <2>1, <3>1, <3>3 DEF TypeOK, Failures, IsServed, Evaluated
    <3>7. WellFormedServes'
      BY <2>1, <3>4 DEF WellFormedServes, IsServed, Evaluated
    <3>8. ZeroShareUnserved'
      BY <2>1, <3>1, <3>2, <3>5 DEF ZeroShareUnserved, IsServed, Evaluated
    <3> QED  BY <2>2, <3>6, <3>7, <3>8
  <2> QED  BY <2>4, <2>5
<1>2. CASE UNCHANGED vars
  BY <1>2 DEF vars, Typed, TypeOK, WellFormedServes, ZeroShareUnserved, IsServed, Evaluated
<1> QED  BY <1>1, <1>2 DEF Next

LEMMA Invariance == Spec => []IInv
BY InitIInv, NextIInv, PTL DEF Spec

(* An evaluation fails in one of three ways or serves a variation of the   *)
(* flag, whatever the flag, the segments and the user are.                 *)
THEOREM TypeCorrect == Spec => []TypeOK
<1>1. IInv => TypeOK
  BY DEF IInv
<1> QED  BY <1>1, Invariance, PTL

(* A flag whose ids exist and whose splits are complete serves every user, *)
(* however many ranges a split has and wherever his key is hashed to.      *)
THEOREM WellFormedAlwaysServes == Spec => []WellFormedServes
<1>1. IInv => WellFormedServes
  BY DEF IInv
<1> QED  BY <1>1, Invariance, PTL

(* The fallthrough serves nobody a variation whose ranges are all empty.   *)
THEOREM ZeroShareNeverServed == Spec => []ZeroShareUnserved
<1>1. IInv => ZeroShareUnserved
  BY DEF IInv
<1> QED  BY <1>1, Invariance, PTL

(* The index changes the cost of an evaluation and nothing else, whatever  *)
(* the flag and the segments are.                                          *)
THEOREM IndexChangesNothing == Spec => []IndexIsTransparent
<1>1. Init => IndexIsTransparent
  BY DEF Init, IndexIsTransparent, Evaluated
<1>2. IInv /\ IndexIsTransparent /\ [Next]_vars => IndexIsTransparent'
  <2> SUFFICES ASSUME IInv, IndexIsTransparent, [Next]_vars PROVE IndexIsTransparent'
    OBVIOUS
  <2>1. Evaluation(NoIndex)' = Evaluation(NoIndex)
    BY EvaluationReadsInputs DEF Next, Evaluate, vars
  <2>2. CASE Evaluate
    <3>1. outcome' = Evaluation(Prepared)
      BY <2>2 DEF Evaluate
    <3>2. Evaluation(Prepared) = Evaluation(NoIndex)
      BY EvaluationIsTransparent DEF IInv, Typed
    <3> QED  BY <2>1, <3>1, <3>2 DEF IndexIsTransparent
  <2>3. CASE UNCHANGED vars
    BY <2>1, <2>3 DEF IndexIsTransparent, Evaluated, vars
  <2> QED  BY <2>2, <2>3 DEF Next
<1> QED  BY <1>1, <1>2, Invariance, PTL DEF Spec

(* A condition and its negation never both hold, and of what is there and  *)
(* can be read one of them does: unreadable values, patterns and lists and *)
(* missing segments match nobody.                                          *)
THEOREM BadDataNeverMatches == Spec => []BadDataMatchesNothing
<1>1. IInv => BadDataMatchesNothing
  BY BadDataIsInert DEF IInv
<1> QED  BY <1>1, Invariance, PTL
=============================================================================
