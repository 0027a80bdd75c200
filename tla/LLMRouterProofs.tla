--------------------------- MODULE LLMRouterProofs --------------------------
(***************************************************************************)
(* The router's call counts and its answers, for every schema, length and  *)
(* limit.                                                                  *)
(***************************************************************************)
EXTENDS LLMRouter, TLAPS

\* The calls made are the attempts counted, all on the strong model but for
\* the first one of a simple request.
CountInv ==
  /\ pc = "select" => attempt = 0 /\ asked["fast"] = 0 /\ asked["strong"] = 0
  /\ pc \in {"call", "failed"} =>
       /\ asked["fast"] + asked["strong"] = attempt
       /\ asked["fast"] = IF tier = "fast" \/ Complex THEN 0 ELSE 1
       /\ tier = "fast" => attempt = 0 /\ ~Complex
  /\ pc = "failed" => attempt = MaxRetries + 1
  /\ pc = "answered" =>
       /\ asked["fast"] + asked["strong"] = attempt + 1
       /\ asked["fast"] = IF Complex THEN 0 ELSE 1
       /\ attempt <= MaxRetries

RouterInv == TypeOK /\ CountInv /\ AnswerSound

\* The inductive invariant gives the bound the runs check.
LEMMA RouterInvBounds == RouterInv => CallsBounded
<1> SUFFICES ASSUME RouterInv PROVE CallsBounded
    OBVIOUS
<1>1. asked["fast"] \in Nat /\ asked["strong"] \in Nat /\ MaxRetries \in Nat
      BY LimitsAssumption DEF RouterInv, TypeOK, Tiers
<1>2. pc \in {"select", "call", "answered", "failed"} /\ attempt \in 0 .. MaxRetries + 1
      BY DEF RouterInv, TypeOK
<1>3. asked["fast"] + asked["strong"] <= MaxRetries + 1
      BY <1>1, <1>2 DEF RouterInv, CountInv
<1>4. asked["fast"] <= IF Complex THEN 0 ELSE 1
      BY <1>1, <1>2 DEF RouterInv, CountInv
<1>5. ASSUME pc = "failed" PROVE asked["strong"] = MaxRetries + (IF Complex THEN 1 ELSE 0)
      BY <1>1, <1>5 DEF RouterInv, CountInv
<1> QED BY <1>3, <1>4, <1>5 DEF CallsBounded

\* It holds when Extract is entered.
LEMMA RouterInvInit == Init => RouterInv
<1> USE LimitsAssumption DEF Tiers
<1> SUFFICES ASSUME Init PROVE RouterInv
    OBVIOUS
<1>1. TypeOK
      BY DEF Init, TypeOK
<1>2. CountInv
      BY DEF Init, CountInv
<1>3. AnswerSound
      BY DEF Init, AnswerSound
<1> QED BY <1>1, <1>2, <1>3 DEF RouterInv

\* What a call does to the two counts.
LEMMA CallCounts ==
  ASSUME TypeOK, Call
  PROVE  /\ asked["fast"] \in Nat /\ asked["strong"] \in Nat
         /\ tier = "fast" =>
              asked'["fast"] = asked["fast"] + 1 /\ asked'["strong"] = asked["strong"]
         /\ tier = "strong" =>
              asked'["fast"] = asked["fast"] /\ asked'["strong"] = asked["strong"] + 1
         /\ tier \in {"fast", "strong"}
<1>1. asked' = [asked EXCEPT ![tier] = @ + 1] /\ asked \in [Tiers -> Nat] /\ tier \in Tiers
      BY DEF TypeOK, Call
<1>2. asked["fast"] \in Nat /\ asked["strong"] \in Nat
      BY <1>1 DEF Tiers
<1>3. CASE tier = "fast"
      BY <1>1, <1>2, <1>3 DEF Tiers
<1>4. CASE tier = "strong"
      BY <1>1, <1>2, <1>4 DEF Tiers
<1> QED BY <1>1, <1>2, <1>3, <1>4 DEF Tiers

\* The schema and the length do not change, and with them the complexity.
LEMMA ComplexStays == UNCHANGED request => Complex' = Complex
BY DEF request, Complex, countSchemaFields, hasNestedStructures

\* Before a call, a simple request has had its fast attempt or is about to.
LEMMA BeforeCall ==
  ASSUME CountInv, Call
  PROVE  /\ asked["fast"] + asked["strong"] = attempt
         /\ asked["fast"] = IF tier = "fast" \/ Complex THEN 0 ELSE 1
         /\ tier = "fast" => attempt = 0 /\ ~Complex
         /\ attempt <= MaxRetries
         /\ pc = "call"
BY DEF CountInv, Call, MayCall

\* A call that leads to another attempt is counted by it.
LEMMA TryAgainCount == ASSUME TypeOK, CountInv, Call, TryAgain PROVE CountInv'
<1>1. /\ pc' = "call" /\ tier' = "strong" /\ attempt' = attempt + 1
      /\ attempt \in Nat
      BY LimitsAssumption, BeforeCall DEF TryAgain, Escalated, NextAttempt, TypeOK
<1>2. Complex' = Complex
      BY ComplexStays DEF Call
<1>3. asked'["fast"] + asked'["strong"] = attempt'
      BY <1>1, CallCounts, BeforeCall
<1>4. asked'["fast"] = IF Complex THEN 0 ELSE 1
      BY CallCounts, BeforeCall
<1> QED BY <1>1, <1>2, <1>3, <1>4 DEF CountInv

\* So is a call whose answer is returned.
LEMMA AnsweredCount ==
  ASSUME TypeOK, CountInv, Call, pc' = "answered", UNCHANGED <<tier, attempt>>
  PROVE  CountInv'
<1>1. attempt' = attempt /\ attempt \in Nat /\ attempt <= MaxRetries
      BY LimitsAssumption, BeforeCall DEF TypeOK
<1>2. Complex' = Complex
      BY ComplexStays DEF Call
<1>3. asked'["fast"] + asked'["strong"] = attempt + 1
      BY <1>1, CallCounts, BeforeCall
<1>4. asked'["fast"] = IF Complex THEN 0 ELSE 1
      BY CallCounts, BeforeCall
<1> QED BY <1>1, <1>2, <1>3, <1>4 DEF CountInv

\* A call that leads to another attempt keeps it, whichever model was asked.
LEMMA TryAgainInv == ASSUME RouterInv, Call, TryAgain PROVE RouterInv'
<1> USE LimitsAssumption DEF Tiers
<1> USE DEF RouterInv, Call, TryAgain, MayCall, Escalated, NextAttempt, request, response
<1>1. Complex' = Complex
      BY DEF Complex, countSchemaFields, hasNestedStructures
<1>2. asked' = [asked EXCEPT ![tier] = @ + 1] /\ asked \in [Tiers -> Nat] /\ tier \in Tiers
      BY DEF TypeOK
<1>3. TypeOK'
      BY DEF TypeOK
<1>4. CountInv'
      BY TryAgainCount
<1>5. AnswerSound'
      BY DEF AnswerSound
<1> QED BY <1>3, <1>4, <1>5

\* So does a call whose answer is returned.
LEMMA AnsweredInv ==
  ASSUME RouterInv, NEW fields \in SUBSET Fields, Call, Valid(fields), pc' = "answered",
         answer' = fields, modelUsed' = tier, UNCHANGED <<tier, attempt>>
  PROVE  RouterInv'
<1> USE LimitsAssumption DEF Tiers
<1> USE DEF RouterInv, Call, MayCall, Valid, request
<1>1. Complex' = Complex
      BY DEF Complex, countSchemaFields, hasNestedStructures
<1>2. asked' = [asked EXCEPT ![tier] = @ + 1] /\ asked \in [Tiers -> Nat] /\ tier \in Tiers
      BY DEF TypeOK
<1>3. TypeOK'
      BY DEF TypeOK
<1>4. CountInv'
      BY AnsweredCount
<1>5. AnswerSound'
  <2>1. /\ schema' = schema /\ answer' = fields /\ modelUsed' = tier /\ last' = tier
        /\ schema.required \subseteq fields
        OBVIOUS
  <2>2. ASSUME tier = "fast" PROVE ~Complex /\ asked'["strong"] = 0
        BY <1>2, <2>2, CallCounts, BeforeCall
  <2> QED BY <1>1, <2>1, <2>2 DEF AnswerSound
<1> QED BY <1>3, <1>4, <1>5

\* Every step of Extract keeps it.
LEMMA RouterInvNext == RouterInv /\ [Next]_vars => RouterInv'
<1> USE LimitsAssumption DEF Tiers
<1> SUFFICES ASSUME RouterInv, [Next]_vars PROVE RouterInv'
    OBVIOUS
<1>1. CASE SelectTier
  <2> USE <1>1 DEF SelectTier, request, response
  <2>1. Complex' = Complex
        BY DEF Complex, countSchemaFields, hasNestedStructures
  <2>2. TypeOK'
        BY DEF RouterInv, TypeOK
  <2>3. CountInv'
        BY <2>1 DEF RouterInv, CountInv
  <2>4. AnswerSound'
        BY DEF AnswerSound
  <2> QED BY <2>2, <2>3, <2>4 DEF RouterInv
<1>2. CASE CallFails
      BY <1>2, TryAgainInv DEF CallFails
<1>3. CASE CallAnswers
  <2>1. PICK fields \in SUBSET Fields :
          /\ Call
          /\ IF Valid(fields)
             THEN /\ pc' = "answered"
                  /\ answer' = fields
                  /\ modelUsed' = tier
                  /\ UNCHANGED <<tier, attempt>>
             ELSE TryAgain
        BY <1>3 DEF CallAnswers
  <2>2. CASE Valid(fields)
        BY <2>1, <2>2, AnsweredInv
  <2>3. CASE ~Valid(fields)
        BY <2>1, <2>3, TryAgainInv
  <2> QED BY <2>2, <2>3
<1>4. CASE Exhausted
  <2> USE <1>4 DEF Exhausted, MayCall, request, response
  <2>1. Complex' = Complex
        BY DEF Complex, countSchemaFields, hasNestedStructures
  <2>2. TypeOK'
        BY DEF RouterInv, TypeOK
  <2>3. CountInv'
        BY <2>1 DEF RouterInv, CountInv, TypeOK
  <2>4. AnswerSound'
        BY DEF AnswerSound
  <2> QED BY <2>2, <2>3, <2>4 DEF RouterInv
<1>5. CASE UNCHANGED vars
      BY <1>5 DEF RouterInv, TypeOK, CountInv, AnswerSound, Complex, countSchemaFields,
                  hasNestedStructures, vars, request, response
<1> QED BY <1>1, <1>2, <1>3, <1>4, <1>5 DEF Next, Step, Done

\* A chunk costs at most MaxRetries + 1 calls, one of them on the cheap model,
\* and none is spared before Extract gives up.
THEOREM CallsAreBounded == Spec => []CallsBounded
<1>1. Spec => []RouterInv
      BY RouterInvInit, RouterInvNext, PTL DEF Spec
<1> QED BY <1>1, RouterInvBounds, PTL

\* Every answer Extract returns was validated and names the model that gave it.
THEOREM AnswersAreSound == Spec => []AnswerSound
<1>1. Spec => []RouterInv
      BY RouterInvInit, RouterInvNext, PTL DEF Spec
<1>2. RouterInv => AnswerSound
      BY DEF RouterInv
<1> QED BY <1>1, <1>2, PTL

\* Every variable of a call keeps its type; the counters stay within bounds.
THEOREM RouterTypeCorrect == Spec => []TypeOK
<1>1. Spec => []RouterInv
      BY RouterInvInit, RouterInvNext, PTL DEF Spec
<1>2. RouterInv => TypeOK
      BY DEF RouterInv
<1> QED BY <1>1, <1>2, PTL
=============================================================================
