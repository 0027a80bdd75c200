----------------------------- MODULE LLMRouter ------------------------------
(***************************************************************************)
(* llm.Router.Extract on one chunk: which model is asked, how often, and   *)
(* what is returned.  Worker's ExtractChunk is one run of this machine.    *)
(* The models are environment: a call may fail (an API error, a context    *)
(* that is done, no choice, an answer that is no JSON object), or answer   *)
(* with any set of fields.  A field that is present may be null.           *)
(***************************************************************************)
EXTENDS Naturals, FiniteSets

CONSTANTS
  Fields,                \* field names
  Schemas,               \* what the router reads of a schema: its properties,
                         \* the required ones, and whether one is an array or object
  ChunkLengths,          \* the lengths a chunk may have
  LongChunk,             \* the 3000 of selectTier
  ComplexityThreshold,   \* LLMConfig.ComplexityThreshold
  MaxRetries             \* LLMConfig.MaxRetries

ASSUME SchemasAssumption ==
  Schemas \subseteq [fields : SUBSET Fields, required : SUBSET Fields, nested : BOOLEAN]
ASSUME FieldsAssumption == IsFiniteSet(Fields)
ASSUME LengthsAssumption == ChunkLengths \subseteq Nat /\ LongChunk \in Nat
ASSUME LimitsAssumption == ComplexityThreshold \in Nat /\ MaxRetries \in Nat

VARIABLES
  schema, length,        \* the request
  pc, tier, attempt,     \* Extract's position and variables
  asked,                 \* history: the calls made to each tier
  last,                  \* history: the tier that was called last
  answer, modelUsed      \* the response, once there is one

request == <<schema, length>>
response == <<answer, modelUsed>>
vars == <<request, pc, tier, attempt, asked, last, response>>

Tiers == {"fast", "strong"}

\* Until there is a response its fields are empty and its model is "none".
TypeOK ==
  /\ schema \in Schemas
  /\ length \in ChunkLengths
  /\ pc \in {"select", "call", "answered", "failed"}
  /\ tier \in Tiers
  /\ attempt \in 0 .. MaxRetries + 1
  /\ asked \in [Tiers -> Nat]
  /\ last \in Tiers
  /\ answer \subseteq Fields
  /\ modelUsed \in Tiers \cup {"none"}

Init ==
  /\ schema \in Schemas
  /\ length \in ChunkLengths
  /\ pc = "select"
  /\ tier = "fast"
  /\ attempt = 0
  /\ asked = [t \in Tiers |-> 0]
  /\ last = "fast"
  /\ answer = {}
  /\ modelUsed = "none"

countSchemaFields == Cardinality(schema.fields)
hasNestedStructures == schema.nested

Complex ==
  \/ countSchemaFields > ComplexityThreshold
  \/ length > LongChunk
  \/ hasNestedStructures

SelectTier ==
  /\ pc = "select"
  /\ tier' = IF Complex THEN "strong" ELSE "fast"
  /\ pc' = "call"
  /\ UNCHANGED <<request, attempt, asked, last, response>>

MayCall == attempt <= MaxRetries

\* callLLM with the model of the current tier.
Call ==
  /\ pc = "call"
  /\ MayCall
  /\ asked' = [asked EXCEPT ![tier] = @ + 1]
  /\ last' = tier
  /\ UNCHANGED request

\* Mutant: the retry stays with its model.
SameTier(t) == t

Escalated(t) == "strong"
NextAttempt(n) == n + 1

TryAgain ==
  /\ tier' = Escalated(tier)
  /\ attempt' = NextAttempt(attempt)
  /\ UNCHANGED <<pc, response>>

\* Mutant: any answer will do.
AnyAnswer(fields) == TRUE

\* validateResponse: the required fields are there, null or not.
Valid(fields) == schema.required \subseteq fields

CallFails == Call /\ TryAgain

CallAnswers ==
  \E fields \in SUBSET Fields :
    /\ Call
    /\ IF Valid(fields)
       THEN /\ pc' = "answered"
            /\ answer' = fields
            /\ modelUsed' = tier
            /\ UNCHANGED <<tier, attempt>>
       ELSE TryAgain

Exhausted ==
  /\ pc = "call"
  /\ ~MayCall
  /\ pc' = "failed"
  /\ UNCHANGED <<request, tier, attempt, asked, last, response>>

Step == SelectTier \/ CallFails \/ CallAnswers \/ Exhausted

Done == pc \in {"answered", "failed"} /\ UNCHANGED vars

Next == Step \/ Done

Spec == Init /\ [][Next]_vars

-----------------------------------------------------------------------------
\* A chunk costs at most MaxRetries + 1 calls and at most one of them is lost
\* on the cheap model; a complex request never asks it, and a simple one fails
\* only after the strong model had every attempt but the first (Extract's loop
\* and its two escalations).
CallsBounded ==
  /\ asked["fast"] + asked["strong"] <= MaxRetries + 1
  /\ asked["fast"] <= IF Complex THEN 0 ELSE 1
  /\ pc = "failed" => asked["strong"] = MaxRetries + (IF Complex THEN 1 ELSE 0)

\* What is returned was validated and is billed to the model that gave it: the
\* tier that is switched on the way does not relabel an answer (ModelUsed).
AnswerSound ==
  pc = "answered" =>
    /\ schema.required \subseteq answer
    /\ modelUsed = last
    /\ last = "fast" => ~Complex /\ asked["strong"] = 0
=============================================================================
