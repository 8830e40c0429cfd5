---------------------------- MODULE StructuredCall ----------------------------
(***************************************************************************)
(* src/kyrg/llms/base.py: LLMBase.structured / astructured, the loop that  *)
(* asks a provider for a structured answer until it parses, and the token  *)
(* usage an adapter remembers.  A workflow waits for one call at a time.   *)
(***************************************************************************)
EXTENDS Naturals

CONSTANTS
    Roles,          \* the adapters of a workflow context
    LLM,            \* the provider they are built for
    MaxAttempts,    \* LLMBase.max_attempts
    Charges,        \* tokens a provider may charge for one response
    UsageReported,  \* whether every parsed response carries its usage
    CallCap         \* bound: the history variable calls stops here

\* build_llm makes the first three; LangChainLLM is the library's fourth.
LLMs == {"openai", "openrouter", "gemini", "langchain"}

ASSUME LLMAssumption == LLM \in LLMs
ASSUME AttemptsAssumption == MaxAttempts \in Nat \ {0}
ASSUME ChargesAssumption == Charges \subseteq Nat
ASSUME CallAssumption == UsageReported \in BOOLEAN /\ CallCap \in Nat

VARIABLES
    attempt,  \* invalid answers of the call in progress so far
    usage,    \* per adapter, _input_tokens + _output_tokens
    charged,  \* history: tokens charged for the call in progress
    calls     \* history: requests sent to the provider

callVars == <<attempt, usage, charged, calls>>

CallInit ==
    /\ attempt = 0
    /\ usage = [r \in Roles |-> 0]
    /\ charged = 0
    /\ calls = 0

\* A run is given adapters of its own, or those of an earlier run.
TakeAdapters == usage' = [r \in Roles |-> 0] \/ UNCHANGED usage

\* Mutant: usage adds up in the adapter and again in the workflow's state.
AddTokenAccumulated(r, tokens) == usage' = [usage EXCEPT ![r] = @ + tokens]

\* _add_token keeps the latest usage only.
AddToken(r, tokens) == usage' = [usage EXCEPT ![r] = tokens]

Request == calls' = IF calls < CallCap THEN calls + 1 ELSE calls

\* What comes back: an object of the schema, a mapping that fits it or not,
\* nothing that parses, or a text that does not fit it.
Replies == {"object", "mapping", "misfit", "nothing", "text"}

\* The SDK makes the object itself, and raises its ValidationError for a text
\* that does not fit before the adapter has seen the usage.
OpenAIReads(reply) == [valid |-> reply = "object", metered |-> reply # "text"]

\* The SDK leaves parsed empty then, and may leave a mapping to validate.
GoogleReads(reply) == [valid |-> reply \in {"object", "mapping"}, metered |-> TRUE]

\* include_raw: the raw message comes with its parsing_error.
LangChainReads(reply) == [valid |-> reply \in {"object", "mapping"}, metered |-> TRUE]

Reads(reply) == CASE LLM = "gemini" -> GoogleReads(reply)
                  [] LLM = "langchain" -> LangChainReads(reply)
                  [] OTHER -> OpenAIReads(reply)

\* The usage is noted before the answer is judged, when the provider sent it.
Note(reply, r, tokens) ==
    IF Reads(reply).metered
    THEN AddToken(r, tokens) \/ (~UsageReported /\ UNCHANGED usage)
    ELSE UNCHANGED usage

\* The answer parses.
ValidAnswer(r, tokens) ==
    /\ Request
    /\ \E reply \in Replies : Reads(reply).valid /\ Note(reply, r, tokens)
    /\ attempt' = 0
    /\ charged' = 0

\* ValidationError or StructuredOutputParsingError.
InvalidAnswer(r, tokens) ==
    /\ Request
    /\ \E reply \in Replies : ~Reads(reply).valid /\ Note(reply, r, tokens)

\* An attempt is left: ask again with the errors appended to the prompt.
AskAgain(r) ==
    /\ attempt + 1 < MaxAttempts
    /\ \E tokens \in Charges :
           InvalidAnswer(r, tokens) /\ charged' = charged + tokens
    /\ attempt' = attempt + 1

\* The last attempt is invalid too: StructuredOutputError.
GiveUp(r) ==
    /\ attempt + 1 = MaxAttempts
    /\ \E tokens \in Charges : InvalidAnswer(r, tokens)
    /\ attempt' = 0
    /\ charged' = 0

\* The provider's SDK fails: RuntimeError, which is not retried.
ProviderError ==
    /\ Request
    /\ attempt' = 0
    /\ charged' = 0
    /\ UNCHANGED usage
=============================================================================
