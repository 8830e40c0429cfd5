-------------------------- MODULE CopyAdaptationProofs --------------------------
(***************************************************************************)
(* What holds of the copy-adaptation graph for every size of answer, every *)
(* retry budget, every number of attempts and every checkpointer.          *)
(***************************************************************************)
EXTENDS CopyAdaptation, FiniteSetTheorems, TLAPS

\* An answer turned into sections is a sequence of sections of one draft.
LEMMA WrittenFacts ==
    ASSUME NEW orders \in Orderings, NEW draft \in Nat,
           NEW by \in {"writer", "reviewer"}
    PROVE  /\ Written(orders, draft, by) \in Seq(Section)
           /\ \A s \in Range(Written(orders, draft, by)) : s.draft = draft
<1>1. PICK n \in 0..MaxSections : orders \in [1..n -> Orders]
  BY DEF Orderings
<1>2. n \in Nat
  BY <1>1, SizeAssumption
<1>3. DOMAIN orders = 1..n
  BY <1>1
<1>4. Written(orders, draft, by) \in [1..n -> Section]
  BY <1>1, <1>3 DEF Written, Section
<1>5. Written(orders, draft, by) \in Seq(Section)
  BY <1>2, <1>4
<1>6. \A s \in Range(Written(orders, draft, by)) : s.draft = draft
  BY DEF Written, Range
<1>7. QED
  BY <1>5, <1>6

\* The number of a draft is a natural number.
LEMMA DraftType ==
    ASSUME NEW s \in State
    PROVE  Draft(s) \in Nat
BY DEF State, Draft

\* The initial state of a run is a state.
LEMMA InitialStateType ==
    ASSUME NEW language \in BOOLEAN
    PROVE  InitialState(language) \in State
BY DEF InitialState, State, Nodes

\* Adding tokens to a state gives a state.
LEMMA TokensType ==
    ASSUME NEW s \in State, NEW t \in Nat, NEW c \in Nat
    PROVE  [s EXCEPT !.tokens = t, !.charged = c] \in State
BY DEF State

\* Every adapter notes the usage of an answer that parses, when it is sent.
LEMMA ValidIsNoted ==
    ASSUME NEW r, NEW tokens, ValidAnswer(r, tokens)
    PROVE  AddToken(r, tokens) \/ (~UsageReported /\ UNCHANGED usage)
<1>1. \A reply \in Replies : Reads(reply).valid => Reads(reply).metered
  BY LLMAssumption
     DEF LLMs, Replies, Reads, OpenAIReads, GoogleReads, LangChainReads
<1>2. QED
  BY <1>1 DEF ValidAnswer, Note

\* An answer that does not parse leaves the usage noted or as it was.
LEMMA InvalidMayBeNoted ==
    ASSUME NEW r, NEW tokens, InvalidAnswer(r, tokens)
    PROVE  AddToken(r, tokens) \/ UNCHANGED usage
BY DEF InvalidAnswer, Note

\* Two states that differ in their token fields only.
Untouched(new, old) ==
    /\ new.next = old.next /\ new.language = old.language
    /\ new.sections = old.sections /\ new.revised = old.revised
    /\ new.approved = old.approved /\ new.instructed = old.instructed
    /\ new.section_retries = old.section_retries
    /\ new.passed = old.passed /\ new.errors = old.errors
    /\ new.script_retries = old.script_retries
    /\ new.notes = old.notes

\* The state after an accepted answer: the update plus its tokens.
LEMMA AnsweredEffect ==
    ASSUME TypeOK, NEW STATE update, update \in State, Answered(update), st.next \in LLMNodes
    PROVE  /\ \E t, c \in Nat :
                /\ st'.tokens = update.tokens + t
                /\ st'.charged = update.charged + c
                /\ UsageReported => t <= c
           /\ st' \in State
           /\ Untouched(st', update)
           /\ checkpoint' = IF Checkpointer = "none" THEN None ELSE st'
           /\ attempt' = 0 /\ charged' = 0
           /\ usage' \in [Roles -> Nat]
           /\ calls' \in Nat /\ calls' <= calls + 1
<1> DEFINE role == RoleOf(st.next)
<1>1. role \in Roles
  BY RolesAssumption DEF RoleOf
<1>2. PICK tokens \in Charges :
         /\ ValidAnswer(role, tokens)
         /\ Commit([update EXCEPT !.tokens = @ + usage'[role],
                                  !.charged = @ + charged + tokens])
  BY DEF Answered
<1>3. tokens \in Nat
  BY <1>2, ChargesAssumption
<1>4. /\ usage' \in [Roles -> Nat]
      /\ UsageReported => usage'[role] = tokens
  BY <1>1, <1>2, <1>3, ValidIsNoted DEF AddToken, TypeOK
<1>5. /\ usage'[role] \in Nat
      /\ charged + tokens \in Nat
      /\ UsageReported => usage'[role] <= charged + tokens
  BY <1>1, <1>3, <1>4 DEF TypeOK
<1>6. update.tokens \in Nat /\ update.charged \in Nat
  BY DEF State
<1>7. update.charged + charged + tokens = update.charged + (charged + tokens)
  BY <1>3, <1>6 DEF TypeOK
<1>8. st' = [update EXCEPT !.tokens = @ + usage'[role],
                           !.charged = @ + (charged + tokens)]
  BY <1>2, <1>7 DEF Commit
<1>9. st' \in State
  <2>1. st' = [update EXCEPT !.tokens = update.tokens + usage'[role],
                             !.charged = update.charged + (charged + tokens)]
    BY <1>8
  <2>2. /\ update.tokens + usage'[role] \in Nat
        /\ update.charged + (charged + tokens) \in Nat
    BY <1>5, <1>6
  <2>3. QED
    BY <2>1, <2>2, TokensType
<1>10. /\ attempt' = 0 /\ charged' = 0
       /\ calls' \in Nat /\ calls' <= calls + 1
  BY <1>2 DEF ValidAnswer, Request, TypeOK
<1>11. checkpoint' = IF Checkpointer = "none" THEN None ELSE st'
  BY <1>2 DEF Commit
<1>12. Untouched(st', update)
  BY <1>8 DEF State, Untouched
<1>13. /\ st'.tokens = update.tokens + usage'[role]
       /\ st'.charged = update.charged + (charged + tokens)
  BY <1>8 DEF State
<1>14. QED
  BY <1>4, <1>5, <1>9, <1>10, <1>11, <1>12, <1>13

\* What a call changes besides the state of the graph.
CallStep ==
    /\ checkpoint' = IF Checkpointer = "none" THEN None ELSE st'
    /\ attempt' = 0 /\ charged' = 0
    /\ usage' \in [Roles -> Nat]
    /\ calls' \in Nat /\ calls' <= calls + 1

\* What a node adds to the token fields is at most what it was charged.
TokenStep ==
    \E t, c \in Nat :
        /\ st'.tokens = st.tokens + t
        /\ st'.charged = st.charged + c
        /\ UsageReported => t <= c

\* The sections and notes of a new draft.
WritesDraft(draft) ==
    /\ \A s \in Range(st'.sections) : s.draft = draft
    /\ st'.notes = draft

\* Effect of the strategy node.
LEMMA StrategyEffect ==
    ASSUME TypeOK, BuildStrategy
    PROVE  /\ st' \in State /\ CallStep /\ TokenStep
           /\ Untouched(st', [st EXCEPT !.next = "write"])
<1> DEFINE update == [st EXCEPT !.next = "write"]
<1>1. update \in State /\ update.tokens = st.tokens /\ update.charged = st.charged
  BY DEF TypeOK, State, Nodes
<1>2. Answered(update) /\ st.next \in LLMNodes
  BY DEF BuildStrategy, At, LLMNodes
<1> HIDE DEF update
<1>3. QED
  BY <1>1, <1>2, AnsweredEffect DEF CallStep, TokenStep, update

\* Effect of the writing node.
LEMMA WriteEffect ==
    ASSUME TypeOK, WriteSections
    PROVE  /\ st' \in State /\ CallStep /\ TokenStep
           /\ WritesDraft(Draft(st))
           /\ Untouched(st', [st EXCEPT !.next = "review",
                                        !.sections = st'.sections,
                                        !.notes = st'.notes])
<1>1. PICK orders \in Orderings :
         Answered([NewDraft(st, orders) EXCEPT !.next = "review"])
  BY DEF WriteSections
<1> DEFINE update == [NewDraft(st, orders) EXCEPT !.next = "review"]
           text == Written(orders, Draft(st), "writer")
<1>2. /\ st \in State /\ Draft(st) \in Nat
      /\ text \in Seq(Section) /\ \A s \in Range(text) : s.draft = Draft(st)
  BY DraftType, WrittenFacts DEF TypeOK
<1> HIDE DEF text
<1>3. update = [st EXCEPT !.sections = text, !.notes = Draft(st), !.next = "review"]
  BY <1>2 DEF NewDraft, text
<1>4. /\ update \in State /\ update.tokens = st.tokens
      /\ update.charged = st.charged
      /\ update.sections = text /\ update.notes = Draft(st)
  BY <1>2, <1>3 DEF State, Nodes
<1>5. Answered(update) /\ st.next \in LLMNodes
  BY <1>1 DEF WriteSections, At, LLMNodes
<1> HIDE DEF update
<1>6. /\ Untouched(st', update) /\ st' \in State /\ CallStep /\ TokenStep
  BY <1>4, <1>5, AnsweredEffect DEF CallStep, TokenStep
<1>7. WritesDraft(Draft(st))
  BY <1>2, <1>4, <1>6 DEF WritesDraft, Untouched
<1>8. Untouched(st', [st EXCEPT !.next = "review", !.sections = st'.sections,
                                !.notes = st'.notes])
  BY <1>2, <1>3, <1>6 DEF Untouched, State
<1>9. QED
  BY <1>6, <1>7, <1>8

\* Effect of the review node: its revisions are of the draft it reviewed.
LEMMA ReviewEffect ==
    ASSUME TypeOK, ReviewFlow
    PROVE  /\ st' \in State /\ CallStep /\ TokenStep
           /\ \A s \in Range(st'.revised) : s.draft = Draft(st)
           /\ st'.next = PrimaryRoute(st'.approved)
           /\ Untouched(st', [st EXCEPT !.next = st'.next,
                                        !.approved = st'.approved,
                                        !.instructed = st'.instructed,
                                        !.revised = st'.revised])
<1>1. PICK approved \in BOOLEAN, instructed \in BOOLEAN, orders \in Orderings :
         Answered([st EXCEPT !.approved = approved,
                             !.instructed = instructed,
                             !.revised = Written(orders, Draft(st), "reviewer"),
                             !.next = PrimaryRoute(approved)])
  BY DEF ReviewFlow
<1> DEFINE text == Written(orders, Draft(st), "reviewer")
           update == [st EXCEPT !.approved = approved,
                                !.instructed = instructed,
                                !.revised = text,
                                !.next = PrimaryRoute(approved)]
<1>2. /\ st \in State /\ Draft(st) \in Nat
      /\ text \in Seq(Section) /\ \A s \in Range(text) : s.draft = Draft(st)
  BY DraftType, WrittenFacts DEF TypeOK
<1>3. PrimaryRoute(approved) \in Nodes
  BY DEF PrimaryRoute, Nodes
<1>4. Answered(update) /\ st.next \in LLMNodes
  BY <1>1 DEF ReviewFlow, At, LLMNodes
<1> HIDE DEF text
<1>5. /\ update \in State /\ update.tokens = st.tokens
      /\ update.charged = st.charged
      /\ update.revised = text /\ update.approved = approved
      /\ update.next = PrimaryRoute(approved)
  BY <1>2, <1>3 DEF State
<1>6. \A new : Untouched(new, update) =>
               Untouched(new, [st EXCEPT !.next = new.next,
                                         !.approved = new.approved,
                                         !.instructed = new.instructed,
                                         !.revised = new.revised])
  BY <1>2 DEF Untouched, State
<1> HIDE DEF update
<1>7. /\ Untouched(st', update) /\ st' \in State /\ CallStep /\ TokenStep
  BY <1>4, <1>5, AnsweredEffect DEF CallStep, TokenStep
<1>8. QED
  BY <1>2, <1>5, <1>6, <1>7 DEF Untouched

\* Effect of the section-correction node.
LEMMA CorrectSectionEffect ==
    ASSUME TypeOK, CorrectSection
    PROVE  /\ st' \in State /\ CallStep /\ TokenStep
           /\ WritesDraft(Draft(st) + 1)
           /\ Untouched(st', [st EXCEPT !.next = "review",
                                        !.section_retries = st.section_retries + 1,
                                        !.sections = st'.sections,
                                        !.revised = <<>>,
                                        !.notes = st'.notes])
<1> DEFINE corrected == [st EXCEPT !.section_retries = @ + 1]
<1>1. PICK orders \in Orderings :
         Answered([NewDraft(corrected, orders) EXCEPT
                       !.revised = <<>>, !.next = "review"])
  BY DEF CorrectSection
<1> DEFINE text == Written(orders, Draft(st) + 1, "writer")
           update == [st EXCEPT !.section_retries = st.section_retries + 1,
                                !.sections = text, !.notes = Draft(st) + 1,
                                !.revised = <<>>, !.next = "review"]
<1>2. /\ st \in State /\ Draft(st) + 1 \in Nat
      /\ Draft(corrected) = Draft(st) + 1
  <2>1. st \in State /\ Draft(st) \in Nat
    BY DraftType DEF TypeOK
  <2>2. st.section_retries \in Nat /\ st.script_retries \in Nat
    BY <2>1 DEF State
  <2>3. /\ corrected.section_retries = st.section_retries + 1
        /\ corrected.script_retries = st.script_retries
    BY <2>1 DEF State
  <2> HIDE DEF corrected
  <2>4. Draft(corrected) = Draft(st) + 1
    BY <2>2, <2>3 DEF Draft
  <2>5. QED
    BY <2>1, <2>4
<1>3. /\ text \in Seq(Section) /\ \A s \in Range(text) : s.draft = Draft(st) + 1
  BY <1>2, WrittenFacts
<1>4. [NewDraft(corrected, orders) EXCEPT !.revised = <<>>, !.next = "review"]
        = update
  BY <1>2 DEF NewDraft, State
<1>5. Answered(update) /\ st.next \in LLMNodes
  BY <1>1, <1>4 DEF CorrectSection, At, LLMNodes
<1> HIDE DEF text
<1>6. <<>> \in Seq(Section)
  OBVIOUS
<1>7. /\ update \in State /\ update.tokens = st.tokens
      /\ update.charged = st.charged
      /\ update.sections = text /\ update.notes = Draft(st) + 1
  <2>1. st.section_retries + 1 \in Nat
    BY <1>2 DEF State
  <2>2. update \in State
    BY <1>2, <1>3, <2>1, <1>6 DEF State, Nodes
  <2>3. QED
    BY <1>2, <2>2 DEF State
<1>8. \A new : Untouched(new, update) =>
               Untouched(new, [st EXCEPT !.next = "review",
                                         !.section_retries = st.section_retries + 1,
                                         !.sections = new.sections,
                                         !.revised = <<>>,
                                         !.notes = new.notes])
  BY <1>2 DEF Untouched, State
<1> HIDE DEF update
<1>9. /\ Untouched(st', update) /\ st' \in State /\ CallStep /\ TokenStep
  BY <1>5, <1>7, AnsweredEffect DEF CallStep, TokenStep
<1>10. QED
  BY <1>3, <1>7, <1>8, <1>9 DEF Untouched, WritesDraft

\* Effect of the validation node.
LEMMA ValidateEffect ==
    ASSUME TypeOK, Validate
    PROVE  /\ st' \in State /\ CallStep /\ TokenStep
           /\ st'.next = SecondaryRoute(st'.passed)
           /\ Untouched(st', [st EXCEPT !.next = st'.next,
                                        !.passed = st'.passed,
                                        !.errors = st'.errors])
<1>1. PICK passed \in BOOLEAN, errors \in BOOLEAN :
         Answered([st EXCEPT !.passed = passed, !.errors = errors,
                             !.next = SecondaryRoute(passed)])
  BY DEF Validate
<1> DEFINE update == [st EXCEPT !.passed = passed, !.errors = errors,
                                !.next = SecondaryRoute(passed)]
<1>2. SecondaryRoute(passed) \in Nodes
  BY DEF SecondaryRoute, Nodes
<1>3. /\ update \in State /\ update.tokens = st.tokens
      /\ update.charged = st.charged /\ update.passed = passed
      /\ update.next = SecondaryRoute(passed)
  BY <1>2 DEF TypeOK, State
<1>4. Answered(update) /\ st.next \in LLMNodes
  BY <1>1 DEF Validate, At, LLMNodes
<1>5. \A new : Untouched(new, update) =>
               Untouched(new, [st EXCEPT !.next = new.next,
                                         !.passed = new.passed,
                                         !.errors = new.errors])
  BY DEF Untouched, TypeOK, State
<1> HIDE DEF update
<1>6. /\ Untouched(st', update) /\ st' \in State /\ CallStep /\ TokenStep
  BY <1>3, <1>4, AnsweredEffect DEF CallStep, TokenStep
<1>7. QED
  BY <1>3, <1>5, <1>6 DEF Untouched

\* Effect of the script-correction node.
LEMMA CorrectScriptEffect ==
    ASSUME TypeOK, CorrectScript
    PROVE  /\ st' \in State /\ CallStep /\ TokenStep
           /\ WritesDraft(Draft(st) + 1)
           /\ Untouched(st', [st EXCEPT !.next = "validate",
                                        !.script_retries = st.script_retries + 1,
                                        !.sections = st'.sections,
                                        !.revised = <<>>,
                                        !.notes = st'.notes])
<1> DEFINE corrected == [st EXCEPT !.script_retries = @ + 1]
<1>1. PICK orders \in Orderings :
         Answered([NewDraft(corrected, orders) EXCEPT
                       !.revised = <<>>, !.next = "validate"])
  BY DEF CorrectScript
<1> DEFINE text == Written(orders, Draft(st) + 1, "writer")
           update == [st EXCEPT !.script_retries = st.script_retries + 1,
                                !.sections = text, !.notes = Draft(st) + 1,
                                !.revised = <<>>, !.next = "validate"]
<1>2. /\ st \in State /\ Draft(st) + 1 \in Nat
      /\ Draft(corrected) = Draft(st) + 1
  <2>1. st \in State /\ Draft(st) \in Nat
    BY DraftType DEF TypeOK
  <2>2. st.section_retries \in Nat /\ st.script_retries \in Nat
    BY <2>1 DEF State
  <2>3. /\ corrected.script_retries = st.script_retries + 1
        /\ corrected.section_retries = st.section_retries
    BY <2>1 DEF State
  <2> HIDE DEF corrected
  <2>4. Draft(corrected) = Draft(st) + 1
    BY <2>2, <2>3 DEF Draft
  <2>5. QED
    BY <2>1, <2>4
<1>3. /\ text \in Seq(Section) /\ \A s \in Range(text) : s.draft = Draft(st) + 1
  BY <1>2, WrittenFacts
<1>4. [NewDraft(corrected, orders) EXCEPT !.revised = <<>>, !.next = "validate"]
        = update
  BY <1>2 DEF NewDraft, State
<1>5. Answered(update) /\ st.next \in LLMNodes
  BY <1>1, <1>4 DEF CorrectScript, At, LLMNodes
<1> HIDE DEF text
<1>6. <<>> \in Seq(Section)
  OBVIOUS
<1>7. /\ update \in State /\ update.tokens = st.tokens
      /\ update.charged = st.charged
      /\ update.sections = text /\ update.notes = Draft(st) + 1
  <2>1. st.script_retries + 1 \in Nat
    BY <1>2 DEF State
  <2>2. update \in State
    BY <1>2, <1>3, <2>1, <1>6 DEF State, Nodes
  <2>3. QED
    BY <1>2, <2>2 DEF State
<1>8. \A new : Untouched(new, update) =>
               Untouched(new, [st EXCEPT !.next = "validate",
                                         !.script_retries = st.script_retries + 1,
                                         !.sections = new.sections,
                                         !.revised = <<>>,
                                         !.notes = new.notes])
  BY <1>2 DEF Untouched, State
<1> HIDE DEF update
<1>9. /\ Untouched(st', update) /\ st' \in State /\ CallStep /\ TokenStep
  BY <1>5, <1>7, AnsweredEffect DEF CallStep, TokenStep
<1>10. QED
  BY <1>3, <1>7, <1>8, <1>9 DEF Untouched, WritesDraft

-----------------------------------------------------------------------------
\* The thread: what a start finds saved, and what a script means for the run.
ThreadInv ==
    /\ checkpoint = None \/ checkpoint = st
    /\ Checkpointer = "durable" /\ phase # "new" => checkpoint = st
    /\ phase = "new" => /\ starts = 0 /\ calls = 0
                        /\ Accepted(st) = 0 /\ checkpoint = None
    /\ phase # "new" => starts >= 1
    /\ starts <= MaxStarts
    /\ script # None => phase = "done"
    /\ attempt # 0 => phase = "running" /\ st.next \in LLMNodes /\ InputsPresent

\* The graph: which counters and verdicts a node can stand before.
GraphInv ==
    /\ st.section_retries <= MaxRetry
    /\ st.script_retries <= MaxRetry
    /\ st.next \in {"prepare", "strategy", "write"} =>
           st.sections = <<>> /\ st.revised = <<>> /\ st.section_retries = 0
    /\ st.next \in {"prepare", "strategy", "write", "review", "correct_section"} =>
           st.script_retries = 0
    /\ st.next = "correct_section" => st.section_retries < MaxRetry
    /\ st.next = "correct_script" => st.script_retries < MaxRetry
    /\ st.next \in {"validate", "correct_script", "build", "end"} /\ ~st.approved =>
           st.section_retries = MaxRetry
    /\ st.next \in {"build", "end"} /\ ~st.passed => st.script_retries = MaxRetry

\* The verdict that stands when the script is put together.
JudgedInv ==
    /\ st.next \in {"build", "end"} => judged = FinalSections
    /\ script # None => /\ st.next = "end"
                        /\ script.sections = judged
                        /\ script.passed = st.passed

\* Requests sent so far: those of the accepted answers and of the failed
\* starts, and the attempts of the call in progress.
CallsInv ==
    Checkpointer = "durable" \/ MaxStarts = 1 =>
        /\ phase = "running" =>
               calls <= MaxAttempts * (Accepted(st) + starts - 1) + attempt
        /\ phase # "running" => calls <= MaxAttempts * (Accepted(st) + starts)

\* A start goes on from the checkpoint or from the initial state.
LEMMA StartEffect ==
    ASSUME TypeOK, ThreadInv, Start
    PROVE  /\ st' \in State
           /\ checkpoint' \in {None, st'}
           /\ Checkpointer = "durable" => checkpoint' = st'
           /\ \/ st' = st /\ judged' = judged /\ Checkpointer = "durable"
                         /\ phase # "new"
              \/ st' = InitialState(st.language) /\ (Checkpointer = "durable" => phase = "new")
           /\ usage' \in [Roles -> Nat]
<1>1. st \in State /\ st.language \in BOOLEAN
  BY DEF TypeOK, State
<1>2. usage' \in [Roles -> Nat]
  BY DEF TypeOK, Start, TakeAdapters
<1>3. CASE Saved # None
  <2>1. Checkpointer = "durable" /\ checkpoint = st /\ st' = checkpoint
        /\ checkpoint' = checkpoint /\ judged' = judged
    BY <1>3 DEF Start, Saved, ThreadInv
  <2>2. phase # "new"
    BY <1>3, <2>1 DEF Saved, ThreadInv
  <2>3. QED
    BY <1>1, <1>2, <2>1, <2>2
<1>4. CASE Saved = None
  <2>1. st' = InitialState(st.language)
        /\ checkpoint' = IF Checkpointer = "none" THEN None ELSE st'
    BY <1>4 DEF Start, Commit
  <2>2. st' \in State
    BY <1>1, <2>1, InitialStateType
  <2>3. Checkpointer = "durable" => phase = "new"
    BY <1>1, <1>4, NoneAssumption DEF Saved, ThreadInv
  <2>4. QED
    BY <1>2, <2>1, <2>2, <2>3
<1>5. QED
  BY <1>3, <1>4

-----------------------------------------------------------------------------
\* What a failed or repeated call leaves alone.
LEMMA CallFailsEffect ==
    ASSUME TypeOK, CallFails
    PROVE  /\ UNCHANGED <<st, checkpoint, starts, judged, script>>
           /\ phase' = "failed" /\ phase = "running"
           /\ attempt' = 0 /\ charged' = 0
           /\ usage' \in [Roles -> Nat]
           /\ calls' \in Nat /\ calls' <= calls + 1
<1>1. RoleOf(st.next) \in Roles
  BY RolesAssumption DEF RoleOf
<1>2. usage' \in [Roles -> Nat]
  BY <1>1, ChargesAssumption, InvalidMayBeNoted
     DEF CallFails, GiveUp, AddToken, ProviderError, TypeOK
<1>3. /\ attempt' = 0 /\ charged' = 0
      /\ calls' \in Nat /\ calls' <= calls + 1
  BY CallAssumption DEF CallFails, GiveUp, InvalidAnswer, ProviderError, Request, TypeOK
<1>4. QED
  BY <1>2, <1>3 DEF CallFails, Raise

\* What another attempt of the same call leaves alone.
LEMMA CallRepeatsEffect ==
    ASSUME TypeOK, CallRepeats
    PROVE  /\ UNCHANGED <<phase, st, checkpoint, starts, judged, script>>
           /\ phase = "running" /\ st.next \in LLMNodes /\ InputsPresent
           /\ attempt' = attempt + 1 /\ attempt' \in 0..(MaxAttempts - 1)
           /\ charged' \in Nat
           /\ usage' \in [Roles -> Nat]
           /\ calls' \in Nat /\ calls' <= calls + 1
<1>1. RoleOf(st.next) \in Roles
  BY RolesAssumption DEF RoleOf
<1>2. PICK tokens \in Charges :
         InvalidAnswer(RoleOf(st.next), tokens) /\ charged' = charged + tokens
  BY DEF CallRepeats, AskAgain
<1>3. tokens \in Nat
  BY ChargesAssumption
<1>4. usage' \in [Roles -> Nat] /\ charged' \in Nat
  BY <1>1, <1>2, <1>3, InvalidMayBeNoted DEF AddToken, TypeOK
<1>5. calls' \in Nat /\ calls' <= calls + 1
  BY <1>2, CallAssumption DEF InvalidAnswer, Request, TypeOK
<1>6. attempt' = attempt + 1 /\ attempt' \in 0..(MaxAttempts - 1)
  BY AttemptsAssumption DEF CallRepeats, AskAgain, TypeOK
<1>7. QED
  BY <1>4, <1>5, <1>6 DEF CallRepeats

\* Effect of the two nodes that call no model.
LEMMA PrepareEffect ==
    ASSUME TypeOK, Prepare
    PROVE  /\ st' \in State /\ st' = [st EXCEPT !.next = "strategy"]
           /\ checkpoint' = IF Checkpointer = "none" THEN None ELSE st'
BY DEF Prepare, Commit, TypeOK, State, Nodes

\* Effect of the node that assembles the script.
LEMMA BuildEffect ==
    ASSUME TypeOK, BuildOutput
    PROVE  /\ st' \in State /\ st' = [st EXCEPT !.next = "end"]
           /\ checkpoint' = IF Checkpointer = "none" THEN None ELSE st'
BY DEF BuildOutput, Commit, TypeOK, State, Nodes

\* The nodes that call a model and whose call succeeds.
Answers == \/ BuildStrategy \/ WriteSections \/ ReviewFlow
           \/ CorrectSection \/ Validate \/ CorrectScript

\* What those nodes have in common.
LEMMA AnswersEffect ==
    ASSUME TypeOK, Answers
    PROVE  /\ st' \in State /\ CallStep /\ TokenStep
           /\ phase = "running" /\ UNCHANGED <<phase, starts, script>>
<1>1. st' \in State /\ CallStep /\ TokenStep
  BY StrategyEffect, WriteEffect, ReviewEffect, CorrectSectionEffect,
     ValidateEffect, CorrectScriptEffect DEF Answers
<1>2. phase = "running" /\ UNCHANGED <<phase, starts, script>>
  BY DEF Answers, BuildStrategy, WriteSections, ReviewFlow, CorrectSection,
         Validate, CorrectScript, Continues, At
<1>3. QED
  BY <1>1, <1>2

\* A stuttering step changes no invariant.
LEMMA Unchanged ==
    ASSUME UNCHANGED vars
    PROVE  /\ TypeOK => TypeOK'
           /\ ThreadInv => ThreadInv'
           /\ GraphInv => GraphInv'
           /\ JudgedInv => JudgedInv'
           /\ OneDraft => OneDraft'
           /\ TokensNotInflated => TokensNotInflated'
           /\ CallsInv => CallsInv'
<1>1. UNCHANGED <<phase, st, checkpoint, starts, judged, script, attempt, usage,
                  charged, calls>>
  BY DEF vars, callVars
<1>2. QED
  BY <1>1 DEF TypeOK, ThreadInv, GraphInv, JudgedInv, OneDraft, TokensNotInflated,
              CallsInv, Accepted, InputsPresent, FinalSections, Resolve, Draft

-----------------------------------------------------------------------------
\* The type invariant and the thread invariant are kept together: a start
\* takes its state from the checkpoint.
LEMMA TypeStep ==
    ASSUME TypeOK, ThreadInv, Next
    PROVE  TypeOK'
<1>1. CASE Start
  <2>1. st' \in State /\ checkpoint' \in State \cup {None}
        /\ usage' \in [Roles -> Nat]
    BY <1>1, StartEffect
  <2>2. QED
    BY <1>1, <2>1 DEF Start, TypeOK
<1>2. CASE Answers
  BY <1>2, AnswersEffect, AttemptsAssumption DEF TypeOK, CallStep
<1>3. CASE Prepare
  BY <1>3, PrepareEffect DEF Prepare, Continues, TypeOK, callVars
<1>4. CASE BuildOutput
  BY <1>4, BuildEffect DEF BuildOutput, TypeOK, callVars
<1>5. CASE CallRepeats
  BY <1>5, CallRepeatsEffect DEF TypeOK
<1>6. CASE CallFails
  BY <1>6, CallFailsEffect, AttemptsAssumption DEF TypeOK
<1>7. CASE MissingInput
  BY <1>7 DEF MissingInput, Raise, TypeOK, callVars
<1>8. QED
  BY <1>1, <1>2, <1>3, <1>4, <1>5, <1>6, <1>7 DEF Next, Work, Answers

\* With a durable saver the thread's state is its checkpoint's.
LEMMA ThreadStep ==
    ASSUME TypeOK, ThreadInv, Next
    PROVE  ThreadInv'
<1>1. CASE Start
  <2>1. /\ checkpoint' \in {None, st'}
        /\ Checkpointer = "durable" => checkpoint' = st'
    BY <1>1, StartEffect
  <2>2. /\ phase' = "running" /\ phase \in {"new", "failed"}
        /\ starts' = starts + 1 /\ starts < MaxStarts
        /\ UNCHANGED <<attempt, calls, script>>
    BY <1>1 DEF Start
  <2>3. attempt' = 0
    BY <2>2 DEF ThreadInv
  <2>4. QED
    BY <2>1, <2>2, <2>3, RetryAssumption DEF ThreadInv, TypeOK
<1>2. CASE Answers
  BY <1>2, AnswersEffect DEF ThreadInv, CallStep
<1>3. CASE Prepare
  <2>1. attempt = 0
    BY <1>3 DEF Prepare, At, ThreadInv, LLMNodes
  <2>2. QED
    BY <1>3, <2>1, PrepareEffect DEF Prepare, At, Continues, ThreadInv, callVars
<1>4. CASE BuildOutput
  <2>1. attempt = 0
    BY <1>4 DEF BuildOutput, At, ThreadInv, LLMNodes
  <2>2. QED
    BY <1>4, <2>1, BuildEffect DEF BuildOutput, At, ThreadInv, callVars
<1>5. CASE CallRepeats
  BY <1>5, CallRepeatsEffect DEF ThreadInv, InputsPresent
<1>6. CASE CallFails
  BY <1>6, CallFailsEffect DEF ThreadInv
<1>7. CASE MissingInput
  BY <1>7 DEF MissingInput, Raise, ThreadInv, callVars
<1>8. QED
  BY <1>1, <1>2, <1>3, <1>4, <1>5, <1>6, <1>7 DEF Next, Work, Answers

\* A counter grows only after a route that found it below the budget, and a
\* route that goes on found its verdict positive or the budget spent.
LEMMA GraphStep ==
    ASSUME TypeOK, ThreadInv, GraphInv, Next
    PROVE  GraphInv'
<1> USE RetryAssumption
<1>1. CASE Start
  <2>1. CASE st' = st
    BY <2>1 DEF GraphInv
  <2>2. CASE st' = InitialState(st.language)
    BY <2>2 DEF GraphInv, InitialState
  <2>3. QED
    BY <1>1, <2>1, <2>2, StartEffect
<1>2. CASE BuildStrategy
  BY <1>2, StrategyEffect DEF BuildStrategy, At, GraphInv, Untouched, TypeOK, State
<1>3. CASE WriteSections
  BY <1>3, WriteEffect DEF WriteSections, At, GraphInv, Untouched, TypeOK, State
<1>4. CASE ReviewFlow
  <2>1. /\ st'.section_retries = st.section_retries
        /\ st'.script_retries = st.script_retries /\ st'.passed = st.passed
        /\ st'.next = PrimaryRoute(st'.approved)
        /\ st'.approved \in BOOLEAN
    BY <1>4, ReviewEffect DEF Untouched, TypeOK, State
  <2>2. st.next = "review"
    BY <1>4 DEF ReviewFlow, At
  <2>3. QED
    BY <2>1, <2>2 DEF GraphInv, PrimaryRoute, TypeOK, State
<1>5. CASE CorrectSection
  <2>1. /\ st'.section_retries = st.section_retries + 1
        /\ st'.script_retries = st.script_retries
        /\ st'.next = "review"
    BY <1>5, CorrectSectionEffect DEF Untouched, TypeOK, State
  <2>2. st.next = "correct_section"
    BY <1>5 DEF CorrectSection, At
  <2>3. QED
    BY <2>1, <2>2 DEF GraphInv, TypeOK, State
<1>6. CASE Validate
  <2>1. /\ st'.section_retries = st.section_retries
        /\ st'.script_retries = st.script_retries
        /\ st'.approved = st.approved
        /\ st'.next = SecondaryRoute(st'.passed)
        /\ st'.passed \in BOOLEAN
    BY <1>6, ValidateEffect DEF Untouched, TypeOK, State
  <2>2. st.next = "validate"
    BY <1>6 DEF Validate, At
  <2>3. QED
    BY <2>1, <2>2 DEF GraphInv, SecondaryRoute, TypeOK, State
<1>7. CASE CorrectScript
  <2>1. /\ st'.section_retries = st.section_retries
        /\ st'.script_retries = st.script_retries + 1
        /\ st'.approved = st.approved
        /\ st'.next = "validate"
    BY <1>7, CorrectScriptEffect DEF Untouched, TypeOK, State
  <2>2. st.next = "correct_script"
    BY <1>7 DEF CorrectScript, At
  <2>3. QED
    BY <2>1, <2>2 DEF GraphInv, TypeOK, State
<1>8. CASE Prepare
  BY <1>8, PrepareEffect DEF Prepare, At, GraphInv, TypeOK, State
<1>9. CASE BuildOutput
  BY <1>9, BuildEffect DEF BuildOutput, At, GraphInv, TypeOK, State
<1>10. CASE CallRepeats \/ CallFails \/ MissingInput
  <2>1. st' = st
    BY <1>10, CallRepeatsEffect, CallFailsEffect DEF MissingInput, Raise
  <2>2. QED
    BY <2>1 DEF GraphInv
<1>11. QED
  BY <1>1, <1>2, <1>3, <1>4, <1>5, <1>6, <1>7, <1>8, <1>9, <1>10 DEF Next, Work

\* Every correction clears the revisions of the draft it replaces.
LEMMA DraftStep ==
    ASSUME TypeOK, ThreadInv, GraphInv, OneDraft, Next
    PROVE  OneDraft'
<1> DEFINE Texts == Range(st.sections) \cup Range(st.revised)
<1>1. Range(<<>>) = {}
  BY DEF Range
<1>2. CASE Start
  <2>1. CASE st' = st
    BY <2>1 DEF OneDraft, Draft
  <2>2. CASE st' = InitialState(st.language)
    BY <1>1, <2>2 DEF OneDraft, Draft, InitialState
  <2>3. QED
    BY <1>2, <2>1, <2>2, StartEffect
<1>3. CASE BuildStrategy \/ Prepare \/ BuildOutput \/ Validate
  <2>1. /\ st'.sections = st.sections /\ st'.revised = st.revised
        /\ st'.notes = st.notes
        /\ st'.section_retries = st.section_retries
        /\ st'.script_retries = st.script_retries
    BY <1>3, StrategyEffect, PrepareEffect, BuildEffect, ValidateEffect
       DEF Untouched, TypeOK, State
  <2>2. QED
    BY <2>1 DEF OneDraft, Draft
<1>4. CASE WriteSections
  <2>1. /\ st'.revised = st.revised /\ WritesDraft(Draft(st))
        /\ st'.section_retries = st.section_retries
        /\ st'.script_retries = st.script_retries
    BY <1>4, WriteEffect DEF Untouched, TypeOK, State
  <2>2. st.revised = <<>>
    BY <1>4 DEF WriteSections, At, GraphInv
  <2>3. QED
    BY <1>1, <2>1, <2>2 DEF OneDraft, Draft, WritesDraft
<1>5. CASE ReviewFlow
  <2>1. /\ st'.sections = st.sections /\ st'.notes = st.notes
        /\ st'.section_retries = st.section_retries
        /\ st'.script_retries = st.script_retries
        /\ \A s \in Range(st'.revised) : s.draft = Draft(st)
    BY <1>5, ReviewEffect DEF Untouched, TypeOK, State
  <2>2. QED
    BY <2>1 DEF OneDraft, Draft
<1>6. CASE CorrectSection \/ CorrectScript
  <2>1. st'.revised = <<>> /\ WritesDraft(Draft(st) + 1)
    BY <1>6, CorrectSectionEffect, CorrectScriptEffect DEF Untouched, TypeOK, State
  <2>2. st.section_retries \in Nat /\ st.script_retries \in Nat
    BY DEF TypeOK, State
  <2>3. \/ /\ st'.section_retries = st.section_retries + 1
           /\ st'.script_retries = st.script_retries
        \/ /\ st'.section_retries = st.section_retries
           /\ st'.script_retries = st.script_retries + 1
    BY <1>6, CorrectSectionEffect, CorrectScriptEffect DEF Untouched, TypeOK, State
  <2>4. Draft(st') = Draft(st) + 1
    BY <2>2, <2>3 DEF Draft
  <2>5. QED
    BY <1>1, <2>1, <2>4 DEF OneDraft, WritesDraft
<1>7. CASE CallRepeats \/ CallFails \/ MissingInput
  <2>1. st' = st
    BY <1>7, CallRepeatsEffect, CallFailsEffect DEF MissingInput, Raise
  <2>2. QED
    BY <2>1 DEF OneDraft, Draft
<1>8. QED
  BY <1>2, <1>3, <1>4, <1>5, <1>6, <1>7 DEF Next, Work

\* The script is built where the validator's sections still stand.
LEMMA JudgedStep ==
    ASSUME TypeOK, ThreadInv, GraphInv, JudgedInv, Next
    PROVE  JudgedInv'
<1>1. CASE Start
  <2>1. script' = script /\ script = None
    BY <1>1 DEF Start, ThreadInv
  <2>2. CASE st' = st /\ judged' = judged
    BY <2>1, <2>2 DEF JudgedInv, FinalSections, Resolve
  <2>3. CASE st' = InitialState(st.language)
    BY <2>1, <2>3 DEF JudgedInv, InitialState
  <2>4. QED
    BY <1>1, <2>2, <2>3, StartEffect
<1>2. CASE Answers
  <2>1. script' = script /\ script = None
    BY <1>2, AnswersEffect DEF ThreadInv
  <2>2. CASE Validate
    <3>1. st'.sections = st.sections /\ st'.revised = st.revised
      BY <2>2, ValidateEffect DEF Untouched, TypeOK, State
    <3>2. judged' = FinalSections
      BY <2>2 DEF Validate
    <3>3. QED
      BY <2>1, <3>1, <3>2 DEF JudgedInv, FinalSections
  <2>3. CASE BuildStrategy \/ WriteSections \/ ReviewFlow \/ CorrectSection
               \/ CorrectScript
    <3>1. st'.next \notin {"build", "end"}
      BY <2>3, StrategyEffect, WriteEffect, ReviewEffect, CorrectSectionEffect,
         CorrectScriptEffect DEF Untouched, TypeOK, State, PrimaryRoute
    <3>2. QED
      BY <2>1, <3>1 DEF JudgedInv
  <2>4. QED
    BY <1>2, <2>2, <2>3 DEF Answers
<1>3. CASE Prepare
  <2>1. script' = script /\ script = None /\ st'.next = "strategy"
    BY <1>3, PrepareEffect DEF Prepare, At, Continues, ThreadInv, TypeOK, State
  <2>2. QED
    BY <2>1 DEF JudgedInv
<1>4. CASE BuildOutput
  <2>1. /\ st'.next = "end" /\ st'.passed = st.passed
        /\ st'.sections = st.sections /\ st'.revised = st.revised
    BY <1>4, BuildEffect DEF TypeOK, State
  <2>2. judged' = judged /\ judged = FinalSections
    BY <1>4 DEF BuildOutput, At, JudgedInv
  <2>3. script'.sections = FinalSections /\ script'.passed = st.passed
    BY <1>4 DEF BuildOutput
  <2>4. QED
    BY <2>1, <2>2, <2>3 DEF JudgedInv, FinalSections
<1>5. CASE CallRepeats \/ CallFails \/ MissingInput
  <2>1. UNCHANGED <<st, judged, script>>
    BY <1>5, CallRepeatsEffect, CallFailsEffect DEF MissingInput, Raise
  <2>2. QED
    BY <2>1 DEF JudgedInv, FinalSections, Resolve
<1>6. QED
  BY <1>1, <1>2, <1>3, <1>4, <1>5 DEF Next, Work, Answers

\* Tokens are added in the step that accepts the answer they were charged for.
LEMMA TokensStep ==
    ASSUME TypeOK, ThreadInv, TokensNotInflated, Next
    PROVE  TokensNotInflated'
<1>1. st.tokens \in Nat /\ st.charged \in Nat
  BY DEF TypeOK, State
<1>2. CASE Start
  BY <1>2, StartEffect DEF TokensNotInflated, InitialState
<1>3. CASE Answers
  BY <1>1, <1>3, AnswersEffect DEF TokenStep, TokensNotInflated
<1>4. CASE Prepare \/ BuildOutput
  <2>1. st'.tokens = st.tokens /\ st'.charged = st.charged
    BY <1>4, PrepareEffect, BuildEffect DEF TypeOK, State
  <2>2. QED
    BY <2>1 DEF TokensNotInflated
<1>5. CASE CallRepeats \/ CallFails \/ MissingInput
  <2>1. st' = st
    BY <1>5, CallRepeatsEffect, CallFailsEffect DEF MissingInput, Raise
  <2>2. QED
    BY <2>1 DEF TokensNotInflated
<1>6. QED
  BY <1>2, <1>3, <1>4, <1>5 DEF Next, Work, Answers

-----------------------------------------------------------------------------
\* The number of accepted answers is a natural number.
LEMMA AcceptedType ==
    ASSUME TypeOK
    PROVE  Accepted(st) \in Nat
<1>1. st.section_retries \in Nat /\ st.script_retries \in Nat
  BY DEF TypeOK, State
<1>2. 2 * (st.section_retries + st.script_retries) \in Nat
  BY <1>1
<1>3. QED
  BY <1>2 DEF Accepted

\* Each accepted answer moves the graph one answer further.
LEMMA AcceptedStep ==
    ASSUME TypeOK, GraphInv, Answers
    PROVE  Accepted(st') = Accepted(st) + 1
<1>1. st.section_retries \in Nat /\ st.script_retries \in Nat
  BY DEF TypeOK, State
<1>2. CASE BuildStrategy
  <2>1. st.next = "strategy"
    BY <1>2 DEF BuildStrategy, At
  <2>2. st'.next = "write"
    BY <1>2, StrategyEffect DEF Untouched, TypeOK, State
  <2>3. QED
    BY <2>1, <2>2 DEF Accepted
<1>3. CASE WriteSections
  <2>1. st.next = "write" /\ st.section_retries = 0 /\ st.script_retries = 0
    BY <1>3 DEF WriteSections, At, GraphInv
  <2>2. /\ st'.next = "review" /\ st'.section_retries = st.section_retries
        /\ st'.script_retries = st.script_retries
    BY <1>3, WriteEffect DEF Untouched, TypeOK, State
  <2>3. QED
    BY <2>1, <2>2 DEF Accepted
<1>4. CASE ReviewFlow
  <2>1. /\ st'.section_retries = st.section_retries
        /\ st'.script_retries = st.script_retries
        /\ st'.next \in {"correct_section", "validate"}
    BY <1>4, ReviewEffect DEF Untouched, TypeOK, State, PrimaryRoute
  <2>2. st.next = "review"
    BY <1>4 DEF ReviewFlow, At
  <2>3. QED
    BY <1>1, <2>1, <2>2 DEF Accepted
<1>5. CASE CorrectSection
  <2>1. /\ st'.section_retries = st.section_retries + 1
        /\ st'.script_retries = st.script_retries /\ st'.next = "review"
    BY <1>5, CorrectSectionEffect DEF Untouched, TypeOK, State
  <2>2. st.next = "correct_section"
    BY <1>5 DEF CorrectSection, At
  <2>3. QED
    BY <1>1, <2>1, <2>2 DEF Accepted
<1>6. CASE Validate
  <2>1. /\ st'.section_retries = st.section_retries
        /\ st'.script_retries = st.script_retries
        /\ st'.next \in {"correct_script", "build"}
    BY <1>6, ValidateEffect DEF Untouched, TypeOK, State, SecondaryRoute
  <2>2. st.next = "validate"
    BY <1>6 DEF Validate, At
  <2>3. QED
    BY <1>1, <2>1, <2>2 DEF Accepted
<1>7. CASE CorrectScript
  <2>1. /\ st'.section_retries = st.section_retries
        /\ st'.script_retries = st.script_retries + 1 /\ st'.next = "validate"
    BY <1>7, CorrectScriptEffect DEF Untouched, TypeOK, State
  <2>2. st.next = "correct_script"
    BY <1>7 DEF CorrectScript, At
  <2>3. QED
    BY <1>1, <2>1, <2>2 DEF Accepted
<1>8. QED
  BY <1>2, <1>3, <1>4, <1>5, <1>6, <1>7 DEF Answers

\* One answer more is MaxAttempts requests more.
LEMMA OneMore ==
    ASSUME NEW n \in Nat
    PROVE  /\ MaxAttempts * (n + 1) = MaxAttempts * n + MaxAttempts
           /\ MaxAttempts * n \in Nat
BY AttemptsAssumption

\* A request belongs to an accepted answer, to a start or to the attempts of
\* the call in progress.
LEMMA CallsStep ==
    ASSUME TypeOK, ThreadInv, GraphInv, CallsInv, Next
    PROVE  CallsInv'
<1> SUFFICES ASSUME Checkpointer = "durable" \/ MaxStarts = 1
             PROVE  /\ phase' = "running" =>
                          calls' <= MaxAttempts * (Accepted(st') + starts' - 1) + attempt'
                    /\ phase' # "running" =>
                          calls' <= MaxAttempts * (Accepted(st') + starts')
  BY DEF CallsInv
<1>1. /\ Accepted(st) \in Nat /\ starts \in Nat /\ calls \in Nat
      /\ attempt \in Nat /\ attempt + 1 <= MaxAttempts /\ MaxAttempts \in Nat
  BY AcceptedType, AttemptsAssumption DEF TypeOK
<1>2. phase # "new" => starts - 1 \in Nat /\ Accepted(st) + starts - 1 \in Nat
  BY <1>1 DEF ThreadInv
<1> DEFINE n == Accepted(st) + starts - 1
<1>3. phase # "new" => /\ MaxAttempts * (Accepted(st) + starts) = MaxAttempts * n + MaxAttempts
                       /\ MaxAttempts * n \in Nat
  <2>1. phase # "new" => n \in Nat /\ n + 1 = Accepted(st) + starts
    BY <1>1, <1>2
  <2>2. QED
    BY <2>1, OneMore
<1>4. CASE Start
  <2>1. /\ phase \in {"new", "failed"} /\ phase' = "running"
        /\ starts' = starts + 1 /\ starts < MaxStarts
        /\ calls' = calls /\ attempt' = attempt
    BY <1>4 DEF Start
  <2>2. CASE phase = "new"
    <3>1. calls = 0 /\ starts = 0 /\ Accepted(st) = 0
      BY <2>2 DEF ThreadInv
    <3>2. Accepted(st') = 0
      BY <1>4, <2>2, <3>1, StartEffect DEF Accepted, InitialState
    <3>3. MaxAttempts * (Accepted(st') + starts' - 1) = 0
      BY <1>1, <2>1, <3>1, <3>2
    <3>4. QED
      BY <1>1, <2>1, <3>1, <3>3
  <2>3. CASE phase # "new"
    <3>1. Checkpointer = "durable"
      BY <1>1, <2>1, <2>3 DEF ThreadInv
    <3>2. st' = st
      BY <1>4, <2>3, <3>1, StartEffect
    <3>3. calls <= MaxAttempts * (Accepted(st) + starts)
      BY <2>1, <2>3 DEF CallsInv
    <3>4. Accepted(st') + starts' - 1 = Accepted(st) + starts
      BY <1>1, <2>1, <3>2
    <3>5. MaxAttempts * (Accepted(st') + starts' - 1) + attempt' >= calls
      BY <1>1, <1>3, <2>1, <2>3, <3>3, <3>4
    <3>6. QED
      BY <2>1, <3>5
  <2>4. QED
    BY <2>2, <2>3
<1>5. CASE Answers
  <2>1. /\ phase = "running" /\ phase' = phase /\ starts' = starts
        /\ attempt' = 0 /\ calls' \in Nat /\ calls' <= calls + 1
    BY <1>5, AnswersEffect DEF CallStep
  <2>2. Accepted(st') + starts' - 1 = Accepted(st) + starts
    BY <1>1, <1>5, <2>1, AcceptedStep
  <2>3. calls <= MaxAttempts * n + attempt
    BY <2>1 DEF CallsInv
  <2>4. calls' <= MaxAttempts * (Accepted(st) + starts)
    <3> DEFINE m == MaxAttempts * n
               k == MaxAttempts * (Accepted(st) + starts)
    <3>1. k = m + MaxAttempts /\ m \in Nat /\ calls <= m + attempt
      BY <1>3, <2>1, <2>3
    <3> HIDE DEF m, k, n
    <3>2. QED
      BY <1>1, <2>1, <3>1 DEF k
  <2>5. QED
    BY <2>1, <2>2, <2>4, <1>1, <1>3
<1>6. CASE Prepare \/ BuildOutput
  <2>1. Accepted(st') = Accepted(st)
    BY <1>6, PrepareEffect, BuildEffect
       DEF Prepare, BuildOutput, At, Accepted, TypeOK, State
  <2>2. /\ phase = "running" /\ starts' = starts /\ calls' = calls
        /\ attempt' = attempt
    BY <1>6 DEF Prepare, BuildOutput, At, Continues, callVars
  <2>3. calls <= MaxAttempts * n + attempt
    BY <2>2 DEF CallsInv
  <2>4. calls <= MaxAttempts * (Accepted(st) + starts)
    <3> DEFINE m == MaxAttempts * n
               k == MaxAttempts * (Accepted(st) + starts)
    <3>1. k = m + MaxAttempts /\ m \in Nat /\ calls <= m + attempt
      BY <1>3, <2>2, <2>3
    <3> HIDE DEF m, k, n
    <3>2. QED
      BY <1>1, <3>1 DEF k
  <2>5. QED
    BY <2>1, <2>2, <2>3, <2>4
<1>7. CASE CallRepeats
  <2>1. /\ phase = "running" /\ phase' = phase /\ st' = st /\ starts' = starts
        /\ attempt' = attempt + 1 /\ calls' \in Nat /\ calls' <= calls + 1
    BY <1>7, CallRepeatsEffect
  <2>2. calls <= MaxAttempts * n + attempt
    BY <2>1 DEF CallsInv
  <2>3. calls' <= MaxAttempts * n + attempt'
    <3> DEFINE m == MaxAttempts * n
    <3>1. m \in Nat /\ calls <= m + attempt
      BY <1>3, <2>1, <2>2
    <3> HIDE DEF m, n
    <3>2. calls' <= m + attempt'
      BY <1>1, <2>1, <3>1
    <3>3. QED
      BY <3>2 DEF m
  <2>4. QED
    BY <2>1, <2>3
<1>8. CASE CallFails
  <2>1. /\ phase = "running" /\ phase' = "failed" /\ st' = st /\ starts' = starts
        /\ calls' \in Nat /\ calls' <= calls + 1
    BY <1>8, CallFailsEffect
  <2>2. calls <= MaxAttempts * n + attempt
    BY <2>1 DEF CallsInv
  <2>3. calls' <= MaxAttempts * (Accepted(st) + starts)
    <3> DEFINE m == MaxAttempts * n
               k == MaxAttempts * (Accepted(st) + starts)
    <3>1. k = m + MaxAttempts /\ m \in Nat /\ calls <= m + attempt
      BY <1>3, <2>1, <2>2
    <3> HIDE DEF m, k, n
    <3>2. QED
      BY <1>1, <2>1, <3>1 DEF k
  <2>4. QED
    BY <2>1, <2>3
<1>9. CASE MissingInput
  <2>1. /\ phase = "running" /\ phase' = "failed" /\ st' = st /\ starts' = starts
        /\ calls' = calls
    BY <1>9 DEF MissingInput, Raise, callVars
  <2>2. calls <= MaxAttempts * n + attempt
    BY <2>1 DEF CallsInv
  <2>3. calls <= MaxAttempts * (Accepted(st) + starts)
    <3> DEFINE m == MaxAttempts * n
               k == MaxAttempts * (Accepted(st) + starts)
    <3>1. k = m + MaxAttempts /\ m \in Nat /\ calls <= m + attempt
      BY <1>3, <2>1, <2>2
    <3> HIDE DEF m, k, n
    <3>2. QED
      BY <1>1, <3>1 DEF k
  <2>4. QED
    BY <2>1, <2>3
<1>10. QED
  BY <1>4, <1>5, <1>6, <1>7, <1>8, <1>9 DEF Next, Work, Answers

-----------------------------------------------------------------------------
\* The inductive invariant.
Inv == /\ TypeOK /\ ThreadInv /\ GraphInv /\ OneDraft
       /\ JudgedInv /\ TokensNotInflated /\ CallsInv

\* The invariant holds before the first start.
LEMMA InvInit == Init => Inv
<1> SUFFICES ASSUME Init PROVE Inv
  OBVIOUS
<1>1. PICK language \in BOOLEAN : st = InitialState(language)
  BY DEF Init
<1>2. st \in State
  BY <1>1, InitialStateType
<1>3. TypeOK
  BY <1>2, AttemptsAssumption DEF Init, CallInit, TypeOK
<1>4. ThreadInv /\ CallsInv
  BY <1>1, RetryAssumption, AttemptsAssumption
     DEF Init, CallInit, ThreadInv, CallsInv, InitialState, Accepted
<1>5. GraphInv /\ JudgedInv /\ TokensNotInflated
  BY <1>1, RetryAssumption
     DEF Init, GraphInv, JudgedInv, TokensNotInflated, InitialState
<1>6. OneDraft
  BY <1>1 DEF OneDraft, InitialState, Range
<1>7. QED
  BY <1>3, <1>4, <1>5, <1>6 DEF Inv

\* Every step keeps the invariant.
LEMMA InvStep == Inv /\ [Next]_vars => Inv'
<1> SUFFICES ASSUME Inv, [Next]_vars PROVE Inv'
  OBVIOUS
<1> USE DEF Inv
<1>1. CASE Next
  BY <1>1, TypeStep, ThreadStep, GraphStep, DraftStep, JudgedStep, TokensStep,
     CallsStep
<1>2. CASE UNCHANGED vars
  BY <1>2, Unchanged
<1>3. QED
  BY <1>1, <1>2

\* The invariant holds throughout.
LEMMA InvHolds == Spec => []Inv
<1>1. QED
  BY InvInit, InvStep, PTL DEF Spec

\* The graph's state stays well typed.
THEOREM AdaptationTypeCorrect == Spec => []TypeOK
<1>1. Inv => TypeOK
  BY DEF Inv
<1>2. QED
  BY <1>1, InvHolds, PTL

\* No revision of an earlier draft is merged into a later one.
THEOREM OneDraftDelivered == Spec => []OneDraft
<1>1. Inv => OneDraft
  BY DEF Inv
<1>2. QED
  BY <1>1, InvHolds, PTL

\* The delivered verdict is about the delivered sections.
THEOREM VerdictMatches == Spec => []VerdictIsAboutScript
<1>1. Inv => VerdictIsAboutScript
  BY DEF Inv, JudgedInv, VerdictIsAboutScript
<1>2. QED
  BY <1>1, InvHolds, PTL

\* A rejected script is one whose corrections are spent.
THEOREM BudgetSpentOnRejection == Spec => []RejectedOnlyWhenSpent
<1>1. Inv => RejectedOnlyWhenSpent
  BY DEF Inv, JudgedInv, GraphInv, RejectedOnlyWhenSpent
<1>2. QED
  BY <1>1, InvHolds, PTL

\* Reported tokens never exceed charged tokens.
THEOREM TokensAtMostCharged == Spec => []TokensNotInflated
<1>1. Inv => TokensNotInflated
  BY DEF Inv
<1>2. QED
  BY <1>1, InvHolds, PTL

\* Every thread sends a bounded number of requests, whatever the models answer.
THEOREM RequestsBounded == Spec => []CallsBounded
<1>1. Inv => CallsBounded
  <2> SUFFICES ASSUME Inv, Checkpointer = "durable" \/ MaxStarts = 1
               PROVE  /\ calls <= MaxAttempts * (Accepted(st) + starts)
                      /\ Accepted(st) <= 4 + 4 * MaxRetry
    BY DEF CallsBounded
  <2>1. /\ Accepted(st) \in Nat /\ starts \in Nat /\ calls \in Nat
        /\ attempt \in Nat /\ attempt + 1 <= MaxAttempts /\ MaxAttempts \in Nat
    BY AcceptedType, AttemptsAssumption DEF Inv, TypeOK
  <2>2. ASSUME phase = "running"
        PROVE  calls <= MaxAttempts * (Accepted(st) + starts)
    <3> DEFINE n == Accepted(st) + starts - 1
               m == MaxAttempts * n
               k == MaxAttempts * (Accepted(st) + starts)
    <3>1. n \in Nat /\ n + 1 = Accepted(st) + starts
      BY <2>1, <2>2 DEF Inv, ThreadInv
    <3>2. k = m + MaxAttempts /\ m \in Nat
      BY <3>1, OneMore
    <3>3. calls <= m + attempt
      BY <2>2 DEF Inv, CallsInv
    <3> HIDE DEF m, k, n
    <3>4. calls <= k
      BY <2>1, <3>2, <3>3
    <3>5. QED
      BY <3>4 DEF k
  <2>3. ASSUME phase # "running"
        PROVE  calls <= MaxAttempts * (Accepted(st) + starts)
    <3>1. CallsInv
      BY DEF Inv
    <3>2. QED
      BY <2>3, <3>1 DEF CallsInv
  <2>4. Accepted(st) <= 4 + 4 * MaxRetry
    <3>1. /\ st.section_retries \in Nat /\ st.script_retries \in Nat
          /\ st.section_retries <= MaxRetry /\ st.script_retries <= MaxRetry
          /\ MaxRetry \in Nat
      BY RetryAssumption DEF Inv, TypeOK, State, GraphInv
    <3>2. QED
      BY <3>1 DEF Accepted
  <2>5. QED
    BY <2>2, <2>3, <2>4
<1>2. QED
  BY <1>1, InvHolds, PTL

\* With a durable checkpointer no start runs a completed node again.
THEOREM ResumesWhereItFailed ==
    Checkpointer = "durable" => (Spec => NothingRedone)
<1> SUFFICES ASSUME Checkpointer = "durable" PROVE Spec => NothingRedone
  OBVIOUS
<1>1. Inv /\ [Next]_vars => [Accepted(st') >= Accepted(st)]_st
  <2> SUFFICES ASSUME Inv, [Next]_vars, st' # st
               PROVE  Accepted(st') >= Accepted(st)
    OBVIOUS
  <2> USE DEF Inv
  <2>1. Accepted(st) \in Nat
    BY AcceptedType
  <2>2. CASE Start
    <3>1. phase = "new" /\ st' = InitialState(st.language)
      BY <2>2, StartEffect
    <3>2. Accepted(st) = 0 /\ Accepted(st') = 0
      BY <3>1 DEF ThreadInv, Accepted, InitialState
    <3>3. QED
      BY <3>2
  <2>3. CASE Answers
    BY <2>1, <2>3, AcceptedStep
  <2>4. CASE Prepare \/ BuildOutput
    <3>1. Accepted(st') = Accepted(st)
      BY <2>4, PrepareEffect, BuildEffect
         DEF Prepare, BuildOutput, At, Accepted, TypeOK, State
    <3>2. QED
      BY <2>1, <3>1
  <2>5. CASE CallRepeats \/ CallFails \/ MissingInput
    BY <2>5, CallRepeatsEffect, CallFailsEffect DEF MissingInput, Raise
  <2>6. CASE UNCHANGED vars
    BY <2>6 DEF vars
  <2>7. QED
    BY <2>2, <2>3, <2>4, <2>5, <2>6 DEF Next, Work, Answers
<1>2. QED
  BY <1>1, InvHolds, PTL DEF Spec, NothingRedone
-----------------------------------------------------------------------------
LEMMA NatSetInduction ==
    ASSUME NEW T, 0 \in T, \A n \in Nat : n \in T => n + 1 \in T
    PROVE  Nat \subseteq T
<1> DEFINE R == OpToRel(<, Nat)
           D == Nat \ T
<1>1. SUFFICES ASSUME D # {} PROVE FALSE
  OBVIOUS
<1>2. IsWellFoundedOn(R, Nat)
  BY NatLessThanWellFounded
<1>3. D \subseteq Nat
  OBVIOUS
<1>4. PICK x \in D : \A y \in D : ~(<<y, x>> \in R)
  <2> HIDE DEF D, R
  <2>1. QED BY <1>1, <1>2, <1>3, WFMin
<1>5. x \in Nat /\ x # 0 /\ x - 1 \in Nat /\ x - 1 \in T => x \in T
  OBVIOUS
<1>6. x \in Nat \ {0}
  OBVIOUS
<1>7. x - 1 \in Nat /\ (x - 1) + 1 = x
  BY <1>6
<1>8. <<x - 1, x>> \in R
  BY <1>6, <1>7 DEF OpToRel
<1>9. x - 1 \in T
  BY <1>4, <1>7, <1>8
<1>10. QED
  BY <1>7, <1>9

\* The last element of a finite interval's non-empty subset.
LEMMA MaxTop ==
    ASSUME NEW k \in Nat, NEW s \in SUBSET (1..(k + 1)), k + 1 \in s
    PROVE  Max(s) = k + 1 /\ s \ {k + 1} \in SUBSET (1..k)
<1>1. \A y \in s : k + 1 >= y
  OBVIOUS
<1>2. \A x \in s : (\A y \in s : x >= y) => x = k + 1
  OBVIOUS
<1>3. Max(s) = k + 1
  BY <1>1, <1>2 DEF Max
<1>4. QED BY <1>3

\* g is the recursion that FoldLeft runs over the first n elements of seq.
IsFold(g, f, base, seq, n) ==
    \A s \in SUBSET (1..n) :
        g[s] = IF s = {} THEN base ELSE f[<<g[s \ {Max(s)}], seq[Max(s)]>>]

\* X is closed under f with the elements of seq, and base is in it.
Foldable(X, Y, f, base, seq, n) ==
    /\ f \in [X \X Y -> X] /\ base \in X
    /\ n \in Nat /\ \A i \in 1..n : seq[i] \in Y

\* The recursion of FoldLeft exists: every fold over a sequence has a value.
LEMMA FoldPartials ==
    ASSUME NEW X, NEW Y, NEW f, NEW base, NEW seq, NEW n,
           Foldable(X, Y, f, base, seq, n)
    PROVE  \E g \in [SUBSET (1..n) -> X] :
               IsFold(g, f, base, seq, n)
<1> DEFINE Fold(g, k) == \A s \in SUBSET (1..k) :
                             g[s] = IF s = {} THEN base
                                    ELSE f[<<g[s \ {Max(s)}], seq[Max(s)]>>]
           Exists(k) == \E g \in [SUBSET (1..k) -> X] : Fold(g, k)
           T == {k \in Nat : k <= n => Exists(k)}
<1> USE DEF Foldable
<1>1. 0 \in T
  <2>1. 1..0 = {} /\ SUBSET (1..0) = {{}}
    OBVIOUS
  <2> DEFINE g == [s \in SUBSET (1..0) |-> base]
  <2>2. g \in [SUBSET (1..0) -> X]
    OBVIOUS
  <2>3. Fold(g, 0)
    BY <2>1
  <2>4. QED BY <2>2, <2>3
<1>2. ASSUME NEW k \in Nat, k \in T, k + 1 <= n
      PROVE  Exists(k + 1)
  <2>0. Exists(k)
    <3> HIDE DEF Exists
    <3>1. QED BY <1>2
  <2>1. PICK g \in [SUBSET (1..k) -> X] : Fold(g, k)
    BY <2>0
  <2> DEFINE h == [s \in SUBSET (1..(k + 1)) |->
                      IF k + 1 \in s THEN f[<<g[s \ {k + 1}], seq[k + 1]>>] ELSE g[s]]
  <2>2. \A s \in SUBSET (1..(k + 1)) : k + 1 \notin s => s \in SUBSET (1..k)
    OBVIOUS
  <2>3. \A s \in SUBSET (1..(k + 1)) : k + 1 \in s =>
            Max(s) = k + 1 /\ s \ {k + 1} \in SUBSET (1..k)
    BY MaxTop
  <2>4. seq[k + 1] \in Y
    BY <1>2
  <2>5. h \in [SUBSET (1..(k + 1)) -> X]
    <3>1. ASSUME NEW s \in SUBSET (1..(k + 1)) PROVE h[s] \in X
      <4>1. CASE k + 1 \in s
        <5>1. g[s \ {k + 1}] \in X
          BY <2>3, <4>1
        <5>2. QED BY <5>1, <2>4, <4>1
      <4>2. CASE k + 1 \notin s
        BY <4>2, <2>2
      <4>3. QED BY <4>1, <4>2
    <3>2. QED BY <3>1
  <2>6. ASSUME NEW s \in SUBSET (1..(k + 1))
        PROVE  h[s] = IF s = {} THEN base
                       ELSE f[<<h[s \ {Max(s)}], seq[Max(s)]>>]
    <3>1. CASE k + 1 \in s
      <4>1. Max(s) = k + 1 /\ s \ {k + 1} \in SUBSET (1..k)
        BY <2>3, <3>1
      <4>2. k + 1 \notin s \ {k + 1} /\ s \ {k + 1} \in SUBSET (1..(k + 1))
        OBVIOUS
      <4>3. h[s \ {k + 1}] = g[s \ {k + 1}]
        BY <4>2
      <4>4. h[s] = f[<<g[s \ {k + 1}], seq[k + 1]>>] /\ s # {}
        BY <3>1
      <4> HIDE DEF h
      <4>5. QED BY <4>1, <4>3, <4>4
    <3>2. CASE k + 1 \notin s
      <4>1. s \in SUBSET (1..k)
        BY <3>2, <2>2
      <4>2. h[s] = g[s]
        BY <3>2
      <4>3. CASE s = {}
        BY <2>1, <4>1, <4>2, <4>3
      <4>4. CASE s # {}
        <5>1. k + 1 \notin s \ {Max(s)} /\ s \ {Max(s)} \in SUBSET (1..(k + 1))
          BY <3>2
        <5>2. h[s \ {Max(s)}] = g[s \ {Max(s)}]
          BY <5>1
        <5>3. g[s] = f[<<g[s \ {Max(s)}], seq[Max(s)]>>]
          BY <2>1, <4>1, <4>4
        <5> HIDE DEF h
        <5>4. QED BY <4>2, <4>4, <5>2, <5>3
      <4>5. QED BY <4>3, <4>4
    <3>3. QED BY <3>1, <3>2
  <2>7. Fold(h, k + 1)
    <3> HIDE DEF h
    <3>1. QED BY <2>6
  <2>8. QED
    <3> HIDE DEF h
    <3>1. QED BY <2>5, <2>7
<1>3. \A k \in Nat : k \in T => k + 1 \in T
  <2> SUFFICES ASSUME NEW k \in Nat, k \in T PROVE k + 1 \in T
    OBVIOUS
  <2>1. k + 1 \in Nat
    OBVIOUS
  <2>2. k + 1 <= n => Exists(k + 1)
    BY <1>2
  <2> HIDE DEF Exists
  <2>3. QED BY <2>1, <2>2
<1>4. n \in T
  <2> HIDE DEF T
  <2>1. QED BY <1>1, <1>3, NatSetInduction
<1>5. Exists(n)
  <2> HIDE DEF Exists
  <2>1. QED BY <1>4
<1>6. QED
  BY <1>5 DEF IsFold
\* Max of a non-empty set of positions.
LEMMA MaxOf ==
    ASSUME NEW n \in Nat, NEW s \in SUBSET (1..n), s # {}
    PROVE  Max(s) \in s /\ \A y \in s : y <= Max(s)
<1> DEFINE Bounded(k) == \A r \in SUBSET (1..k) :
                              r # {} => \E x \in r : \A y \in r : x >= y
           T == {k \in Nat : Bounded(k)}
<1>1. 0 \in T
  <2>1. 1..0 = {}
    OBVIOUS
  <2>2. QED BY <2>1
<1>2. ASSUME NEW k \in Nat, Bounded(k) PROVE Bounded(k + 1)
  <2> SUFFICES ASSUME NEW r \in SUBSET (1..(k + 1)), r # {}
               PROVE  \E x \in r : \A y \in r : x >= y
    OBVIOUS
  <2>1. CASE k + 1 \in r
    BY <2>1
  <2>2. CASE k + 1 \notin r
    <3>1. r \in SUBSET (1..k)
      BY <2>2
    <3>2. QED BY <3>1, <1>2
  <2>3. QED BY <2>1, <2>2
<1>3. \A k \in Nat : k \in T => k + 1 \in T
  <2> HIDE DEF Bounded
  <2>1. QED BY <1>2
<1>4. Nat \subseteq T
  <2> HIDE DEF T
  <2>1. QED BY <1>1, <1>3, NatSetInduction
<1>5. Bounded(n)
  <2> HIDE DEF Bounded
  <2>1. QED BY <1>4
<1>6. QED
  BY <1>5 DEF Max

\* One revised section merged into the list, and the list of them all.
Merge(sections, final, section) ==
    IF \E i \in DOMAIN sections : sections[i].order = section.order
    THEN [final EXCEPT ![LastWith(sections, section.order)] = section]
    ELSE Append(final, section)

\* Merging keeps a sequence of sections one.
LEMMA MergeType ==
    ASSUME NEW sections, NEW final \in Seq(Section), NEW section \in Section
    PROVE  Merge(sections, final, section) \in Seq(Section)
<1>1. Append(final, section) \in Seq(Section)
  OBVIOUS
<1>2. ASSUME NEW p
      PROVE  [final EXCEPT ![p] = section] \in Seq(Section)
  <2>1. DOMAIN final = 1..Len(final) /\ \A q \in 1..Len(final) : final[q] \in Section
    OBVIOUS
  <2>2. \A q \in 1..Len(final) : [final EXCEPT ![p] = section][q] \in Section
    BY <2>1
  <2>3. [final EXCEPT ![p] = section] \in [1..Len(final) -> Section]
    BY <2>1, <2>2
  <2>4. QED BY <2>3
<1>3. QED
  BY <1>1, <1>2 DEF Merge

\* The loop over the revised sections, as the lists it goes through.
LEMMA MergeUnrolls ==
    ASSUME NEW sections \in Seq(Section), NEW revised \in Seq(Section)
    PROVE  \E F \in [Nat -> Seq(Section)] :
               /\ F[0] = sections
               /\ \A k \in Nat : k < Len(revised) =>
                      F[k + 1] = Merge(sections, F[k], revised[k + 1])
               /\ ReplaceOrAppend(sections, revised) = F[Len(revised)]
<1> DEFINE n == Len(revised)
           f == [p \in Seq(Section) \X Section |-> Merge(sections, p[1], p[2])]
           Iter(g) == [s \in SUBSET (1..n) |->
                         IF s = {} THEN sections
                         ELSE Merge(sections, g[s \ {Max(s)}], revised[Max(s)])]
<1>1. n \in Nat /\ DOMAIN revised = 1..n /\ \A i \in 1..n : revised[i] \in Section
  OBVIOUS
<1>2. f \in [Seq(Section) \X Section -> Seq(Section)]
  BY MergeType
<1>3. PICK g \in [SUBSET (1..n) -> Seq(Section)] :
          \A s \in SUBSET (1..n) :
              g[s] = IF s = {} THEN sections
                     ELSE f[<<g[s \ {Max(s)}], revised[Max(s)]>>]
  <2> DEFINE X == Seq(Section)
             Y == Section
  <2>1. n \in Nat
    BY <1>1
  <2>2. \A i \in 1..n : revised[i] \in Y
    BY <1>1
  <2>3. f \in [X \X Y -> X]
    BY <1>2
  <2>4. sections \in X
    OBVIOUS
  <2> HIDE DEF f, n, X, Y
  <2>5. \E g \in [SUBSET (1..n) -> X] : IsFold(g, f, sections, revised, n)
    <3>1. Foldable(X, Y, f, sections, revised, n)
      BY <2>1, <2>2, <2>3, <2>4 DEF Foldable
    <3>2. QED BY <3>1, FoldPartials
  <2>6. QED BY <2>5 DEF X, IsFold
<1>4. \A s \in SUBSET (1..n) : s # {} =>
          f[<<g[s \ {Max(s)}], revised[Max(s)]>>]
             = Merge(sections, g[s \ {Max(s)}], revised[Max(s)])
  <2> SUFFICES ASSUME NEW s \in SUBSET (1..n), s # {}
               PROVE  f[<<g[s \ {Max(s)}], revised[Max(s)]>>]
                        = Merge(sections, g[s \ {Max(s)}], revised[Max(s)])
    OBVIOUS
  <2>1. Max(s) \in 1..n
    <3> HIDE DEF n
    <3>1. QED BY <1>1, MaxOf
  <2>2. g[s \ {Max(s)}] \in Seq(Section)
    OBVIOUS
  <2>3. revised[Max(s)] \in Section
    BY <2>1, <1>1
  <2>4. QED BY <2>2, <2>3
<1>5. g = Iter(g)
  <2> HIDE DEF f, n
  <2>1. QED BY <1>3, <1>4
<1> DEFINE iter == CHOOSE h : h = Iter(h)
<1>6. iter = Iter(iter)
  <2> HIDE DEF Iter
  <2>1. QED BY <1>5
<1>7. ReplaceOrAppend(sections, revised) = iter[1..n]
  BY <1>1 DEF ReplaceOrAppend, FoldLeft, MapThenFoldSet, Merge
<1>8. iter[{}] = sections
  <2> HIDE DEF iter
  <2>1. {} \in SUBSET (1..n)
    OBVIOUS
  <2>2. QED BY <1>6, <2>1
<1>9. \A k \in Nat : k < n =>
          iter[1..(k + 1)] = Merge(sections, iter[1..k], revised[k + 1])
  <2> HIDE DEF iter
  <2> SUFFICES ASSUME NEW k \in Nat, k < n
               PROVE  iter[1..(k + 1)] = Merge(sections, iter[1..k], revised[k + 1])
    OBVIOUS
  <2>1. 1..(k + 1) \in SUBSET (1..n) /\ k + 1 \in 1..(k + 1) /\ 1..(k + 1) # {}
    <3> HIDE DEF n
    <3>1. \A x \in 1..(k + 1) : x \in 1..n
      BY <1>1
    <3>2. k + 1 \in 1..(k + 1)
      OBVIOUS
    <3>3. QED BY <3>1, <3>2
  <2>2. Max(1..(k + 1)) = k + 1
    <3>1. 1..(k + 1) \in SUBSET (1..(k + 1))
      OBVIOUS
    <3>2. QED BY <2>1, <3>1, MaxTop
  <2>3. (1..(k + 1)) \ {k + 1} = 1..k
    OBVIOUS
  <2>4. iter[1..(k + 1)] = Merge(sections, iter[(1..(k + 1)) \ {Max(1..(k + 1))}],
                                   revised[Max(1..(k + 1))])
    BY <1>6, <2>1
  <2>5. QED BY <2>2, <2>3, <2>4
<1> DEFINE T == {k \in Nat : k <= n => iter[1..k] \in Seq(Section)}
<1>10. 0 \in T
  <2>1. 1..0 = {}
    OBVIOUS
  <2> HIDE DEF iter
  <2>2. QED BY <1>8, <2>1
<1>11. \A k \in Nat : k \in T => k + 1 \in T
  <2> HIDE DEF iter
  <2> SUFFICES ASSUME NEW k \in Nat, k \in T, k + 1 <= n
               PROVE  iter[1..(k + 1)] \in Seq(Section)
    OBVIOUS
  <2>1. k < n /\ iter[1..k] \in Seq(Section)
    BY <1>1
  <2>2. revised[k + 1] \in Section
    BY <1>1
  <2>3. QED BY <2>1, <2>2, <1>9, MergeType
<1>12. Nat \subseteq T
  <2> HIDE DEF T
  <2>1. QED BY <1>10, <1>11, NatSetInduction
<1> DEFINE F == [k \in Nat |-> IF k <= n THEN iter[1..k] ELSE sections]
<1>13. F \in [Nat -> Seq(Section)]
  <2> HIDE DEF iter
  <2>1. QED BY <1>12
<1>14. F[0] = sections
  <2>1. 1..0 = {} /\ 0 <= n
    BY <1>1
  <2> HIDE DEF iter
  <2>2. QED BY <2>1, <1>8
<1>15. \A k \in Nat : k < n => F[k + 1] = Merge(sections, F[k], revised[k + 1])
  <2> HIDE DEF iter
  <2> SUFFICES ASSUME NEW k \in Nat, k < n
               PROVE  F[k + 1] = Merge(sections, F[k], revised[k + 1])
    OBVIOUS
  <2>1. F[k + 1] = iter[1..(k + 1)] /\ F[k] = iter[1..k]
    BY <1>1
  <2>2. QED BY <2>1, <1>9
<1>16. F[n] = iter[1..n]
  <2> HIDE DEF iter
  <2>1. QED BY <1>1
<1>17. QED
  <2> HIDE DEF F, iter
  <2>1. QED BY <1>7, <1>13, <1>14, <1>15, <1>16

\* LastWith is the last position of an order that occurs.
LEMMA LastWithFacts ==
    ASSUME NEW sections \in Seq(Section), NEW o,
           \E i \in DOMAIN sections : sections[i].order = o
    PROVE  /\ LastWith(sections, o) \in DOMAIN sections
           /\ sections[LastWith(sections, o)].order = o
           /\ \A i \in DOMAIN sections :
                  sections[i].order = o => i <= LastWith(sections, o)
<1> DEFINE s == {i \in DOMAIN sections : sections[i].order = o}
<1>1. Len(sections) \in Nat /\ s \in SUBSET (1..Len(sections)) /\ s # {}
  OBVIOUS
<1>2. Max(s) \in s /\ \A y \in s : y <= Max(s)
  <2> HIDE DEF s
  <2>1. QED BY <1>1, MaxOf
<1>3. LastWith(sections, o) = Max(s)
  BY DEF LastWith
<1>4. QED
  BY <1>2, <1>3

\* Where each section of the merged list comes from, after the first k
\* revisions: 0 is the section that stood there, j the j-th revision.
Merged(sections, revised, k, final, origin) ==
    LET n == Len(sections)
    IN  /\ origin \in [1..Len(final) -> 0..k]
        /\ n <= Len(final)
        /\ \A q \in 1..Len(final) :
               final[q] = IF origin[q] = 0 THEN sections[q] ELSE revised[origin[q]]
        /\ \A q \in 1..n :
               origin[q] = 0 <=> \/ q # LastWith(sections, sections[q].order)
                                 \/ \A j \in 1..k : revised[j].order # sections[q].order
        /\ \A q \in 1..n : origin[q] # 0 =>
               /\ revised[origin[q]].order = sections[q].order
               /\ \A j \in 1..k :
                      revised[j].order = sections[q].order => j <= origin[q]
        /\ \A q \in (n + 1)..Len(final) :
               /\ origin[q] # 0
               /\ \A i \in 1..n : sections[i].order # revised[origin[q]].order
        /\ \A q, r \in (n + 1)..Len(final) : origin[q] = origin[r] => q = r
        /\ \A j \in 1..k :
               (\A i \in 1..n : sections[i].order # revised[j].order) =>
               \E q \in (n + 1)..Len(final) : origin[q] = j

\* Merging one more revision keeps the account of where sections come from.
LEMMA MergedStep ==
    ASSUME NEW sections \in Seq(Section), NEW revised \in Seq(Section),
           NEW k \in Nat, k < Len(revised),
           NEW final \in Seq(Section), NEW origin,
           Merged(sections, revised, k, final, origin)
    PROVE  \E new : Merged(sections, revised, k + 1,
                           Merge(sections, final, revised[k + 1]), new)
<1> DEFINE n == Len(sections)
           L == Len(final)
           o == revised[k + 1].order
           section == revised[k + 1]
<1>1. /\ n \in Nat /\ L \in Nat /\ n <= L
      /\ DOMAIN sections = 1..n /\ DOMAIN final = 1..L
      /\ section \in Section
      /\ origin \in [1..L -> 0..k]
  BY DEF Merged
<1>2. CASE \E i \in 1..n : sections[i].order = o
  <2> DEFINE p == LastWith(sections, o)
             new == [origin EXCEPT ![p] = k + 1]
             m == [final EXCEPT ![p] = section]
  <2>1. p \in 1..n /\ sections[p].order = o
    BY <1>1, <1>2, LastWithFacts
  <2>2. Merge(sections, final, section) = m
    BY <1>1, <1>2 DEF Merge
  <2>3. Len(m) = L /\ m \in Seq(Section)
    <3>1. m \in Seq(Section)
      <4> HIDE DEF m, section
      <4>1. QED BY <1>1, <2>2, MergeType
    <3>2. DOMAIN m = DOMAIN final
      OBVIOUS
    <3> HIDE DEF m
    <3>3. QED BY <1>1, <3>1, <3>2
  <2>4. p \in 1..L
    <3> HIDE DEF p, n, L
    <3>1. QED BY <1>1, <2>1
  <2>5. new \in [1..L -> 0..(k + 1)]
    <3> HIDE DEF p, L
    <3>1. QED BY <1>1, <2>4
  <2>6. /\ new[p] = k + 1 /\ m[p] = section
        /\ \A q \in 1..L : q # p => new[q] = origin[q] /\ m[q] = final[q]
    <3> HIDE DEF p, L, section
    <3>1. QED BY <1>1, <2>4
  <2>7. \A q \in 1..n : q = LastWith(sections, sections[q].order) /\ sections[q].order = o
                          => q = p
    OBVIOUS
  <2>8. \A q \in 1..L : q \in (n + 1)..L => q # p
    <3> HIDE DEF p, n, L
    <3>1. QED BY <1>1, <2>1
  <2> HIDE DEF p, m, new, L
  <2>9. Merged(sections, revised, k + 1, m, new)
    <3>1. \A q \in 1..L : m[q] = IF new[q] = 0 THEN sections[q] ELSE revised[new[q]]
      BY <1>1, <2>6 DEF Merged, L
    <3>2. \A q \in 1..n :
             new[q] = 0 <=> \/ q # LastWith(sections, sections[q].order)
                            \/ \A j \in 1..(k + 1) : revised[j].order # sections[q].order
      <4> SUFFICES ASSUME NEW q \in 1..n
                   PROVE  new[q] = 0 <=> \/ q # LastWith(sections, sections[q].order)
                            \/ \A j \in 1..(k + 1) : revised[j].order # sections[q].order
        OBVIOUS
      <4>1. CASE q = p
        BY <4>1, <2>1, <2>6 DEF p
      <4>2. CASE q # p
        <5>1. q \in 1..L
          BY <1>1
        <5>2. new[q] = origin[q]
          BY <4>2, <5>1, <2>6
        <5>3. origin[q] = 0 <=> \/ q # LastWith(sections, sections[q].order)
                            \/ \A j \in 1..k : revised[j].order # sections[q].order
          BY DEF Merged
        <5>4. sections[q].order = o => q # LastWith(sections, sections[q].order)
          BY <2>7, <4>2
        <5>5. QED BY <5>2, <5>3, <5>4
      <4>3. QED BY <4>1, <4>2
    <3>3. \A q \in 1..n : new[q] # 0 =>
               /\ revised[new[q]].order = sections[q].order
               /\ \A j \in 1..(k + 1) :
                      revised[j].order = sections[q].order => j <= new[q]
      <4> SUFFICES ASSUME NEW q \in 1..n, new[q] # 0
                   PROVE  /\ revised[new[q]].order = sections[q].order
                          /\ \A j \in 1..(k + 1) :
                                revised[j].order = sections[q].order => j <= new[q]
        OBVIOUS
      <4>1. CASE q = p
        BY <4>1, <2>1, <2>6
      <4>2. CASE q # p
        <5>1. q \in 1..L
          BY <1>1
        <5>2. new[q] = origin[q]
          BY <4>2, <5>1, <2>6
        <5>3. /\ revised[new[q]].order = sections[q].order
              /\ \A j \in 1..k : revised[j].order = sections[q].order => j <= new[q]
              /\ q = LastWith(sections, sections[q].order)
          BY <5>2 DEF Merged
        <5>4. o # sections[q].order
          BY <2>7, <4>2, <5>3
        <5>5. QED BY <5>3, <5>4
      <4>3. QED BY <4>1, <4>2
    <3>4. \A q \in (n + 1)..L :
               /\ new[q] # 0
               /\ \A i \in 1..n : sections[i].order # revised[new[q]].order
      BY <1>1, <2>6, <2>8 DEF Merged, L
    <3>5. \A q, r \in (n + 1)..L : new[q] = new[r] => q = r
      BY <1>1, <2>6, <2>8 DEF Merged, L
    <3>6. \A j \in 1..(k + 1) :
               (\A i \in 1..n : sections[i].order # revised[j].order) =>
               \E q \in (n + 1)..L : new[q] = j
      <4> SUFFICES ASSUME NEW j \in 1..(k + 1),
                          \A i \in 1..n : sections[i].order # revised[j].order
                   PROVE  \E q \in (n + 1)..L : new[q] = j
        OBVIOUS
      <4>1. j \in 1..k
        BY <1>2
      <4>2. PICK q \in (n + 1)..L : origin[q] = j
        BY <4>1 DEF Merged, L
      <4>3. new[q] = j
        BY <4>2, <1>1, <2>6, <2>8
      <4>4. QED BY <4>3
    <3>7. QED
      BY <1>1, <2>3, <2>5, <3>1, <3>2, <3>3, <3>4, <3>5, <3>6 DEF Merged
  <2>10. QED
    BY <2>2, <2>9
<1>3. CASE \A i \in 1..n : sections[i].order # o
  <2> DEFINE m == Append(final, section)
             new == [q \in 1..(L + 1) |-> IF q = L + 1 THEN k + 1 ELSE origin[q]]
  <2>1. Merge(sections, final, section) = m
    BY <1>1, <1>3 DEF Merge
  <2>2. Len(m) = L + 1 /\ m[L + 1] = section /\ \A q \in 1..L : m[q] = final[q]
    BY <1>1
  <2>3. new \in [1..(L + 1) -> 0..(k + 1)]
    <3> HIDE DEF L
    <3>1. QED BY <1>1
  <2>4. new[L + 1] = k + 1 /\ \A q \in 1..L : new[q] = origin[q]
    <3> HIDE DEF L
    <3>1. QED BY <1>1
  <2> HIDE DEF m, new, L
  <2>5. \A q \in 1..(L + 1) : q = L + 1 \/ q \in 1..L
    BY <1>1
  <2>6. \A q \in (n + 1)..(L + 1) : q = L + 1 \/ (q \in (n + 1)..L /\ q \in 1..L)
    <3>1. n \in Nat /\ L \in Nat
      BY <1>1 DEF L
    <3> HIDE DEF n
    <3>2. ASSUME NEW q \in (n + 1)..(L + 1), q # L + 1
          PROVE  q \in (n + 1)..L /\ q \in 1..L
      <4>1. q \in Int /\ n + 1 <= q /\ q <= L + 1
        BY <3>1
      <4>2. QED BY <3>1, <3>2, <4>1
    <3>3. QED BY <3>2
  <2>7. Merged(sections, revised, k + 1, m, new)
    <3>1. \A q \in 1..(L + 1) :
              m[q] = IF new[q] = 0 THEN sections[q] ELSE revised[new[q]]
      BY <1>1, <2>2, <2>4, <2>5 DEF Merged, L
    <3>2. \A q \in 1..n : q \in 1..L /\ new[q] = origin[q]
      BY <1>1, <2>4
    <3>3. \A q \in 1..n :
             new[q] = 0 <=> \/ q # LastWith(sections, sections[q].order)
                            \/ \A j \in 1..(k + 1) : revised[j].order # sections[q].order
      <4> SUFFICES ASSUME NEW q \in 1..n
                   PROVE  new[q] = 0 <=> \/ q # LastWith(sections, sections[q].order)
                            \/ \A j \in 1..(k + 1) : revised[j].order # sections[q].order
        OBVIOUS
      <4>1. origin[q] = 0 <=> \/ q # LastWith(sections, sections[q].order)
                            \/ \A j \in 1..k : revised[j].order # sections[q].order
        BY DEF Merged
      <4>2. QED BY <4>1, <3>2, <1>3
    <3>4. \A q \in 1..n : new[q] # 0 =>
               /\ revised[new[q]].order = sections[q].order
               /\ \A j \in 1..(k + 1) :
                      revised[j].order = sections[q].order => j <= new[q]
      <4> SUFFICES ASSUME NEW q \in 1..n, new[q] # 0
                   PROVE  /\ revised[new[q]].order = sections[q].order
                          /\ \A j \in 1..(k + 1) :
                                revised[j].order = sections[q].order => j <= new[q]
        OBVIOUS
      <4>1. /\ revised[new[q]].order = sections[q].order
            /\ \A j \in 1..k : revised[j].order = sections[q].order => j <= new[q]
        BY <3>2 DEF Merged
      <4>2. o # sections[q].order
        BY <1>3
      <4>3. QED BY <4>1, <4>2
    <3>5. \A q \in (n + 1)..(L + 1) :
               /\ new[q] # 0
               /\ \A i \in 1..n : sections[i].order # revised[new[q]].order
      <4> SUFFICES ASSUME NEW q \in (n + 1)..(L + 1)
                   PROVE  /\ new[q] # 0
                          /\ \A i \in 1..n : sections[i].order # revised[new[q]].order
        OBVIOUS
      <4>1. CASE q = L + 1
        BY <1>3, <2>4, <4>1
      <4>2. CASE q \in (n + 1)..L /\ q \in 1..L
        <5>1. new[q] = origin[q]
          BY <2>4, <4>2
        <5>2. QED BY <4>2, <5>1 DEF Merged, L
      <4>3. QED BY <2>6, <4>1, <4>2
    <3>6. \A q, r \in (n + 1)..(L + 1) : new[q] = new[r] => q = r
      <4>1. \A q \in (n + 1)..L : origin[q] \in 0..k /\ q \in 1..L
        BY <1>1
      <4>2. \A q, r \in (n + 1)..L : origin[q] = origin[r] => q = r
        BY DEF Merged, L
      <4>3. QED BY <4>1, <4>2, <2>4, <2>6
    <3>7. \A j \in 1..(k + 1) :
               (\A i \in 1..n : sections[i].order # revised[j].order) =>
               \E q \in (n + 1)..(L + 1) : new[q] = j
      <4> SUFFICES ASSUME NEW j \in 1..(k + 1),
                          \A i \in 1..n : sections[i].order # revised[j].order
                   PROVE  \E q \in (n + 1)..(L + 1) : new[q] = j
        OBVIOUS
      <4>1. CASE j = k + 1
        BY <1>1, <2>4, <4>1
      <4>2. CASE j \in 1..k
        <5>1. PICK q \in (n + 1)..L : origin[q] = j
          BY <4>2 DEF Merged, L
        <5>2. q \in 1..L /\ q \in (n + 1)..(L + 1)
          BY <1>1
        <5>3. QED BY <5>1, <5>2, <2>4
      <4>3. QED BY <4>1, <4>2
    <3>8. n <= L + 1
      BY <1>1
    <3>9. QED
      BY <2>2, <2>3, <3>1, <3>3, <3>4, <3>5, <3>6, <3>7, <3>8 DEF Merged
  <2>8. QED
    BY <2>1, <2>7
<1>4. QED
  BY <1>2, <1>3

\* Where the sections come from when every revision has been merged.
LEMMA MergedAll ==
    ASSUME NEW sections \in Seq(Section), NEW revised \in Seq(Section)
    PROVE  \E origin : Merged(sections, revised, Len(revised),
                              ReplaceOrAppend(sections, revised), origin)
<1> DEFINE N == Len(revised)
<1>1. PICK F \in [Nat -> Seq(Section)] :
          /\ F[0] = sections
          /\ \A k \in Nat : k < N => F[k + 1] = Merge(sections, F[k], revised[k + 1])
          /\ ReplaceOrAppend(sections, revised) = F[N]
  BY MergeUnrolls
<1> DEFINE Holds(k) == \E origin : Merged(sections, revised, k, F[k], origin)
           T == {k \in Nat : k <= N => Holds(k)}
<1>2. N \in Nat
  OBVIOUS
<1>3. Holds(0)
  <2> DEFINE n == Len(sections)
             origin == [q \in 1..n |-> 0]
  <2>1. n \in Nat /\ Len(F[0]) = n /\ 1..0 = {} /\ (n + 1)..n = {}
    BY <1>1
  <2>2. origin \in [1..n -> 0..0] /\ \A q \in 1..n : origin[q] = 0
    OBVIOUS
  <2> HIDE DEF origin
  <2>3. Merged(sections, revised, 0, F[0], origin)
    <3>1. \A q \in 1..n : F[0][q] = sections[q]
      BY <1>1
    <3>2. \A q \in 1..n : \A j \in 1..0 : revised[j].order # sections[q].order
      BY <2>1
    <3> HIDE DEF n
    <3>3. /\ \A q \in (n + 1)..n : FALSE
          /\ \A j \in 1..0 : FALSE
          /\ n <= n
      BY <2>1
    <3>4. QED BY <2>1, <2>2, <3>1, <3>2, <3>3 DEF Merged, n
  <2>4. QED BY <2>3
<1>4. ASSUME NEW k \in Nat, k < N, Holds(k) PROVE Holds(k + 1)
  <2>1. PICK origin : Merged(sections, revised, k, F[k], origin)
    BY <1>4
  <2>2. F[k] \in Seq(Section) /\ F[k + 1] = Merge(sections, F[k], revised[k + 1])
    BY <1>1, <1>4
  <2>3. QED BY <1>4, <2>1, <2>2, MergedStep
<1>5. 0 \in T
  <2> HIDE DEF Holds
  <2>1. QED BY <1>3
<1>6. \A k \in Nat : k \in T => k + 1 \in T
  <2> HIDE DEF Holds, N
  <2> SUFFICES ASSUME NEW k \in Nat, k \in T, k + 1 <= N PROVE Holds(k + 1)
    OBVIOUS
  <2>1. k < N /\ Holds(k)
    BY <1>2
  <2>2. QED BY <2>1, <1>4
<1>7. Nat \subseteq T
  <2> HIDE DEF T
  <2>1. QED BY <1>5, <1>6, NatSetInduction
<1>8. Holds(N)
  <2> HIDE DEF Holds
  <2>1. QED BY <1>2, <1>7
<1>9. QED
  BY <1>1, <1>8

\* The positions of sections that survive the merge, and of revisions used.
Kept(sections, revised) ==
    {i \in DOMAIN sections :
        \/ \E j \in DOMAIN sections :
               j > i /\ sections[j].order = sections[i].order
        \/ \A s \in Range(revised) : s.order # sections[i].order}

Used(sections, revised) ==
    {i \in DOMAIN revised :
        \/ revised[i].order \notin {s.order : s \in Range(sections)}
        \/ \A j \in DOMAIN revised :
               j > i => revised[j].order # revised[i].order}

\* The unsorted merge holds each kept section and each used revision once.
LEMMA MergeResult ==
    ASSUME NEW sections \in Seq(Section), NEW revised \in Seq(Section)
    PROVE  LET m == ReplaceOrAppend(sections, revised)
           IN  /\ m \in Seq(Section)
               /\ Range(m) = {sections[i] : i \in Kept(sections, revised)}
                                \cup {revised[i] : i \in Used(sections, revised)}
               /\ Len(m) = Cardinality(Kept(sections, revised))
                              + Cardinality(Used(sections, revised))
<1> DEFINE n == Len(sections)
           N == Len(revised)
           m == ReplaceOrAppend(sections, revised)
           L == Len(m)
           K == Kept(sections, revised)
           U == Used(sections, revised)
           A == K \X {0}
           B == U \X {1}
<1>1. n \in Nat /\ N \in Nat /\ DOMAIN sections = 1..n /\ DOMAIN revised = 1..N
  OBVIOUS
<1>2. m \in Seq(Section)
  <2>1. PICK F \in [Nat -> Seq(Section)] : m = F[N]
    BY MergeUnrolls
  <2>2. QED BY <1>1, <2>1
<1>3. PICK origin : Merged(sections, revised, N, m, origin)
  BY MergedAll
<1>4. L \in Nat /\ n <= L /\ DOMAIN m = 1..L /\ origin \in [1..L -> 0..N]
  BY <1>2, <1>3 DEF Merged
<1>5. \A q \in 1..L : m[q] = IF origin[q] = 0 THEN sections[q] ELSE revised[origin[q]]
  BY <1>3 DEF Merged
<1>6. \A q \in 1..n :
          q # LastWith(sections, sections[q].order)
             <=> \E j \in 1..n : j > q /\ sections[j].order = sections[q].order
  <2> SUFFICES ASSUME NEW q \in 1..n
               PROVE  q # LastWith(sections, sections[q].order)
                        <=> \E j \in 1..n : j > q /\ sections[j].order = sections[q].order
    OBVIOUS
  <2>1. /\ LastWith(sections, sections[q].order) \in 1..n
        /\ sections[LastWith(sections, sections[q].order)].order = sections[q].order
        /\ \A i \in 1..n : sections[i].order = sections[q].order
                              => i <= LastWith(sections, sections[q].order)
    BY <1>1, LastWithFacts
  <2>2. QED BY <1>1, <2>1
<1>7. \A q \in 1..n : origin[q] = 0 <=> q \in K
  <2> SUFFICES ASSUME NEW q \in 1..n PROVE origin[q] = 0 <=> q \in K
    OBVIOUS
  <2>1. (\A s \in Range(revised) : s.order # sections[q].order)
           <=> \A j \in 1..N : revised[j].order # sections[q].order
    BY <1>1 DEF Range
  <2>2. QED BY <1>1, <1>3, <1>6, <2>1 DEF Merged, Kept
<1>8. \A j \in 1..N : revised[j].order \notin {s.order : s \in Range(sections)}
                         <=> \A i \in 1..n : sections[i].order # revised[j].order
  BY <1>1 DEF Range
<1>9. \A q \in 1..n : origin[q] # 0 =>
          /\ revised[origin[q]].order = sections[q].order
          /\ \A j \in 1..N : revised[j].order = sections[q].order => j <= origin[q]
          /\ q = LastWith(sections, sections[q].order)
  BY <1>3 DEF Merged
<1>10. \A q \in (n + 1)..L :
          /\ origin[q] # 0
          /\ \A i \in 1..n : sections[i].order # revised[origin[q]].order
  BY <1>3 DEF Merged
<1>11. \A q \in 1..L : q \in 1..n \/ q \in (n + 1)..L
  BY <1>1, <1>4
<1>12. \A q \in 1..L : origin[q] # 0 => origin[q] \in U /\ origin[q] \in 1..N
  <2> SUFFICES ASSUME NEW q \in 1..L, origin[q] # 0
               PROVE  origin[q] \in U /\ origin[q] \in 1..N
    OBVIOUS
  <2>1. origin[q] \in 1..N
    BY <1>1, <1>4
  <2>2. CASE q \in 1..n
    BY <1>1, <1>9, <2>1, <2>2 DEF Used
  <2>3. CASE q \in (n + 1)..L
    BY <1>1, <1>8, <1>10, <2>1, <2>3 DEF Used
  <2>4. QED BY <1>11, <2>1, <2>2, <2>3
<1>13. \A j \in U : \E q \in 1..L : origin[q] = j
  <2> SUFFICES ASSUME NEW j \in U PROVE \E q \in 1..L : origin[q] = j
    OBVIOUS
  <2>1. j \in 1..N
    BY <1>1 DEF Used
  <2>2. CASE \A i \in 1..n : sections[i].order # revised[j].order
    <3>1. PICK q \in (n + 1)..L : origin[q] = j
      BY <1>3, <2>1, <2>2 DEF Merged
    <3>2. q \in 1..L
      BY <1>1, <1>4
    <3>3. QED BY <3>1, <3>2
  <2>3. CASE \E i \in 1..n : sections[i].order = revised[j].order
    <3> DEFINE p == LastWith(sections, revised[j].order)
    <3>1. p \in 1..n /\ sections[p].order = revised[j].order
      BY <1>1, <2>3, LastWithFacts
    <3>2. p = LastWith(sections, sections[p].order)
      BY <3>1
    <3> HIDE DEF p
    <3>3. origin[p] # 0
      BY <1>3, <2>1, <3>1, <3>2 DEF Merged
    <3>4. p \in 1..L
      BY <1>1, <1>4, <3>1
    <3>5. /\ origin[p] \in 1..N /\ j <= origin[p]
          /\ revised[origin[p]].order = revised[j].order
      BY <1>9, <1>12, <2>1, <3>1, <3>3, <3>4
    <3>6. \A i \in 1..N : i > j => revised[i].order # revised[j].order
      BY <1>1, <1>8, <2>1, <2>3 DEF Used
    <3>7. origin[p] = j
      BY <2>1, <3>5, <3>6
    <3>8. QED BY <3>4, <3>7
  <2>4. QED BY <2>2, <2>3
<1>14. \A q, r \in 1..L : origin[q] # 0 /\ origin[q] = origin[r] => q = r
  <2> SUFFICES ASSUME NEW q \in 1..L, NEW r \in 1..L,
                      origin[q] # 0, origin[q] = origin[r]
               PROVE  q = r
    OBVIOUS
  <2>1. CASE q \in 1..n /\ r \in 1..n
    BY <1>9, <2>1
  <2>2. CASE q \in (n + 1)..L /\ r \in (n + 1)..L
    BY <1>3, <2>2 DEF Merged
  <2>3. CASE q \in 1..n /\ r \in (n + 1)..L
    BY <1>9, <1>10, <2>3
  <2>4. CASE q \in (n + 1)..L /\ r \in 1..n
    BY <1>9, <1>10, <2>4
  <2>5. QED BY <1>11, <2>1, <2>2, <2>3, <2>4
<1>15. \A q \in 1..L : origin[q] = 0 => q \in 1..n /\ q \in K
  BY <1>7, <1>10, <1>11
<1>16. K \subseteq 1..n /\ U \subseteq 1..N
  BY <1>1 DEF Kept, Used
<1>17. \A i \in K : i \in 1..L /\ origin[i] = 0
  BY <1>1, <1>4, <1>7, <1>16
<1> DEFINE h == [q \in 1..L |-> IF origin[q] = 0 THEN <<q, 0>> ELSE <<origin[q], 1>>]
<1>18. h \in Bijection(1..L, A \cup B)
  <2> HIDE DEF L, K, U, N, n
  <2>1. \A q \in 1..L : h[q] \in A \cup B
    BY <1>12, <1>15
  <2>2. \A q, r \in 1..L : h[q] = h[r] => q = r
    BY <1>14
  <2>3. \A a \in A : \E q \in 1..L : h[q] = a
    <3>1. ASSUME NEW a \in A PROVE \E q \in 1..L : h[q] = a
      <4>1. PICK i \in K : a = <<i, 0>>
        OBVIOUS
      <4>2. i \in 1..L /\ h[i] = <<i, 0>>
        BY <1>17
      <4>3. QED BY <4>1, <4>2
    <3>2. QED BY <3>1
  <2>4. \A b \in B : \E q \in 1..L : h[q] = b
    <3>1. ASSUME NEW b \in B PROVE \E q \in 1..L : h[q] = b
      <4> PICK j \in U : b = <<j, 1>>
        OBVIOUS
      <4>1. PICK q \in 1..L : origin[q] = j
        BY <1>13
      <4>2. j # 0
        BY <1>1, <1>16
      <4>3. h[q] = <<j, 1>>
        BY <4>1, <4>2
      <4>4. QED BY <4>3
    <3>2. QED BY <3>1
  <2>5. h \in [1..L -> A \cup B]
    BY <2>1
  <2> HIDE DEF h
  <2>6. QED BY <2>2, <2>3, <2>4, <2>5 DEF Bijection, Injection, Surjection, IsInjective
<1>19. IsFiniteSet(1..L) /\ Cardinality(1..L) = L
  <2> HIDE DEF L
  <2>1. QED BY <1>4, FS_Interval
<1>20. IsFiniteSet(K) /\ IsFiniteSet(U)
  <2>1. IsFiniteSet(1..n) /\ IsFiniteSet(1..N)
    BY <1>1, FS_Interval
  <2>2. QED BY <1>16, <2>1, FS_Subset
<1>21. /\ IsFiniteSet(A) /\ Cardinality(A) = Cardinality(K)
       /\ IsFiniteSet(B) /\ Cardinality(B) = Cardinality(U)
  <2>1. /\ IsFiniteSet({0}) /\ Cardinality({0}) = 1
        /\ IsFiniteSet({1}) /\ Cardinality({1}) = 1
    BY FS_Singleton
  <2>2. Cardinality(K) \in Nat /\ Cardinality(U) \in Nat
    BY <1>20, FS_CardinalityType
  <2> HIDE DEF K, U
  <2>3. IsFiniteSet(A) /\ Cardinality(A) = Cardinality(K) * 1
    BY <1>20, <2>1, FS_Product
  <2>4. IsFiniteSet(B) /\ Cardinality(B) = Cardinality(U) * 1
    BY <1>20, <2>1, FS_Product
  <2>5. QED BY <2>2, <2>3, <2>4
<1>22. A \cap B = {}
  OBVIOUS
<1>23. L = Cardinality(K) + Cardinality(U)
  <2> HIDE DEF A, B, h, K, U, L
  <2>1. Cardinality({}) = 0
    BY FS_EmptySet
  <2>2. Cardinality(A \cup B) = Cardinality(A) + Cardinality(B) - 0
    BY <1>21, <1>22, <2>1, FS_Union
  <2>3. ExistsBijection(1..L, A \cup B)
    BY <1>18 DEF ExistsBijection
  <2>4. Cardinality(A \cup B) = L
    BY <1>19, <2>3, FS_Bijection
  <2>5. Cardinality(K) \in Nat /\ Cardinality(U) \in Nat
    BY <1>20, FS_CardinalityType
  <2>6. QED BY <1>21, <2>2, <2>4, <2>5
<1>24. Range(m) = {sections[i] : i \in K} \cup {revised[i] : i \in U}
  <2> HIDE DEF K, U, L, n, N
  <2>1. ASSUME NEW x \in Range(m)
        PROVE  x \in {sections[i] : i \in K} \cup {revised[i] : i \in U}
    <3>1. PICK q \in 1..L : x = m[q]
      BY <1>4 DEF Range
    <3>2. QED BY <1>5, <1>12, <1>15, <3>1
  <2>2. ASSUME NEW i \in K PROVE sections[i] \in Range(m)
    BY <1>4, <1>5, <1>17 DEF Range
  <2>3. ASSUME NEW i \in U PROVE revised[i] \in Range(m)
    <3>1. PICK q \in 1..L : origin[q] = i
      BY <1>13
    <3>2. i # 0
      BY <1>1, <1>16
    <3>3. m[q] = revised[i]
      BY <1>5, <3>1, <3>2
    <3>4. QED BY <1>4, <3>3 DEF Range
  <2> HIDE DEF m
  <2>4. QED BY <2>1, <2>2, <2>3
<1>25. QED
  BY <1>2, <1>23, <1>24

\* Sorting rearranges a list of sections: nothing is lost or added, and no
\* section stands before one of a smaller order.
LEMMA SortedFacts ==
    ASSUME NEW s \in Seq(Section)
    PROVE  /\ SortedByOrder(s) \in Seq(Section)
           /\ Len(SortedByOrder(s)) = Len(s)
           /\ Range(SortedByOrder(s)) = Range(s)
           /\ \A k \in 1..(Len(s) - 1) :
                  SortedByOrder(s)[k].order <= SortedByOrder(s)[k + 1].order
<1> DEFINE L == Len(s)
           Before(i, j) == \/ s[i].order < s[j].order
                           \/ s[i].order = s[j].order /\ i < j
           B(i) == {j \in DOMAIN s : Before(j, i)}
           Rank(i) == Cardinality(B(i)) + 1
           t == SortedByOrder(s)
<1>1. L \in Nat /\ DOMAIN s = 1..L
  OBVIOUS
<1>2. \A i \in 1..L : s[i].order \in Nat
  <2>1. \A i \in 1..L : s[i] \in Section
    BY <1>1
  <2>2. QED BY <2>1, SizeAssumption DEF Section
<1>3. \A i, j \in 1..L : Before(i, j) \/ Before(j, i) \/ i = j
  BY <1>2
<1>4. \A i \in 1..L : ~Before(i, i)
  BY <1>2
<1>5. \A i, j, k \in 1..L : Before(i, j) /\ Before(j, k) => Before(i, k)
  BY <1>2
<1>6. IsFiniteSet(1..L) /\ Cardinality(1..L) = L
  <2> HIDE DEF L
  <2>1. QED BY <1>1, FS_Interval
<1>7. \A i \in 1..L : IsFiniteSet(B(i)) /\ Cardinality(B(i)) \in 0..(L - 1)
  <2> SUFFICES ASSUME NEW i \in 1..L
               PROVE  IsFiniteSet(B(i)) /\ Cardinality(B(i)) \in 0..(L - 1)
    OBVIOUS
  <2> DEFINE W == (1..L) \ {i}
  <2>1. IsFiniteSet(W) /\ Cardinality(W) = L - 1
    <3> HIDE DEF L
    <3>1. QED BY <1>1, <1>6, FS_RemoveElement
  <2>2. B(i) \in SUBSET W
    BY <1>1, <1>4
  <2> HIDE DEF B, W, L
  <2>3. IsFiniteSet(B(i)) /\ Cardinality(B(i)) <= Cardinality(W)
    BY <2>1, <2>2, FS_Subset
  <2>4. Cardinality(B(i)) \in Nat
    BY <2>3, FS_CardinalityType
  <2>5. QED BY <1>1, <2>1, <2>3, <2>4
<1>8. \A i \in 1..L : Rank(i) \in 1..L
  <2> HIDE DEF B, L
  <2>1. QED BY <1>1, <1>7
<1>9. ASSUME NEW i \in 1..L, NEW j \in 1..L, Before(i, j)
      PROVE  Rank(i) < Rank(j)
  <2>1. B(i) \in SUBSET B(j) /\ i \in B(j) /\ i \notin B(i)
    BY <1>1, <1>4, <1>5, <1>9
  <2> HIDE DEF B, Before, L
  <2>2. /\ Cardinality(B(i)) <= Cardinality(B(j))
        /\ Cardinality(B(j)) = Cardinality(B(i)) => B(j) = B(i)
    BY <1>7, <2>1, FS_Subset
  <2>3. Cardinality(B(j)) # Cardinality(B(i))
    BY <2>1, <2>2
  <2>4. Cardinality(B(i)) \in Nat /\ Cardinality(B(j)) \in Nat
    BY <1>7, FS_CardinalityType
  <2>5. QED BY <2>2, <2>3, <2>4
<1>10. \A i, j \in 1..L : Rank(i) = Rank(j) => i = j
  <2> SUFFICES ASSUME NEW i \in 1..L, NEW j \in 1..L, Rank(i) = Rank(j)
               PROVE  i = j
    OBVIOUS
  <2>1. Rank(i) \in Nat /\ Rank(j) \in Nat
    <3> HIDE DEF Rank
    <3>1. QED BY <1>8
  <2> HIDE DEF Rank, Before
  <2>2. QED BY <1>3, <1>9, <2>1
<1> DEFINE r == [i \in 1..L |-> Rank(i)]
<1>11. r \in Injection(1..L, 1..L)
  <2> HIDE DEF Rank, L
  <2>1. QED BY <1>8, <1>10 DEF Injection, IsInjective
<1>12. \A k \in 1..L : \E i \in 1..L : Rank(i) = k
  <2>1. r \in Surjection(1..L, 1..L)
    <3> HIDE DEF r, L
    <3>1. QED BY <1>6, <1>11, FS_Injection
  <2>2. \A k \in 1..L : \E i \in 1..L : r[i] = k
    BY <2>1 DEF Surjection
  <2> HIDE DEF Rank, L
  <2>3. QED BY <2>2
<1> DEFINE at(k) == CHOOSE i \in DOMAIN s : Rank(i) = k
<1>13. t = [k \in 1..L |-> s[at(k)]]
  BY <1>1 DEF SortedByOrder
<1>14. \A k \in 1..L : at(k) \in 1..L /\ Rank(at(k)) = k
  <2> HIDE DEF Rank, L
  <2>1. QED BY <1>1, <1>12
<1>15. \A i \in 1..L : at(Rank(i)) = i
  <2> SUFFICES ASSUME NEW i \in 1..L PROVE at(Rank(i)) = i
    OBVIOUS
  <2>1. at(Rank(i)) \in 1..L /\ Rank(at(Rank(i))) = Rank(i)
    BY <1>8, <1>14
  <2> HIDE DEF Rank, at
  <2>2. QED BY <1>10, <2>1
<1> HIDE DEF Rank, at
<1>16. t \in [1..L -> Section]
  BY <1>1, <1>13, <1>14
<1>17. t \in Seq(Section) /\ Len(t) = L
  <2> HIDE DEF t, L
  <2>1. QED BY <1>1, <1>16
<1>18. Range(t) = Range(s)
  <2>1. ASSUME NEW x \in Range(t) PROVE x \in Range(s)
    BY <1>1, <1>13, <1>14 DEF Range
  <2>2. ASSUME NEW x \in Range(s) PROVE x \in Range(t)
    <3>1. PICK i \in 1..L : x = s[i]
      BY <1>1 DEF Range
    <3>2. Rank(i) \in 1..L /\ t[Rank(i)] = s[i]
      BY <1>8, <1>13, <1>15
    <3>3. QED BY <1>16, <3>1, <3>2 DEF Range
  <2> HIDE DEF t
  <2>3. QED BY <2>1, <2>2
<1>19. ASSUME NEW k \in 1..(L - 1) PROVE t[k].order <= t[k + 1].order
  <2>1. k \in 1..L /\ k + 1 \in 1..L
    <3> HIDE DEF L
    <3>1. QED BY <1>1
  <2>2. /\ at(k) \in 1..L /\ Rank(at(k)) = k
        /\ at(k + 1) \in 1..L /\ Rank(at(k + 1)) = k + 1
    BY <1>14, <2>1
  <2>3. ~Before(at(k + 1), at(k))
    <3> HIDE DEF Before, L
    <3>1. ~(k + 1 < k)
      BY <2>1
    <3>2. QED BY <1>9, <2>2, <3>1
  <2>4. ~(s[at(k + 1)].order < s[at(k)].order)
    BY <2>3
  <2>5. t[k] = s[at(k)] /\ t[k + 1] = s[at(k + 1)]
    BY <1>13, <2>1
  <2>6. QED BY <1>2, <2>2, <2>4, <2>5
<1>20. QED
  <2>1. SortedByOrder(s) = t
    OBVIOUS
  <2> HIDE DEF t
  <2>2. /\ t \in Seq(Section) /\ Len(t) = Len(s) /\ Range(t) = Range(s)
        /\ \A k \in 1..(Len(s) - 1) : t[k].order <= t[k + 1].order
    BY <1>17, <1>18, <1>19
  <2>3. QED BY <2>1, <2>2

\* What the merge of any reviewed answer into any list of sections returns.
LEMMA ResolvedAsReviewed ==
    ASSUME NEW sections \in Seq(Section), NEW revised \in Seq(Section), revised # <<>>
    PROVE  LET final == Resolve(sections, revised)
           IN  /\ Range(final) = {sections[i] : i \in Kept(sections, revised)}
                                    \cup {revised[i] : i \in Used(sections, revised)}
               /\ Len(final) = Cardinality(Kept(sections, revised))
                                  + Cardinality(Used(sections, revised))
               /\ \A i \in 1..(Len(final) - 1) : final[i].order <= final[i + 1].order
<1> DEFINE m == ReplaceOrAppend(sections, revised)
<1>1. m \in Seq(Section)
  BY MergeResult
<1>2. Resolve(sections, revised) = SortedByOrder(m)
  BY DEF Resolve
<1>3. /\ Range(m) = {sections[i] : i \in Kept(sections, revised)}
                       \cup {revised[i] : i \in Used(sections, revised)}
      /\ Len(m) = Cardinality(Kept(sections, revised))
                     + Cardinality(Used(sections, revised))
  BY MergeResult
<1> HIDE DEF m
<1>4. /\ Len(SortedByOrder(m)) = Len(m)
      /\ Range(SortedByOrder(m)) = Range(m)
      /\ \A k \in 1..(Len(m) - 1) :
             SortedByOrder(m)[k].order <= SortedByOrder(m)[k + 1].order
  BY <1>1, SortedFacts
<1>5. QED
  BY <1>2, <1>3, <1>4

\* In every state the sections a script is built from are what the merge of
\* the reviewed sections should give, whatever the writer and the reviewer
\* answered and in whatever order: the loop of _resolve_final_sections does
\* what its rule says for lists of every length.
THEOREM ReviewMerged == Spec => []MergedAsReviewed
<1>1. TypeOK => MergedAsReviewed
  <2> SUFFICES ASSUME TypeOK, st.revised # <<>> PROVE MergedAsReviewed
    BY DEF MergedAsReviewed
  <2>1. st.sections \in Seq(Section) /\ st.revised \in Seq(Section)
    BY DEF TypeOK, State
  <2>2. QED
    BY <2>1, ResolvedAsReviewed DEF MergedAsReviewed, FinalSections, Kept, Used
<1>2. QED
  BY <1>1, AdaptationTypeCorrect, PTL
=============================================================================
