---------------------------- MODULE CopyAdaptation ----------------------------
(***************************************************************************)
(* src/kyrg/workflows/copyadaptation: the graph that writes an adapted     *)
(* script, has it reviewed and validated, and corrects it a bounded number *)
(* of times.  One action per node; the run, its failure and its resumption *)
(* from a checkpoint are WorkflowBase.start.                               *)
(***************************************************************************)
EXTENDS StructuredCall, SequencesExt

CONSTANTS
    Orders,        \* bound: the positions an answer gives to its sections
    MaxSections,   \* bound: sections in one answer
    MaxRetry,      \* CopyAdaptationWorkflowContext.max_retry
    Checkpointer,  \* the backend given to WorkflowBase
    MaxStarts,     \* bound: how often start() is called
    None

ASSUME SizeAssumption == Orders \subseteq Nat /\ MaxSections \in Nat
ASSUME RetryAssumption == MaxRetry \in Nat /\ MaxStarts \in Nat
ASSUME CheckpointerAssumption == Checkpointer \in {"none", "memory", "durable"}
ASSUME RolesAssumption ==
    {"strategy", "writing", "review", "validation"} \subseteq Roles

VARIABLES
    phase,       \* of the latest start(): "new", "running", "failed", "done"
    st,          \* CopyAdaptationState and the node to run next
    checkpoint,  \* what the saver holds for this thread_id
    starts,      \* calls of start()
    judged,      \* history: the sections the validator last saw
    script       \* adapted_script

vars == <<phase, st, checkpoint, starts, judged, script, callVars>>

Nodes == {"prepare", "strategy", "write", "review", "correct_section",
          "validate", "correct_script", "build", "end"}

\* The text of a section is which draft it belongs to, who wrote it and where
\* in the answer it stood.
Section == [order : Orders, draft : Nat, by : {"writer", "reviewer"}, at : Nat]

\* "instructed": flow_issues and revision_instructions are both non-empty;
\* "errors": validation_errors is; "notes": the draft that missing_proofs and
\* adaptation_notes came with.  "charged" is history: what the providers
\* charged for the completed nodes.
State == [next            : Nodes,
          language        : BOOLEAN,
          sections        : Seq(Section),
          revised         : Seq(Section),
          approved        : BOOLEAN,
          instructed      : BOOLEAN,
          section_retries : Nat,
          passed          : BOOLEAN,
          errors          : BOOLEAN,
          script_retries  : Nat,
          notes           : Nat,
          tokens          : Nat,
          charged         : Nat]

ASSUME NoneAssumption == None \notin State

InitialState(language) ==
    [next |-> "prepare", language |-> language, sections |-> <<>>,
     revised |-> <<>>, approved |-> FALSE, instructed |-> FALSE,
     section_retries |-> 0, passed |-> FALSE, errors |-> FALSE,
     script_retries |-> 0, notes |-> 0, tokens |-> 0, charged |-> 0]

Init ==
    /\ phase = "new"
    /\ \E language \in BOOLEAN : st = InitialState(language)
    /\ checkpoint = None
    /\ starts = 0
    /\ judged = <<>>
    /\ script = None
    /\ CallInit

-----------------------------------------------------------------------------
\* _resolve_final_sections

\* Mutant: the first section of an order gives way, not the last.
FirstWith(sections, order) ==
    Min({i \in DOMAIN sections : sections[i].order = order})

\* dict of the order of each section to the last position that has it
LastWith(sections, order) ==
    Max({i \in DOMAIN sections : sections[i].order = order})

ReplaceOrAppend(sections, revised) ==
    FoldLeft(LAMBDA final, section :
                 IF \E i \in DOMAIN sections : sections[i].order = section.order
                 THEN [final EXCEPT ![LastWith(sections, section.order)] = section]
                 ELSE Append(final, section),
             sections, revised)

\* sorted() is stable
SortedByOrder(s) ==
    LET Before(i, j) == \/ s[i].order < s[j].order
                        \/ s[i].order = s[j].order /\ i < j
        Rank(i) == Cardinality({j \in DOMAIN s : Before(j, i)}) + 1
    IN  [k \in DOMAIN s |-> s[CHOOSE i \in DOMAIN s : Rank(i) = k]]

Resolve(sections, revised) ==
    IF revised = <<>> THEN sections
    ELSE SortedByOrder(ReplaceOrAppend(sections, revised))

FinalSections == Resolve(st.sections, st.revised)

-----------------------------------------------------------------------------
\* Drafts are numbered by the corrections behind them.
Draft(s) == 1 + s.section_retries + s.script_retries

Orderings == UNION {[1..n -> Orders] : n \in 0..MaxSections}

Written(orders, draft, by) ==
    [i \in DOMAIN orders |->
        [order |-> orders[i], draft |-> draft, by |-> by, at |-> i]]

\* The writer's answer replaces the sections and what was said about them.
NewDraft(s, orders) ==
    [s EXCEPT !.sections = Written(orders, Draft(s), "writer"),
              !.notes = Draft(s)]

\* Mutant: one correction too many.
PrimaryRouteOnceMore(approved) ==
    IF ~approved /\ st.section_retries <= MaxRetry
    THEN "correct_section" ELSE "validate"

PrimaryRoute(approved) ==
    IF ~approved /\ st.section_retries < MaxRetry
    THEN "correct_section" ELSE "validate"

\* Mutant: compares the other correction's counter.
SecondaryRouteWrongCounter(passed) ==
    IF ~passed /\ st.section_retries < MaxRetry
    THEN "correct_script" ELSE "build"

SecondaryRoute(passed) ==
    IF ~passed /\ st.script_retries < MaxRetry
    THEN "correct_script" ELSE "build"

At(node) == phase = "running" /\ st.next = node

\* What require_value and require_non_empty ask of the node to run next.
InputsPresent ==
    CASE st.next = "prepare" -> st.language
      [] st.next \in {"review", "validate", "build"} -> st.sections # <<>>
      [] st.next = "correct_section" -> st.sections # <<>> /\ st.instructed
      [] st.next = "correct_script" -> st.sections # <<>> /\ st.errors
      [] OTHER -> TRUE

RoleOf(node) ==
    CASE node = "strategy" -> "strategy"
      [] node \in {"write", "correct_section", "correct_script"} -> "writing"
      [] node = "review" -> "review"
      [] OTHER -> "validation"

LLMNodes == {"strategy", "write", "review", "correct_section", "validate",
             "correct_script"}

\* The graph merges a node's update and checkpoints the result.
Commit(update) ==
    /\ st' = update
    /\ checkpoint' = IF Checkpointer = "none" THEN None ELSE update

\* A node whose call succeeds adds the adapter's usage to the token fields.
Answered(update) ==
    LET role == RoleOf(st.next)
    IN  \E tokens \in Charges :
            /\ ValidAnswer(role, tokens)
            /\ Commit([update EXCEPT !.tokens = @ + usage'[role],
                                     !.charged = @ + charged + tokens])

-----------------------------------------------------------------------------
\* Mutant: every start gets the initial state as its input.
SavedIgnored == None

\* WorkflowBase.start: MemoryCheckpointer.create() builds an empty saver, the
\* other backends read the one of earlier starts.
Saved == IF Checkpointer = "durable" THEN checkpoint ELSE None

\* A checkpoint means no input: the graph goes on from it.
Start ==
    /\ phase \in {"new", "failed"}
    /\ starts < MaxStarts
    /\ starts' = starts + 1
    /\ phase' = "running"
    /\ IF Saved # None
       THEN st' = Saved /\ UNCHANGED <<checkpoint, judged>>
       ELSE Commit(InitialState(st.language)) /\ judged' = <<>>
    /\ TakeAdapters
    /\ UNCHANGED <<attempt, charged, calls, script>>

\* A node that raises ends start() with its exception.
Raise == phase' = "failed" /\ UNCHANGED <<st, checkpoint, starts, judged, script>>

MissingInput ==
    /\ phase = "running"
    /\ ~InputsPresent
    /\ Raise
    /\ UNCHANGED callVars

CallFails ==
    /\ phase = "running"
    /\ st.next \in LLMNodes
    /\ InputsPresent
    /\ GiveUp(RoleOf(st.next)) \/ ProviderError
    /\ Raise

CallRepeats ==
    /\ phase = "running"
    /\ st.next \in LLMNodes
    /\ InputsPresent
    /\ AskAgain(RoleOf(st.next))
    /\ UNCHANGED <<phase, st, checkpoint, starts, judged, script>>

Continues == UNCHANGED <<phase, starts, script>>

Prepare ==
    /\ At("prepare") /\ InputsPresent
    /\ Commit([st EXCEPT !.next = "strategy"])
    /\ Continues
    /\ UNCHANGED <<judged, callVars>>

BuildStrategy ==
    /\ At("strategy")
    /\ Answered([st EXCEPT !.next = "write"])
    /\ Continues
    /\ UNCHANGED judged

WriteSections ==
    /\ At("write")
    /\ \E orders \in Orderings :
           Answered([NewDraft(st, orders) EXCEPT !.next = "review"])
    /\ Continues
    /\ UNCHANGED judged

\* The reviewer returns the sections it touched up next to its verdict.
ReviewFlow ==
    /\ At("review") /\ InputsPresent
    /\ \E approved, instructed \in BOOLEAN, orders \in Orderings :
           Answered([st EXCEPT !.approved = approved,
                               !.instructed = instructed,
                               !.revised = Written(orders, Draft(st), "reviewer"),
                               !.next = PrimaryRoute(approved)])
    /\ Continues
    /\ UNCHANGED judged

\* Mutant: the retry is not counted.
CorrectSectionUncounted ==
    /\ At("correct_section") /\ InputsPresent
    /\ \E orders \in Orderings :
           Answered([NewDraft(st, orders) EXCEPT
                         !.revised = <<>>, !.next = "review"])
    /\ Continues
    /\ UNCHANGED judged

CorrectSection ==
    /\ At("correct_section") /\ InputsPresent
    /\ \E orders \in Orderings :
           LET corrected == [st EXCEPT !.section_retries = @ + 1]
           IN  Answered([NewDraft(corrected, orders) EXCEPT
                             !.revised = <<>>, !.next = "review"])
    /\ Continues
    /\ UNCHANGED judged

Validate ==
    /\ At("validate") /\ InputsPresent
    /\ \E passed, errors \in BOOLEAN :
           Answered([st EXCEPT !.passed = passed,
                               !.errors = errors,
                               !.next = SecondaryRoute(passed)])
    /\ judged' = FinalSections
    /\ Continues

\* Mutant: the reviewer's revisions of the old draft stay.
CorrectScriptKeepsRevisions ==
    /\ At("correct_script") /\ InputsPresent
    /\ \E orders \in Orderings :
           LET corrected == [st EXCEPT !.script_retries = @ + 1]
           IN  Answered([NewDraft(corrected, orders) EXCEPT !.next = "validate"])
    /\ Continues
    /\ UNCHANGED judged

\* Mutant: the last correction is delivered without another validation.
CorrectScriptUnvalidated ==
    /\ At("correct_script") /\ InputsPresent
    /\ \E orders \in Orderings :
           LET corrected == [st EXCEPT !.script_retries = @ + 1]
           IN  Answered([NewDraft(corrected, orders) EXCEPT
                             !.revised = <<>>, !.next = "build"])
    /\ Continues
    /\ UNCHANGED judged

CorrectScript ==
    /\ At("correct_script") /\ InputsPresent
    /\ \E orders \in Orderings :
           LET corrected == [st EXCEPT !.script_retries = @ + 1]
           IN  Answered([NewDraft(corrected, orders) EXCEPT
                             !.revised = <<>>, !.next = "validate"])
    /\ Continues
    /\ UNCHANGED judged

BuildOutput ==
    /\ At("build") /\ InputsPresent
    /\ script' = [sections |-> FinalSections, passed |-> st.passed,
                  notes |-> st.notes]
    /\ Commit([st EXCEPT !.next = "end"])
    /\ phase' = "done"
    /\ UNCHANGED <<starts, judged, callVars>>

Work == \/ Prepare \/ BuildStrategy \/ WriteSections \/ ReviewFlow
        \/ CorrectSection \/ Validate \/ CorrectScript \/ BuildOutput
        \/ CallRepeats \/ CallFails \/ MissingInput

Next == Start \/ Work

\* A provider's SDK answers or times out; nothing obliges a caller to start a
\* failed run again.
Spec == Init /\ [][Next]_vars /\ WF_vars(Work)

-----------------------------------------------------------------------------
TypeOK ==
    /\ phase \in {"new", "running", "failed", "done"}
    /\ st \in State
    /\ checkpoint \in State \cup {None}
    /\ starts \in Nat
    /\ attempt \in 0..(MaxAttempts - 1)
    /\ usage \in [Roles -> Nat]
    /\ charged \in Nat
    /\ calls \in Nat

\* The script is put together from one draft: a revision the reviewer wrote
\* for an earlier draft is never merged into a corrected one, and the missing
\* proofs and notes are those of the draft they are delivered with.
OneDraft ==
    /\ \A s \in Range(st.sections) \cup Range(st.revised) : s.draft = Draft(st)
    /\ st.sections # <<>> => st.notes = Draft(st)

\* The verdict delivered with a script was given on exactly the sections that
\* are delivered, and on all of them.
VerdictIsAboutScript ==
    script # None => script.sections = judged /\ script.passed = st.passed

\* A script is delivered as rejected, or after a flow the reviewer did not
\* approve, only when that correction's budget is spent.
RejectedOnlyWhenSpent ==
    script # None =>
        /\ ~st.passed => st.script_retries = MaxRetry
        /\ ~st.approved => st.section_retries = MaxRetry

\* Answers the graph has accepted when it is at a state, counted from the node
\* it stands before and from its corrections.
Accepted(s) ==
    LET base == 2 * (s.section_retries + s.script_retries)
    IN  CASE s.next \in {"prepare", "strategy"} -> 0
          [] s.next = "write" -> 1
          [] s.next = "review" -> base + 2
          [] s.next \in {"correct_section", "validate"} -> base + 3
          [] OTHER -> base + 4

\* Requests stay within max_attempts for each accepted answer and for each
\* start that failed, and accepted answers within the budget of corrections,
\* over every start of a thread with a durable checkpointer.
CallsBounded ==
    Checkpointer = "durable" \/ MaxStarts = 1 =>
        /\ calls <= MaxAttempts * (Accepted(st) + starts)
        /\ Accepted(st) <= 4 + 4 * MaxRetry

\* The tokens a workflow reports never exceed what its completed nodes were
\* charged, when every answer carries its usage: an adapter's usage is that of
\* its latest call and is counted once.
TokensNotInflated == UsageReported => st.tokens <= st.charged

\* What the merge of reviewed sections returns, stated without the loop:
\* sections in order; each known order's last section gives way to the last
\* revision of that order; revisions of new orders are all added.
MergedAsReviewed ==
    LET sections == st.sections
        revised == st.revised
        known == {s.order : s \in Range(sections)}
        kept == {i \in DOMAIN sections :
                    \/ \E j \in DOMAIN sections :
                           j > i /\ sections[j].order = sections[i].order
                    \/ \A s \in Range(revised) : s.order # sections[i].order}
        used == {i \in DOMAIN revised :
                    \/ revised[i].order \notin known
                    \/ \A j \in DOMAIN revised :
                           j > i => revised[j].order # revised[i].order}
    IN  sections # <<>> /\ revised # <<>> =>
            /\ Range(FinalSections) = {sections[i] : i \in kept}
                                         \cup {revised[i] : i \in used}
            /\ Len(FinalSections) = Cardinality(kept) + Cardinality(used)
            /\ \A i \in 1..(Len(FinalSections) - 1) :
                   FinalSections[i].order <= FinalSections[i + 1].order

\* A node that completed is not run again by a later start of the same
\* thread: its answer and its tokens are kept.
NothingRedone == [][Accepted(st') >= Accepted(st)]_st

\* Every start ends, with a script or with an exception.
EachRunEnds == (phase = "running") ~> (phase \in {"failed", "done"})
=============================================================================
