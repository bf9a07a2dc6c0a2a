----------------------------- MODULE RenovaChat -----------------------------
(***************************************************************************)
(* Questions about Renova cases in one conversation of one user            *)
(* (RenovaChatService.ask), while others reassign, archive and edit the    *)
(* cases.                                                                  *)
(*                                                                         *)
(* An ask loads its conversation, lets the classifier turn the text into   *)
(* an intent, reads the cases with the caller's scope, and stores question *)
(* and answer in one transaction.  Abstracted: a text is what the          *)
(* deterministic rules make of it; an answer is the cases it was read from *)
(* (named, counted, listed), not its wording or the figures in it.  The    *)
(* intents that read one field of a case are one, "case_field".            *)
(***************************************************************************)
EXTENDS RenovaAccess, Integers, Sequences, FiniteSets, FiniteSetsExt

CONSTANTS
    Asks,       \* POST .../messages requests
    Asker,      \* whose conversation it is
    Cases,      \* the organization's cases
    Rows,       \* Rows[c]: what case c may be
    Parsed,     \* what the classifier answers: see ParsedRenovaQuestion
    Names,      \* owner names, and what users type for them
    Within,     \* <<n, m>> : n occurs in m, ignoring letter case
    MatchLimit, \* rows of a search by name (6)
    ListLimit,  \* rows of a list (20)
    RateLimit,  \* ai_user_rate_limit_per_minute
    MaxMinutes  \* bound on the clock

DebtFields == {"property_tax", "other", "water", "electricity", "gas"}

Row == [name : Names, status : Statuses, archived : BOOLEAN, assignee : Users \cup {Null},
        creator : Users \cup {Null}, entered : Nat, type : ProposalTypes \cup {Null},
        debts : [DebtFields -> Nat \cup {Null}]]

CaseIntents == {"case_summary", "total_debt", "debt_breakdown", "case_field"}
ArchivedIntents == {"archived_count", "archived_list"}
Counts == {"active_count", "archived_count", "filtered_count"}
Lists == {"active_list", "archived_list", "filtered_list"}
Intents == CaseIntents \cup Counts \cup Lists
           \cup {"pipeline_summary", "protected_data", "help", "unsupported"}

\* What _deterministic_archived_intent sees in a question.
Texts == {"archived_how_many", "archived_which", "which", "anything"}

Filters ==
    {Null} \cup [field : {"status"}, value : Statuses]
           \cup [field : {"proposal_type"}, value : ProposalTypes \cup {"unclassified"}]
           \cup [field : DebtFields, value : {Null}]

ParsedRenovaQuestion == [intent : Intents, name : Names \cup {Null},
                         filter : Filters]

ASSUME ChatAssumption ==
    /\ Asker \in Users
    /\ Null \notin Names \cup Nat \cup Intents
    /\ \A c \in Cases : Rows[c] \subseteq Row
    /\ Parsed \subseteq ParsedRenovaQuestion
    /\ Within \subseteq Names \X Names /\ \A n \in Names : <<n, n>> \in Within
    /\ {MatchLimit, ListLimit, RateLimit, MaxMinutes} \subseteq Nat

VARIABLES
    cases,      \* the rows of renova_cases
    messages,   \* the rows of renova_chat_messages, in insertion order
    context,    \* the conversation's context_case_id
    ask,        \* ask[a]: a request and its local state
    minute      \* the clock; two instants are over a minute apart

vars == <<cases, messages, context, ask, minute>>

NoAnswer == [case |-> Null, counted |-> {}, listed |-> {}]

Idle == [pc |-> "idle", text |-> "anything", began |-> 0, after |-> 0, last |-> Null,
         context |-> Null, parsed |-> Null, answer |-> NoAnswer, number |-> 0]

-----------------------------------------------------------------------------
(* The cases a question is about.                                          *)

Visible == {c \in Cases : Sees(Asker, cases[c])}

\* ACTIVE_STATUSES, TERMINAL_STATUSES
ActiveStatuses == (Board \ {"purchased"}) \cup {"reviewing"}
TerminalStatuses == Closed \cup {"purchased"}

IsActive(row) == row.status \in ActiveStatuses /\ ~row.archived

\* build_filter_clause
Satisfies(row, f) ==
    CASE f.field = "status" -> row.status = f.value
      [] f.field = "proposal_type" ->
            row.type = IF f.value = "unclassified" THEN Null ELSE f.value
      [] f.field \in DebtFields -> row.debts[f.field] # Null

\* The cases a count or a list is over.
Group(p) ==
    {c \in Visible :
        CASE p.intent \in {"active_count", "active_list", "pipeline_summary"} -> IsActive(cases[c])
          [] p.intent \in ArchivedIntents -> cases[c].archived
          [] p.intent \in {"filtered_count", "filtered_list"} ->
                p.filter # Null /\ ~cases[c].archived /\ Satisfies(cases[c], p.filter)
          [] OTHER -> FALSE}

\* order_by(entry_date desc).limit(n); the order among equal dates is open
Newest(s, n) ==
    {t \in SUBSET s : /\ Cardinality(t) = Min({n, Cardinality(s)})
                      /\ \A c \in t, d \in s \ t : cases[d].entered <= cases[c].entered}

\* A search by name: ilike, and the exact ones among what it returned.
Matching(name) == {c \in Visible : <<name, cases[c].name>> \in Within}

Exact(found, name) == {c \in found : cases[c].name = name}

-----------------------------------------------------------------------------
(* The conversation.                                                       *)

\* Mutant: the oldest answer instead of the latest.
FirstIntent ==
    LET answers == {i \in DOMAIN messages : messages[i].role = "assistant"}
    IN  IF answers = {} THEN Null ELSE messages[Min(answers)].intent

\* last_assistant_intent
LastIntent ==
    LET answers == {i \in DOMAIN messages : messages[i].role = "assistant"}
    IN  IF answers = {} THEN Null ELSE messages[Max(answers)].intent

\* count_recent_user_messages: created_at is the start of the transaction
Recent == Cardinality({i \in DOMAIN messages :
              messages[i].role = "user" /\ messages[i].began = minute})

\* The intents a question may get.
Interpretations(a) ==
    LET fixed(i) == {[intent |-> i, name |-> Null, filter |-> Null]}
    IN  CASE ask[a].text = "archived_how_many" -> fixed("archived_count")
          [] ask[a].text = "archived_which" -> fixed("archived_list")
          [] ask[a].text = "which" /\ ask[a].last \in ArchivedIntents -> fixed("archived_list")
          [] OTHER -> Parsed

\* max(sequence) + 1
NextSequence == Max({0} \cup {messages[i].sequence : i \in DOMAIN messages}) + 1

\* Mutant: without the constraint.
FreeAlways(n) == n > 0

\* uq_renova_chat_messages_conversation_sequence
Free(n) == \A i \in DOMAIN messages : messages[i].sequence # n

Message(a, role, n) ==
    [role |-> role, sequence |-> n, ask |-> a, began |-> ask[a].began, after |-> ask[a].after,
     text |-> ask[a].text, case |-> IF role = "user" THEN Null ELSE ask[a].answer.case,
     intent |-> IF role = "user" THEN Null ELSE ask[a].parsed.intent]

-----------------------------------------------------------------------------
(* Actions.                                                                *)

Init ==
    /\ cases \in {f \in [Cases -> UNION {Rows[c] : c \in Cases}] : \A c \in Cases : f[c] \in Rows[c]}
    /\ messages = <<>>
    /\ context = Null
    /\ ask = [a \in Asks |-> Idle]
    /\ minute = 0

End(a, outcome) == ask' = [ask EXCEPT ![a] = [Idle EXCEPT !.pc = outcome]]

\* The conversation is loaded, the rate limit checked.
Ask(a, text) ==
    /\ ask[a].pc = "idle"
    /\ IF Recent >= RateLimit THEN End(a, "refused")
       ELSE ask' = [ask EXCEPT ![a] = [Idle EXCEPT !.pc = "classify", !.text = text, !.began = minute,
                                        !.after = Len(messages), !.last = LastIntent,
                                        !.context = context]]
    /\ UNCHANGED <<cases, messages, context, minute>>

\* interpret_question
Interpret(a, p) ==
    /\ ask[a].pc = "classify" /\ p \in Interpretations(a)
    /\ ask' = [ask EXCEPT ![a].parsed = p,
                           ![a].pc = CASE p.intent \in CaseIntents -> "resolve"
                                       [] p.intent \in {"protected_data", "help", "unsupported"} -> "number"
                                       [] OTHER -> "count"]
    /\ UNCHANGED <<cases, messages, context, minute>>

\* The classifier timed out or made no sense; nothing was stored.
InterpretFails(a) ==
    /\ ask[a].pc = "classify" /\ Interpretations(a) = Parsed
    /\ End(a, "refused")
    /\ UNCHANGED <<cases, messages, context, minute>>

\* Mutant: the context case is trusted, as it was the caller's before.
ContextCasesUnscoped(a) == {ask[a].context} \ {Null}

\* The context case, looked up again with the caller's scope.
ContextCases(a) == {ask[a].context} \cap Visible

Answer(a, c) ==
    ask' = [ask EXCEPT ![a].answer.case = c, ![a].pc = "number"]

\* _resolve_case without a name; "assert case is not None" in _answer
ResolveContext(a) ==
    /\ ask[a].pc = "resolve" /\ ask[a].parsed.name = Null
    /\ \/ ask[a].context = Null /\ End(a, "refused")
       \/ \E c \in ContextCases(a) : Answer(a, c)
       \/ ask[a].context # Null /\ ContextCases(a) = {} /\ End(a, "crashed")
    /\ UNCHANGED <<cases, messages, context, minute>>

\* _resolve_case by name: exact, single, none or ambiguous
ResolveName(a) ==
    /\ ask[a].pc = "resolve" /\ ask[a].parsed.name # Null
    /\ \E found \in Newest(Matching(ask[a].parsed.name), MatchLimit) :
          LET exact == Exact(found, ask[a].parsed.name)
              named == IF Cardinality(exact) = 1 THEN exact ELSE found
          IN  IF Cardinality(named) = 1 THEN \E c \in named : Answer(a, c) ELSE End(a, "refused")
    /\ UNCHANGED <<cases, messages, context, minute>>

\* The count of an answer, or the active half of pipeline_summary
Count(a) ==
    /\ ask[a].pc = "count"
    /\ ask' = [ask EXCEPT ![a].answer.counted = Group(ask[a].parsed),
                           ![a].pc = IF ask[a].parsed.intent \in Counts THEN "number" ELSE "list"]
    /\ UNCHANGED <<cases, messages, context, minute>>

\* The list of an answer, or the terminal half of pipeline_summary
List(a) ==
    /\ ask[a].pc = "list"
    /\ \E s \in IF ask[a].parsed.intent = "pipeline_summary"
                 THEN {{c \in Visible : cases[c].status \in TerminalStatuses}}
                 ELSE Newest(Group(ask[a].parsed), ListLimit) :
          ask' = [ask EXCEPT ![a].answer.listed = s, ![a].pc = "number"]
    /\ UNCHANGED <<cases, messages, context, minute>>

\* The query of add_message.
Number(a) ==
    /\ ask[a].pc = "number"
    /\ ask' = [ask EXCEPT ![a].number = NextSequence, ![a].pc = "store"]
    /\ UNCHANGED <<cases, messages, context, minute>>

\* Both inserts and the commit: who waits for a number finds it taken.
Store(a) ==
    /\ ask[a].pc = "store"
    /\ IF Free(ask[a].number)
       THEN /\ messages' = messages \o <<Message(a, "user", ask[a].number),
                                          Message(a, "assistant", ask[a].number + 1)>>
            /\ context' = IF ask[a].answer.case \in {Null, ask[a].context} THEN context
                          ELSE ask[a].answer.case
            /\ End(a, "answered")
       ELSE End(a, "refused") /\ UNCHANGED <<messages, context>>
    /\ UNCHANGED <<cases, minute>>

\* Another endpoint changes a case.
ChangeCase(c, row) ==
    /\ cases[c] # row
    /\ cases' = [cases EXCEPT ![c] = row]
    /\ UNCHANGED <<messages, context, ask, minute>>

Tick ==
    /\ minute < MaxMinutes
    /\ minute' = minute + 1
    /\ UNCHANGED <<cases, messages, context, ask>>

Next ==
    \/ \E a \in Asks : \/ \E text \in Texts : Ask(a, text)
                       \/ \E p \in Interpretations(a) : Interpret(a, p)
                       \/ InterpretFails(a) \/ ResolveContext(a) \/ ResolveName(a)
                       \/ Count(a) \/ List(a) \/ Number(a) \/ Store(a)
    \/ \E c \in Cases : \E row \in Rows[c] : ChangeCase(c, row)
    \/ Tick

Spec == Init /\ [][Next]_vars

-----------------------------------------------------------------------------
(* Properties.                                                             *)

\* "One persisted user/assistant turn": the conversation is whole turns,
\* numbered without a gap, each question before its own answer, although
\* every ask numbers its messages from what it read before.
TurnsWhole ==
    \A i \in DOMAIN messages :
        /\ messages[i].sequence = i
        /\ messages[i].role = IF i % 2 = 1 THEN "user" ELSE "assistant"
        /\ i % 2 = 0 => messages[i].ask = messages[i - 1].ask

Mentioned(a) == ({ask[a].answer.case} \ {Null}) \cup ask[a].answer.counted \cup ask[a].answer.listed

\* An answer is read from cases the caller sees at that moment, also one about
\* the case of an earlier turn that has been reassigned since.
AnswersStayInScope ==
    [][\A a \in Asks : Mentioned(a)' \ Mentioned(a) \subseteq Visible]_vars

\* "Which ones?" lists the archived cases if the answer before it, as the
\* client had it when it asked, was about archived cases.
FollowUpUnderstood ==
    \A i \in DOMAIN messages :
        messages[i].role = "user" /\ messages[i].text = "which" /\ messages[i].after > 0
        /\ messages[messages[i].after].intent \in ArchivedIntents
        => messages[i + 1].intent = "archived_list"

=============================================================================
