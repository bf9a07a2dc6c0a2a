-------------------------- MODULE RenovaChatProofs --------------------------
(***************************************************************************)
(* Proofs about RenovaChat, for any number of questions that overlap, any  *)
(* cases however others change them, and any limits.                       *)
(***************************************************************************)
EXTENDS RenovaChat, SequenceTheorems, TLAPS

-----------------------------------------------------------------------------
(* The operators of the model.                                             *)

\* The greatest member of a set is its maximum.
LEMMA MaxIs ==
    ASSUME NEW S \in SUBSET Int, NEW m \in S, \A y \in S : m >= y
    PROVE  Max(S) = m
  <1>1. \E x \in S : \A y \in S : x >= y
    OBVIOUS
  <1>2. Max(S) \in S /\ \A y \in S : Max(S) >= y
    BY <1>1, Zenon DEF Max
  <1>3. Max(S) >= m /\ m >= Max(S) /\ Max(S) \in Int /\ m \in Int
    BY <1>2
  <1>4. QED
    BY <1>3

\* What is counted or listed is visible.
LEMMA GroupVisible == ASSUME NEW p PROVE Group(p) \subseteq Visible
  BY DEF Group

\* The newest of some cases are among them.
LEMMA NewestIn == ASSUME NEW s, NEW n, NEW t \in Newest(s, n) PROVE t \subseteq s
  BY DEF Newest

\* What the caller sees are cases.
LEMMA VisibleCases == Visible \subseteq Cases
  BY DEF Visible

-----------------------------------------------------------------------------
(* Types.                                                                  *)

Labels == {"idle", "classify", "resolve", "count", "list", "number", "store",
           "answered", "refused", "crashed"}

\* The steps that come after a question was interpreted.
Interpreted == {"resolve", "count", "list", "number", "store"}

AnswerRow == [case : Cases \cup {Null}, counted : SUBSET Cases, listed : SUBSET Cases]

AskRow == [pc : Labels, text : Texts, began : Nat, after : Nat, last : Intents \cup {Null},
           context : Cases \cup {Null}, parsed : ParsedRenovaQuestion \cup {Null},
           answer : AnswerRow, number : Nat]

MessageRow == [role : {"user", "assistant"}, sequence : Nat, ask : Asks, began : Nat,
               after : Nat, text : Texts, case : Cases \cup {Null}, intent : Intents \cup {Null}]

Typed ==
    /\ messages \in Seq(MessageRow)
    /\ context \in Cases \cup {Null}
    /\ ask \in [Asks -> AskRow]
    /\ minute \in Nat

\* The conversation is whole turns.
Turns == Len(messages) % 2 = 0 /\ TurnsWhole

\* What a question knows of the conversation is still true, and its number is
\* the next one unless somebody took it.
Knows(q) ==
    /\ q.after \in 0..Len(messages)
    /\ q.last = IF q.after = 0 THEN Null ELSE messages[q.after].intent
    /\ q.pc \in Interpreted =>
          /\ q.parsed \in ParsedRenovaQuestion
          /\ q.text = "which" /\ q.last \in ArchivedIntents => q.parsed.intent = "archived_list"
    /\ q.pc = "store" => q.number \in 1..(Len(messages) + 1)

Knowing == \A a \in Asks : Knows(ask[a])

\* A stored question refers to what is still there.
Referring ==
    /\ \A i \in DOMAIN messages : messages[i].after \in 0..Len(messages)
    /\ FollowUpUnderstood

IInv == Typed /\ Turns /\ Knowing /\ Referring

\* Any interpretation is a parsed question, and "which?" after an answer about
\* the archive is a list of it.
LEMMA InterpretationTyped ==
    ASSUME NEW a \in Asks, NEW p \in Interpretations(a)
    PROVE  /\ p \in ParsedRenovaQuestion
           /\ ask[a].text = "which" /\ ask[a].last \in ArchivedIntents => p.intent = "archived_list"
  <1>1. Parsed \subseteq ParsedRenovaQuestion
    BY ChatAssumption
  <1>2. \A i \in {"archived_count", "archived_list"} :
          [intent |-> i, name |-> Null, filter |-> Null] \in ParsedRenovaQuestion
    BY DEF ParsedRenovaQuestion, Intents, Counts, Lists, Filters
  <1>3. QED
    BY <1>1, <1>2 DEF Interpretations

\* The last answer of whole turns is the last message.
LEMMA LastIntentIs ==
    ASSUME Typed, Turns
    PROVE  LastIntent = IF Len(messages) = 0 THEN Null ELSE messages[Len(messages)].intent
  <1> DEFINE answers == {i \in DOMAIN messages : messages[i].role = "assistant"}
  <1>1. DOMAIN messages = 1..Len(messages) /\ Len(messages) \in Nat
    BY LenProperties DEF Typed
  <1>2. CASE Len(messages) = 0
    BY <1>1, <1>2 DEF LastIntent
  <1>3. CASE Len(messages) # 0
    <2>1. Len(messages) \in answers
      BY <1>1, <1>3 DEF Turns, TurnsWhole
    <2>2. answers \in SUBSET Int /\ \A y \in answers : Len(messages) >= y
      BY <1>1
    <2>3. Max(answers) = Len(messages)
      BY <2>1, <2>2, MaxIs
    <2>4. QED
      BY <1>3, <2>1, <2>3 DEF LastIntent
  <1>4. QED
    BY <1>2, <1>3

\* Whole turns are numbered by their place, so the next number is the length
\* and one more, and no other number up to it is free.
LEMMA Numbering ==
    ASSUME Typed, Turns
    PROVE  /\ NextSequence = Len(messages) + 1
           /\ \A n \in 1..(Len(messages) + 1) : Free(n) => n = Len(messages) + 1
  <1> DEFINE taken == {0} \cup {messages[i].sequence : i \in DOMAIN messages}
  <1>1. DOMAIN messages = 1..Len(messages) /\ Len(messages) \in Nat
    BY LenProperties DEF Typed
  <1>2. \A i \in 1..Len(messages) : messages[i].sequence = i
    BY <1>1 DEF Turns, TurnsWhole
  <1>3. taken = 0..Len(messages)
    BY <1>1, <1>2
  <1>4. Max(taken) = Len(messages)
    <2>1. Len(messages) \in taken /\ taken \in SUBSET Int /\ \A y \in taken : Len(messages) >= y
      BY <1>1, <1>3
    <2>2. QED
      BY <2>1, MaxIs
  <1>5. \A n \in 1..(Len(messages) + 1) : Free(n) => n = Len(messages) + 1
    BY <1>1, <1>2 DEF Free
  <1>6. QED
    BY <1>4, <1>5 DEF NextSequence
-----------------------------------------------------------------------------
(* Steps.                                                                  *)

\* The cases an answer was read from.
CasesOf(answer) == ({answer.case} \ {Null}) \cup answer.counted \cup answer.listed

\* A question goes on without storing anything.
Goes(a) ==
    \E q \in AskRow : /\ Knows(q)
                      /\ ask' = [ask EXCEPT ![a] = q]
                      /\ CasesOf(q.answer) \ CasesOf(ask[a].answer) \subseteq Visible
                      /\ UNCHANGED <<messages, minute>>

\* A question that ends is forgotten.
LEMMA Ending ==
    ASSUME NEW a \in Asks, NEW outcome \in {"answered", "refused", "crashed"},
           messages \in Seq(MessageRow), messages' \in Seq(MessageRow), End(a, outcome)
    PROVE  \E q \in AskRow : /\ Knows(q) /\ Knows(q)' /\ CasesOf(q.answer) = {}
                             /\ ask' = [ask EXCEPT ![a] = q]
  <1> DEFINE q == [Idle EXCEPT !.pc = outcome]
  <1>1. q \in AskRow
    BY DEF Idle, NoAnswer, AskRow, Labels, AnswerRow, Texts
  <1>2. q.after = 0 /\ q.last = Null /\ q.pc = outcome
    BY DEF Idle
  <1>3. CasesOf(q.answer) = {}
    BY DEF Idle, NoAnswer, CasesOf
  <1>4. Knows(q) /\ Knows(q)'
    <2>1. 0 \in 0..Len(messages) /\ 0 \in 0..Len(messages')
      BY LenProperties
    <2>2. QED
      BY <1>2, <2>1 DEF Knows, Interpreted
  <1>5. QED
    BY <1>1, <1>3, <1>4 DEF End

\* Every step before the commit is one of a question that goes on.
LEMMA Going ==
    ASSUME IInv, NEW a \in Asks,
           \/ \E text \in Texts : Ask(a, text)
           \/ \E p \in Interpretations(a) : Interpret(a, p)
           \/ InterpretFails(a) \/ ResolveContext(a) \/ ResolveName(a)
           \/ Count(a) \/ List(a) \/ Number(a)
    PROVE  Goes(a) /\ UNCHANGED <<cases, context>>
  <1>1. /\ Typed /\ messages \in Seq(MessageRow) /\ Len(messages) \in Nat
        /\ ask[a] \in AskRow /\ Knows(ask[a]) /\ Turns
        /\ context \in Cases \cup {Null} /\ minute \in Nat
    BY LenProperties DEF IInv, Typed, Knowing
  <1>2. ASSUME NEW outcome \in {"refused", "crashed"}, End(a, outcome),
               UNCHANGED <<messages, minute>>
        PROVE  Goes(a)
    BY <1>1, <1>2, Ending DEF Goes
  <1>3. ASSUME NEW c \in Visible, ask[a].pc = "resolve", Answer(a, c), UNCHANGED <<messages, minute>>
        PROVE  Goes(a)
    <2> DEFINE q == [ask[a] EXCEPT !.answer = [ask[a].answer EXCEPT !.case = c], !.pc = "number"]
    <2>1. ask' = [ask EXCEPT ![a] = q]
      BY <1>1, <1>3 DEF Answer, AskRow
    <2>2. q \in AskRow
      BY <1>1, VisibleCases DEF AskRow, AnswerRow, Labels
    <2>3. Knows(q)
      BY <1>1, <1>3 DEF Knows, AskRow, Interpreted
    <2>4. CasesOf(q.answer) \ CasesOf(ask[a].answer) \subseteq Visible
      BY <1>1 DEF CasesOf, AskRow, AnswerRow
    <2>5. QED
      BY <1>3, <2>1, <2>2, <2>3, <2>4 DEF Goes
  <1>4. ASSUME NEW text \in Texts, Ask(a, text) PROVE Goes(a)
    <2>1. CASE Recent >= RateLimit
      BY <1>2, <1>4, <2>1 DEF Ask
    <2>2. CASE ~(Recent >= RateLimit)
      <3> DEFINE q == [Idle EXCEPT !.pc = "classify", !.text = text, !.began = minute,
                                   !.after = Len(messages), !.last = LastIntent, !.context = context]
      <3>1. ask' = [ask EXCEPT ![a] = q]
        BY <1>4, <2>2 DEF Ask
      <3>2. LastIntent = IF Len(messages) = 0 THEN Null ELSE messages[Len(messages)].intent
        BY <1>1, LastIntentIs
      <3>3. LastIntent \in Intents \cup {Null}
        <4>1. \A i \in 1..Len(messages) : messages[i] \in MessageRow
          BY <1>1, ElementOfSeq
        <4>2. QED
          BY <1>1, <3>2, <4>1 DEF MessageRow
      <3>4. q \in AskRow /\ q.pc = "classify" /\ q.after = Len(messages) /\ q.last = LastIntent
            /\ q.answer = NoAnswer
        BY <1>1, <3>3 DEF Idle, NoAnswer, AskRow, Labels, AnswerRow, Texts
      <3>5. Knows(q)
        BY <1>1, <3>2, <3>4 DEF Knows, Interpreted
      <3>6. CasesOf(q.answer) = {}
        BY <3>4 DEF CasesOf, NoAnswer
      <3>7. QED
        BY <1>4, <3>1, <3>4, <3>5, <3>6 DEF Ask, Goes
    <2>3. QED
      BY <2>1, <2>2
  <1>5. ASSUME NEW p \in Interpretations(a), Interpret(a, p) PROVE Goes(a)
    <2> DEFINE next == CASE p.intent \in CaseIntents -> "resolve"
                         [] p.intent \in {"protected_data", "help", "unsupported"} -> "number"
                         [] OTHER -> "count"
               q == [ask[a] EXCEPT !.parsed = p, !.pc = next]
    <2>1. next \in {"resolve", "number", "count"}
      OBVIOUS
    <2>2. p \in ParsedRenovaQuestion
          /\ (ask[a].text = "which" /\ ask[a].last \in ArchivedIntents => p.intent = "archived_list")
      BY <1>5, InterpretationTyped
    <2> HIDE DEF next
    <2>3. q \in AskRow /\ q.pc = next /\ q.parsed = p /\ q.answer = ask[a].answer
          /\ q.text = ask[a].text /\ q.last = ask[a].last /\ q.after = ask[a].after
      BY <1>1, <2>1, <2>2 DEF AskRow, Labels
    <2>4. Knows(q)
      BY <1>1, <2>1, <2>2, <2>3 DEF Knows
    <2>5. ask' = [ask EXCEPT ![a] = q] /\ UNCHANGED <<messages, minute>>
      <3>1. ask' = [ask EXCEPT ![a].parsed = p, ![a].pc = next] /\ UNCHANGED <<messages, minute>>
        BY <1>5 DEF Interpret, next
      <3>2. QED
        BY <1>1, <3>1 DEF AskRow
    <2>6. QED
      BY <2>3, <2>4, <2>5 DEF Goes
  <1>6. CASE InterpretFails(a)
    BY <1>2, <1>6 DEF InterpretFails
  <1>7. CASE ResolveContext(a)
    <2>1. \A c \in ContextCases(a) : c \in Visible
      BY DEF ContextCases
    <2>2. QED
      BY <1>2, <1>3, <1>7, <2>1 DEF ResolveContext
  <1>8. CASE ResolveName(a)
    <2>1. PICK found \in Newest(Matching(ask[a].parsed.name), MatchLimit) :
             \/ End(a, "refused")
             \/ \E c \in Exact(found, ask[a].parsed.name) \cup found : Answer(a, c)
      BY <1>8 DEF ResolveName
    <2>2. Exact(found, ask[a].parsed.name) \cup found \subseteq Visible
      BY NewestIn DEF Exact, Matching
    <2>3. QED
      BY <1>2, <1>3, <1>8, <2>1, <2>2 DEF ResolveName
  <1>9. CASE Count(a)
    <2> DEFINE next == IF ask[a].parsed.intent \in Counts THEN "number" ELSE "list"
               q == [ask[a] EXCEPT !.answer = [ask[a].answer EXCEPT !.counted = Group(ask[a].parsed)],
                                   !.pc = next]
    <2>1. ask' = [ask EXCEPT ![a] = q]
      BY <1>1, <1>9 DEF Count, AskRow
    <2>2. Group(ask[a].parsed) \subseteq Visible /\ Visible \subseteq Cases
      BY GroupVisible, VisibleCases
    <2>3. next \in {"number", "list"}
      OBVIOUS
    <2> HIDE DEF next
    <2>4. q \in AskRow
      BY <1>1, <2>2, <2>3 DEF AskRow, AnswerRow, Labels
    <2>5. Knows(q)
      BY <1>1, <1>9, <2>3 DEF Count, Knows, AskRow, Interpreted
    <2>6. CasesOf(q.answer) \ CasesOf(ask[a].answer) \subseteq Visible
      BY <1>1, <2>2 DEF CasesOf, AskRow, AnswerRow
    <2>7. QED
      BY <1>9, <2>1, <2>4, <2>5, <2>6 DEF Count, Goes
  <1>10. CASE List(a)
    <2>1. PICK t : /\ t \in IF ask[a].parsed.intent = "pipeline_summary"
                            THEN {{c \in Visible : cases[c].status \in TerminalStatuses}}
                            ELSE Newest(Group(ask[a].parsed), ListLimit)
                   /\ ask' = [ask EXCEPT ![a].answer.listed = t, ![a].pc = "number"]
      BY <1>10 DEF List
    <2>2. t \subseteq Visible /\ Visible \subseteq Cases
      BY <2>1, GroupVisible, NewestIn, VisibleCases
    <2> DEFINE q == [ask[a] EXCEPT !.answer = [ask[a].answer EXCEPT !.listed = t], !.pc = "number"]
    <2>3. ask' = [ask EXCEPT ![a] = q]
      BY <1>1, <2>1 DEF AskRow
    <2>4. q \in AskRow
      BY <1>1, <2>2 DEF AskRow, AnswerRow, Labels
    <2>5. Knows(q)
      BY <1>1, <1>10 DEF List, Knows, AskRow, Interpreted
    <2>6. CasesOf(q.answer) \ CasesOf(ask[a].answer) \subseteq Visible
      BY <1>1, <2>2 DEF CasesOf, AskRow, AnswerRow
    <2>7. QED
      BY <1>10, <2>3, <2>4, <2>5, <2>6 DEF List, Goes
  <1>11. CASE Number(a)
    <2> DEFINE q == [ask[a] EXCEPT !.number = NextSequence, !.pc = "store"]
    <2>1. NextSequence = Len(messages) + 1 /\ NextSequence \in Nat
      BY <1>1, Numbering
    <2>2. q \in AskRow
      BY <1>1, <2>1 DEF AskRow, Labels
    <2>3. Knows(q)
      BY <1>1, <1>11, <2>1 DEF Number, Knows, AskRow, Interpreted
    <2>4. q.answer = ask[a].answer
      BY <1>1 DEF AskRow
    <2>5. QED
      BY <1>1, <1>11, <2>2, <2>3, <2>4 DEF Number, Goes, AskRow
  <1>12. QED
    BY <1>4, <1>5, <1>6, <1>7, <1>8, <1>9, <1>10, <1>11
       DEF Ask, Interpret, InterpretFails, ResolveContext, ResolveName, Count, List, Number

\* Two messages at the end move nothing.
LEMMA Appended ==
    ASSUME NEW s \in Seq(MessageRow), NEW m \in MessageRow, NEW n \in MessageRow
    PROVE  LET t == s \o <<m, n>>
           IN  /\ t \in Seq(MessageRow) /\ Len(t) = Len(s) + 2 /\ Len(s) \in Nat
               /\ \A i \in 1..Len(s) : t[i] = s[i]
               /\ t[Len(s) + 1] = m /\ t[Len(s) + 2] = n
               /\ DOMAIN s = 1..Len(s) /\ DOMAIN t = 1..Len(t)
  <1> DEFINE two == <<m, n>>
  <1>1. two \in Seq(MessageRow) /\ Len(two) = 2 /\ two[1] = m /\ two[2] = n
    OBVIOUS
  <1> HIDE DEF two
  <1>2. /\ s \o two \in Seq(MessageRow) /\ Len(s \o two) = Len(s) + 2 /\ Len(s) \in Nat
        /\ \A i \in 1..Len(s \o two) : (s \o two)[i] = IF i <= Len(s) THEN s[i] ELSE two[i - Len(s)]
        /\ DOMAIN s = 1..Len(s) /\ DOMAIN (s \o two) = 1..Len(s \o two)
    <2>1. /\ s \o two \in Seq(MessageRow) /\ Len(s \o two) = Len(s) + 2
          /\ \A i \in 1..Len(s) + 2 :
                (s \o two)[i] = IF i <= Len(s) THEN s[i] ELSE two[i - Len(s)]
      <3>1. /\ s \o two \in Seq(MessageRow) /\ Len(s \o two) = Len(s) + Len(two)
            /\ \A i \in 1..Len(s) + Len(two) :
                  (s \o two)[i] = IF i <= Len(s) THEN s[i] ELSE two[i - Len(s)]
        BY <1>1, ConcatProperties, Zenon
      <3>2. QED
        BY <1>1, <3>1
    <2>2. Len(s) \in Nat /\ DOMAIN s = 1..Len(s)
      BY LenProperties
    <2>3. DOMAIN (s \o two) = 1..Len(s \o two)
      BY <2>1, LenProperties
    <2>4. QED
      BY <2>1, <2>2, <2>3
  <1>3. /\ \A i \in 1..Len(s) : (s \o two)[i] = s[i]
        /\ (s \o two)[Len(s) + 1] = m /\ (s \o two)[Len(s) + 2] = n
    BY <1>1, <1>2
  <1>4. QED
    BY <1>2, <1>3 DEF two

\* Two more keeps an even number even.
LEMMA TwoMore ==
    ASSUME NEW n \in Nat, n % 2 = 0
    PROVE  (n + 1) % 2 = 1 /\ (n + 2) % 2 = 0 /\ n + 2 - 1 = n + 1
  <1>1. PICK k \in Nat : n = 2 * k
    BY SMT
  <1>2. (2 * k + 1) % 2 = 1
    BY SMT
  <1>3. (2 * k + 2) % 2 = 0
    BY SMT
  <1>4. QED
    BY <1>1, <1>2, <1>3

\* A turn is stored at the end or not at all, and understood as it was asked.
LEMMA Storing == ASSUME IInv, NEW a \in Asks, Store(a) PROVE IInv'
  <1>1. /\ Typed /\ messages \in Seq(MessageRow) /\ Len(messages) \in Nat
        /\ ask \in [Asks -> AskRow] /\ ask[a] \in AskRow /\ Knows(ask[a]) /\ Turns
        /\ context \in Cases \cup {Null} /\ minute \in Nat
        /\ \A b \in Asks : Knows(ask[b])
        /\ DOMAIN messages = 1..Len(messages)
    BY LenProperties DEF IInv, Typed, Knowing
  <1>2. CASE ~Free(ask[a].number)
    <2>1. End(a, "refused") /\ UNCHANGED <<messages, context, minute>>
      BY <1>2 DEF Store
    <2>2. PICK q \in AskRow : Knows(q)' /\ ask' = [ask EXCEPT ![a] = q]
      BY <1>1, <2>1, Ending
    <2>3. \A b \in Asks : Knows(ask[b])' 
      BY <1>1, <2>1, <2>2 DEF Knows
    <2>4. Typed' /\ Turns' /\ Referring'
      BY <1>1, <2>1, <2>2 DEF Typed, Turns, TurnsWhole, Referring, FollowUpUnderstood, IInv
    <2>5. QED
      BY <2>3, <2>4 DEF IInv, Knowing
  <1>3. CASE Free(ask[a].number)
    <2> DEFINE n == ask[a].number
               m1 == Message(a, "user", n)
               m2 == Message(a, "assistant", n + 1)
    <2>1. /\ ask[a].pc = "store" /\ messages' = messages \o <<m1, m2>>
          /\ context' \in {context, ask[a].answer.case}
          /\ End(a, "answered") /\ UNCHANGED <<cases, minute>>
      BY <1>3 DEF Store
    <2>2. n = Len(messages) + 1 /\ n \in Nat
      BY <1>1, <1>3, <2>1, Numbering DEF Knows
    <2>3. ask[a].parsed \in ParsedRenovaQuestion /\ ask[a].answer.case \in Cases \cup {Null}
      BY <1>1, <2>1 DEF Knows, Interpreted, AskRow, AnswerRow
    <2>4. /\ m1.role = "user" /\ m1.sequence = n /\ m1.ask = a /\ m1.after = ask[a].after
          /\ m1.text = ask[a].text
          /\ m2.role = "assistant" /\ m2.sequence = n + 1 /\ m2.ask = a /\ m2.after = ask[a].after
          /\ m2.intent = ask[a].parsed.intent
      BY DEF Message
    <2>5. m1 \in MessageRow /\ m2 \in MessageRow
      <3>1. ask[a].parsed.intent \in Intents
        BY <2>3 DEF ParsedRenovaQuestion
      <3>2. ask[a].began \in Nat /\ ask[a].after \in Nat /\ ask[a].text \in Texts
        BY <1>1 DEF AskRow
      <3>3. QED
        BY <2>2, <2>3, <3>1, <3>2 DEF Message, MessageRow
    <2> HIDE DEF m1, m2
    <2>6. /\ messages' \in Seq(MessageRow) /\ Len(messages') = Len(messages) + 2
          /\ \A i \in 1..Len(messages) : messages'[i] = messages[i]
          /\ messages'[Len(messages) + 1] = m1 /\ messages'[Len(messages) + 2] = m2
          /\ DOMAIN messages' = 1..Len(messages')
      BY <1>1, <2>1, <2>5, Appended
    <2>7. PICK q \in AskRow : Knows(q)' /\ ask' = [ask EXCEPT ![a] = q]
      BY <1>1, <2>1, <2>6, Ending
    <2>8. Typed'
      BY <1>1, <2>1, <2>3, <2>6, <2>7 DEF Typed
    <2>9. Knowing'
      <3>1. ASSUME NEW b \in Asks, b # a PROVE Knows(ask[b])'
        <4>1. ask'[b] = ask[b] /\ Knows(ask[b])
          BY <1>1, <2>7, <3>1
        <4>2. QED
          BY <1>1, <2>6, <4>1 DEF Knows
      <3>2. QED
        BY <1>1, <2>7, <3>1 DEF Knowing
    <2>10. Turns'
      <3>1. /\ Len(messages) % 2 = 0
            /\ \A i \in 1..Len(messages) :
                  /\ messages[i].sequence = i
                  /\ messages[i].role = IF i % 2 = 1 THEN "user" ELSE "assistant"
                  /\ i % 2 = 0 => messages[i].ask = messages[i - 1].ask
        BY <1>1 DEF Turns, TurnsWhole
      <3>2. /\ (Len(messages) + 1) % 2 = 1 /\ (Len(messages) + 2) % 2 = 0
            /\ Len(messages) + 2 - 1 = Len(messages) + 1
        BY <1>1, <3>1, TwoMore
      <3>3. ASSUME NEW i \in 1..Len(messages')
            PROVE  /\ messages'[i].sequence = i
                   /\ messages'[i].role = IF i % 2 = 1 THEN "user" ELSE "assistant"
                   /\ i % 2 = 0 => messages'[i].ask = messages'[i - 1].ask
        <4>1. CASE i \in 1..Len(messages)
          <5>1. i % 2 = 0 => i - 1 \in 1..Len(messages)
            BY <1>1, <4>1
          <5>2. QED
            BY <2>6, <3>1, <4>1, <5>1
        <4>2. CASE i = Len(messages) + 1
          BY <2>2, <2>4, <2>6, <3>2, <4>2
        <4>3. CASE i = Len(messages) + 2
          <5>1. i - 1 = Len(messages) + 1 /\ n + 1 = i /\ i % 2 = 0
            BY <1>1, <2>2, <3>2, <4>3
          <5>2. QED
            BY <2>4, <2>6, <4>3, <5>1
        <4>4. QED
          BY <1>1, <2>6, <4>1, <4>2, <4>3
      <3>4. QED
        BY <2>6, <3>2, <3>3 DEF Turns, TurnsWhole
    <2>11. Referring'
      <3>1. ask[a].after \in 0..Len(messages)
        BY <1>1 DEF Knows
      <3>2. \A i \in DOMAIN messages : messages[i].after \in 0..Len(messages)
        BY DEF IInv, Referring
      <3>3. ASSUME NEW i \in 1..Len(messages') PROVE messages'[i].after \in 0..Len(messages')
        <4>1. CASE i \in 1..Len(messages)
          BY <1>1, <2>6, <3>2, <4>1
        <4>2. CASE i = Len(messages) + 1
          BY <1>1, <2>4, <2>6, <3>1, <4>2
        <4>3. CASE i = Len(messages) + 2
          BY <1>1, <2>4, <2>6, <3>1, <4>3
        <4>4. QED
          BY <1>1, <2>6, <4>1, <4>2, <4>3
      <3>4. ASSUME NEW i \in DOMAIN messages', messages'[i].role = "user", messages'[i].text = "which",
                   messages'[i].after > 0, messages'[messages'[i].after].intent \in ArchivedIntents
            PROVE  messages'[i + 1].intent = "archived_list"
        <4>1. CASE i \in 1..Len(messages)
          <5>1. messages'[i] = messages[i] /\ messages[i].after \in 1..Len(messages)
            BY <1>1, <2>6, <3>2, <3>4, <4>1
          <5>2. messages[i + 1].intent = "archived_list"
            BY <1>1, <2>6, <3>4, <4>1, <5>1 DEF IInv, Referring, FollowUpUnderstood
          <5>3. i + 1 \in 1..Len(messages)
            <6>1. i # Len(messages)
              BY <1>1, <3>4, <4>1, <5>1 DEF Turns, TurnsWhole
            <6>2. QED
              BY <1>1, <4>1, <6>1
          <5>4. QED
            BY <2>6, <5>2, <5>3
        <4>2. CASE i = Len(messages) + 1
          <5>1. ask[a].after \in 1..Len(messages) /\ ask[a].text = "which"
            BY <1>1, <2>4, <2>6, <3>1, <3>4, <4>2
          <5>2. ask[a].last \in ArchivedIntents
            BY <1>1, <2>4, <2>6, <3>4, <4>2, <5>1 DEF Knows
          <5>3. ask[a].parsed.intent = "archived_list"
            BY <1>1, <2>1, <5>1, <5>2 DEF Knows, Interpreted
          <5>4. i + 1 = Len(messages) + 2
            BY <1>1, <4>2
          <5>5. QED
            BY <2>4, <2>6, <5>3, <5>4
        <4>3. CASE i = Len(messages) + 2
          BY <2>4, <2>6, <3>4, <4>3
        <4>4. QED
          BY <1>1, <2>6, <3>4, <4>1, <4>2, <4>3
      <3>5. FollowUpUnderstood'
        BY <3>4 DEF FollowUpUnderstood
      <3>6. QED
        BY <2>6, <3>3, <3>5 DEF Referring
    <2>12. QED
      BY <2>8, <2>9, <2>10, <2>11 DEF IInv
  <1>4. QED
    BY <1>2, <1>3

\* Initially there is no message.
LEMMA InitIInv == Init => IInv
  <1> SUFFICES ASSUME Init PROVE IInv
    OBVIOUS
  <1>1. Idle \in AskRow /\ Idle.after = 0 /\ Idle.last = Null /\ Idle.pc = "idle"
    BY DEF Idle, NoAnswer, AskRow, Labels, AnswerRow, Texts
  <1>2. messages = <<>> /\ Len(messages) = 0 /\ DOMAIN messages = {}
    BY DEF Init
  <1>3. Typed
    BY <1>1, <1>2 DEF Init, Typed
  <1>4. Turns /\ Referring
    BY <1>2 DEF Turns, TurnsWhole, Referring, FollowUpUnderstood
  <1>5. Knowing
    BY <1>1, <1>2 DEF Init, Knowing, Knows, Interpreted
  <1>6. QED
    BY <1>3, <1>4, <1>5 DEF IInv

\* Every step keeps turns whole and questions informed.
LEMMA NextIInv == IInv /\ [Next]_vars => IInv'
  <1> SUFFICES ASSUME IInv, [Next]_vars PROVE IInv'
    OBVIOUS
  <1>1. /\ Typed /\ ask \in [Asks -> AskRow] /\ \A b \in Asks : Knows(ask[b])
        /\ Turns /\ Referring /\ minute \in Nat
    BY DEF IInv, Typed, Knowing
  <1>2. ASSUME UNCHANGED messages PROVE Turns' /\ Referring' /\ \A q : Knows(q) => Knows(q)'
    BY <1>1, <1>2 DEF Turns, TurnsWhole, Referring, FollowUpUnderstood, Knows
  <1>3. ASSUME NEW a \in Asks, Goes(a), UNCHANGED context PROVE IInv'
    <2>1. PICK q \in AskRow : Knows(q) /\ ask' = [ask EXCEPT ![a] = q]
      BY <1>3 DEF Goes
    <2>2. UNCHANGED <<messages, minute>>
      BY <1>3 DEF Goes
    <2>3. Typed'
      BY <1>1, <1>3, <2>1, <2>2 DEF Typed
    <2>4. \A b \in Asks : Knows(ask'[b])
      BY <1>1, <2>1
    <2>5. Knowing'
      BY <1>2, <2>2, <2>4 DEF Knowing, Knows
    <2>6. QED
      BY <1>2, <2>2, <2>3, <2>5 DEF IInv
  <1>4. ASSUME UNCHANGED <<messages, context, ask>>, minute' \in Nat PROVE IInv'
    BY <1>1, <1>4 DEF IInv, Typed, Turns, TurnsWhole, Referring, FollowUpUnderstood, Knowing, Knows
  <1>5. CASE Tick
    BY <1>1, <1>4, <1>5 DEF Tick
  <1>6. ASSUME NEW c \in Cases, NEW row \in Rows[c], ChangeCase(c, row) PROVE IInv'
    BY <1>1, <1>4, <1>6 DEF ChangeCase
  <1>7. CASE UNCHANGED vars
    BY <1>1, <1>4, <1>7 DEF vars
  <1>8. QED
    BY <1>3, <1>5, <1>6, <1>7, Going, Storing DEF Next

\* The inductive invariant of a conversation.
LEMMA Invariant == Spec => []IInv
  BY InitIInv, NextIInv, PTL DEF Spec

-----------------------------------------------------------------------------
(* Theorems.                                                               *)

\* "One persisted user/assistant turn": however questions overlap, the
\* conversation is whole turns without a gap in their numbers.
THEOREM WholeTurns == Spec => []TurnsWhole
  <1>1. IInv => TurnsWhole
    BY DEF IInv, Turns
  <1>2. QED
    BY <1>1, Invariant, PTL

\* "Which ones?" is understood by the answer the client had before it.
THEOREM Understood == Spec => []FollowUpUnderstood
  <1>1. IInv => FollowUpUnderstood
    BY DEF IInv, Referring
  <1>2. QED
    BY <1>1, Invariant, PTL

\* An answer is read from cases the caller sees at that moment.
THEOREM InScope == Spec => AnswersStayInScope
  <1> DEFINE Scoped == \A a \in Asks : Mentioned(a)' \ Mentioned(a) \subseteq Visible
  <1>1. IInv /\ [Next]_vars => [Scoped]_vars
    <2> SUFFICES ASSUME IInv, Next, NEW b \in Asks
                 PROVE  Mentioned(b)' \ Mentioned(b) \subseteq Visible
      BY DEF vars
    <2>1. /\ ask \in [Asks -> AskRow] /\ messages \in Seq(MessageRow)
          /\ Mentioned(b) = CasesOf(ask[b].answer) /\ Mentioned(b)' = CasesOf(ask'[b].answer)
      BY DEF IInv, Typed, Mentioned, CasesOf
    <2>2. ASSUME NEW a \in Asks, Goes(a) PROVE Mentioned(b)' \ Mentioned(b) \subseteq Visible
      BY <2>1, <2>2 DEF Goes
    <2>3. ASSUME NEW a \in Asks, Store(a) PROVE Mentioned(b)' \ Mentioned(b) \subseteq Visible
      <3>1. messages' \in Seq(MessageRow)
        BY <2>3, Storing DEF IInv, Typed
      <3>2. PICK q \in AskRow : CasesOf(q.answer) = {} /\ ask' = [ask EXCEPT ![a] = q]
        BY <2>1, <2>3, <3>1, Ending DEF Store
      <3>3. QED
        BY <2>1, <3>2
    <2>4. CASE UNCHANGED ask
      BY <2>1, <2>4
    <2>5. QED
      BY <2>2, <2>3, <2>4, Going DEF Next, ChangeCase, Tick
  <1>2. QED
    BY <1>1, Invariant, PTL DEF Spec, AnswersStayInScope

=============================================================================
