----------------------------- MODULE Qualification -----------------------------
(***************************************************************************)
(* The deterministic qualification engine (packages/qualification/engine.ts):*)
(* what one utterance of the caller does to what is known of him.            *)
(*                                                                         *)
(* An utterance is what the language pack makes of it: the intents it has,   *)
(* and what it reads as when it is taken for the answer to a field.  A       *)
(* reading is sure when its confidence reaches CONFIRMATION_THRESHOLD.       *)
(***************************************************************************)
EXTENDS Integers, Sequences, FiniteSets

CONSTANTS
    Order,          \* the fields of the schema, in the order of the questions
    Schema,         \* [field -> QualificationField]
    MaxUnresolved   \* maxUnresolvedFields

Fields == {Order[i] : i \in 1 .. Len(Order)}

NoField == "none"

Value == {"plain", "special"}

\* kind: "choice" is an enum, a boolean or a name, "number" is money, a capacity, a phone
\* number or a pincode, "energy" is energy_or_money, "words" is a text or a time.
\* ends holds the values of disqualifyWhen, skip those of skipWhen with their field;
\* parseQualificationSchema refuses any other field that disqualifies.
SchemaOK ==
    /\ Schema \in [Fields -> [kind : {"choice", "number", "energy", "words"},
                              required : BOOLEAN, confirm : BOOLEAN, maxAttempts : 1 .. 5,
                              ends : SUBSET Value, skip : SUBSET (Fields \X Value)]]
    /\ \A f \in Fields : Schema[f].ends # {} => Schema[f].kind = "choice"
    /\ MaxUnresolved \in 1 .. 10

Reading == [value : Value, unit : BOOLEAN, sure : BOOLEAN]

NoReading == [value |-> "none"]

Intent == {"do_not_call", "wrong_number", "human", "call_back_later", "affirm", "deny",
           "dont_know"}

NoValue == [value |-> "none"]

Unknown == [value |-> "unknown", unit |-> FALSE, confirmed |-> FALSE]

Status == {"in_progress", "complete", "disqualified", "do_not_call", "wrong_number",
           "callback_requested"}

Snapshot ==
    [fields : [Fields -> [value : Value \cup {"unknown"}, unit : BOOLEAN, confirmed : BOOLEAN]
                         \cup {NoValue}],
     attempts : [Fields -> Nat], status : Status, pending : Fields \cup {NoField},
     awaiting : Fields \cup {NoField}, human : BOOLEAN, unresolved : SUBSET Fields]

EmptySnapshot ==
    [fields |-> [f \in Fields |-> NoValue], attempts |-> [f \in Fields |-> 0],
     status |-> "in_progress", pending |-> NoField, awaiting |-> NoField, human |-> FALSE,
     unresolved |-> {}]

IsTerminal(status) ==
    status \in {"disqualified", "do_not_call", "wrong_number", "callback_requested"}

Answered(s, f) == s.fields[f] \notin {NoValue, Unknown}

\* The next question: the first field that has neither a value nor used up its attempts.
NextField(s) ==
    LET open == {i \in 1 .. Len(Order) :
                    LET f == Order[i] IN
                    /\ s.fields[f] = NoValue
                    /\ f \notin s.unresolved
                    /\ s.attempts[f] < Schema[f].maxAttempts
                    /\ ~\E gate \in Schema[f].skip : s.fields[gate[1]].value = gate[2]}
    IN  IF open = {} THEN NoField
        ELSE Order[CHOOSE i \in open : \A j \in open : i <= j]

-------------------------------------------------------------------------------
(* The parts of applyUtterance.  captured is the field of the last event     *)
(* "captured", unspent says that the utterance may still answer a question.  *)

Step(s) == [snapshot |-> s, captured |-> NoField, unspent |-> FALSE]

Close(s, status) ==
    [s EXCEPT !.status = status, !.pending = NoField, !.awaiting = NoField]

ApplyDisqualifier(s, f) ==
    IF s.fields[f].value \in Schema[f].ends THEN Close(s, "disqualified") ELSE s

BumpAttempt(s, f) ==
    LET n == s.attempts[f] + 1
        lost == n >= Schema[f].maxAttempts /\ Schema[f].required /\ ~Answered(s, f) IN
    [s EXCEPT !.attempts[f] = n, !.unresolved = IF lost THEN @ \cup {f} ELSE @]

\* Mutant: the first retry closes the read-back.
AskOnce(s, f) == [BumpAttempt(s, f) EXCEPT !.awaiting = NoField]

\* A read-back that stays open costs an attempt, and the last one closes it.
AskAgain(s, f) ==
    LET t == BumpAttempt(s, f) IN
    IF t.attempts[f] >= Schema[f].maxAttempts
    THEN [t EXCEPT !.awaiting = NoField] ELSE t

Taken(reading, confirmed) ==
    [value |-> reading.value, unit |-> reading.unit, confirmed |-> confirmed]

\* Mutant: the read-back that was answered stays open.
ReleaseNever(s) == s

Release(s) == [s EXCEPT !.awaiting = NoField]

Confirm(s, f, value) ==
    ApplyDisqualifier(Release([s EXCEPT !.fields[f] = value]), f)

\* The value said again on its own means "no, this one".
Restatable(f) == Schema[f].kind \in {"number", "energy"}

\* A pending read-back is answered before anything else.
AnswerConfirmation(s, u) ==
    LET f == s.awaiting
        held == s.fields[f]
        reading == u.reads[f]
        yes == "affirm" \in u.intents /\ "deny" \notin u.intents
        no == "deny" \in u.intents
        energy == Schema[f].kind = "energy"
        clarified == energy /\ reading # NoReading /\ reading.unit /\ ~held.unit
        corrected == reading # NoReading /\ (no \/ Restatable(f))
        corrects == [s EXCEPT !.fields[f] = Taken(reading, FALSE)] IN
    CASE clarified -> Step(Confirm(s, f, Taken(reading, TRUE)))
      [] ~clarified /\ yes /\ (~energy \/ held.unit) ->
            Step(Confirm(s, f, [held EXCEPT !.confirmed = TRUE]))
      [] ~clarified /\ yes /\ energy /\ ~held.unit -> Step(AskAgain(s, f))
      [] ~clarified /\ ~yes /\ corrected ->
            [Step(IF Schema[f].confirm \/ ~reading.sure THEN AskAgain(corrects, f)
                  ELSE ApplyDisqualifier(Release(corrects), f)) EXCEPT !.captured = f]
      [] ~yes /\ ~corrected /\ no ->
            Step(BumpAttempt(Release([s EXCEPT !.fields[f] = NoValue]), f))
      [] ~yes /\ ~corrected /\ ~no /\ ~Schema[f].confirm ->
            [Step(ApplyDisqualifier(Release(s), f)) EXCEPT !.unspent = TRUE]
      [] OTHER -> Step(AskAgain(s, f))

CaptureField(s, f, reading) ==
    LET t == [s EXCEPT !.fields[f] = Taken(reading, FALSE), !.unresolved = @ \ {f}]
        verbatim == Schema[f].kind = "words" /\ ~Schema[f].confirm IN
    IF (Schema[f].confirm \/ ~reading.sure) /\ ~verbatim
    THEN [t EXCEPT !.awaiting = f] ELSE ApplyDisqualifier(t, f)

\* The question that was pending is answered, or not understood.
AnswerQuestion(s, u) ==
    LET f == s.pending IN
    CASE f = NoField -> Step(s)
      [] f # NoField /\ "dont_know" \in u.intents ->
            Step([s EXCEPT !.fields[f] = Unknown,
                           !.unresolved = IF Schema[f].required THEN @ \cup {f} ELSE @])
      [] f # NoField /\ "dont_know" \notin u.intents /\ u.reads[f] # NoReading ->
            [Step(CaptureField(s, f, u.reads[f])) EXCEPT !.captured = f]
      [] OTHER -> Step(BumpAttempt(s, f))

Understand(s, u) ==
    IF s.awaiting = NoField THEN AnswerQuestion(s, u)
    ELSE LET step == AnswerConfirmation(s, u)
             t == step.snapshot IN
         IF step.unspent /\ ~IsTerminal(t.status)
         THEN AnswerQuestion([t EXCEPT !.pending = NextField(t)], u) ELSE step

\* What follows: a person takes over, the next question is chosen, or all is known.
ChooseNext(s) ==
    LET t == [s EXCEPT !.human = @ \/ Cardinality(s.unresolved) >= MaxUnresolved]
        next == NextField(t) IN
    IF IsTerminal(s.status) THEN s
    ELSE IF t.awaiting # NoField THEN t
    ELSE [t EXCEPT !.pending = next, !.status = IF next = NoField THEN "complete" ELSE @]

\* applyUtterance: what the caller wants of the call wins over every question.
ApplyUtterance(s, u) ==
    LET heard == [s EXCEPT !.human = @ \/ "human" \in u.intents]
        step == Understand(heard, u) IN
    IF IsTerminal(s.status) THEN Step(s)
    ELSE IF "do_not_call" \in u.intents THEN Step(Close(s, "do_not_call"))
    ELSE IF "wrong_number" \in u.intents THEN Step(Close(s, "wrong_number"))
    ELSE IF "call_back_later" \in u.intents THEN Step(Close(heard, "callback_requested"))
    ELSE [step EXCEPT !.snapshot = ChooseNext(@)]

\* QualificationSystemActionProvider.prepare: what was captured from a poorly heard
\* utterance is read back, whatever the parser thought.
Prepare(s, u, poorlyHeard) ==
    LET step == ApplyUtterance(s, u)
        t == step.snapshot
        f == step.captured IN
    IF poorlyHeard /\ t.awaiting = NoField /\ f # NoField /\ ~t.fields[f].confirmed
    THEN [t EXCEPT !.awaiting = f] ELSE t
===============================================================================
