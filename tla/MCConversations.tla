---------------------------- MODULE MCConversations ----------------------------
(***************************************************************************)
(* What is said in one conversation: the turns of a call with the rows they  *)
(* leave, the reply of a single turn while it is streamed, or what a         *)
(* qualification call makes of the caller's answers; the providers of a call  *)
(* that fall back on others; and what conversations leave in the CRM.        *)
(***************************************************************************)
EXTENDS AgentTurns, TLC

CONSTANTS Scopes, ToolRounds, MaxSentences, MaxCalls,
          Order, Schema, MaxUnresolved, Utterances, Known, VisitSlots, MaxAttempts, Patience,
          Emails, Phones, NoContact, MaxEvents,
          ModelCalls, MaxWait, Timeout, BillingWait, RetryAfters, MaxDeltas, MaxClock,
          MaxChunks, MaxFrames, MaxEnds, MaxBuffered, MaxPending

ASSUME SpeechBounds == ToolRounds \in Nat /\ MaxSentences \in Nat

ASSUME ProviderBounds ==
    /\ MaxDeltas \in Nat \ {0} /\ Timeout \in Nat
    /\ MaxChunks \in Nat /\ MaxFrames \in Nat
    /\ MaxPending \in Nat \ {0}

VARIABLES
    scope,                  \* "call", "reply", "sales", "crm", "model", "line" or "hearing"
    step, run, stream, channel,
    snapshot, loaded, visit, calendar, salesTurn, salesCall,
    customers, timeline, sync, events, visits, faulty,
    now, cooldowns, routes, replies,
    line, vendor, spoken,
    ear, recognizer, caller, understood

Crm == INSTANCE Customers

crmVars == <<customers, timeline, sync, events, visits, faulty>>

Speech == INSTANCE SpeechStream

-------------------------------------------------------------------------------
(* A schema of two questions: does he own the house, and what is the bill.   *)

SalesOrder == <<"own", "bill">>

SalesSchema ==
    [own |-> [kind |-> "choice", required |-> TRUE, confirm |-> FALSE, maxAttempts |-> 2,
              ends |-> {"special"}, skip |-> {}],
     bill |-> [kind |-> "energy", required |-> TRUE, confirm |-> TRUE, maxAttempts |-> 2,
               ends |-> {}, skip |-> {}]]

Silent == [value |-> "none"]

Read(value, unit, sure) == [value |-> value, unit |-> unit, sure |-> sure]

Says(intents, own, bill, number) ==
    [intents |-> intents, reads |-> [own |-> own, bill |-> bill], picks |-> number,
     time |-> number]

\* "Yes", "no", "I don't know", "my own", "no, rented, 300 units", "3000" and "never call
\* again"; a bare number may also pick a visit.
SalesUtterances ==
    {Says({"affirm"}, Silent, Silent, FALSE),
     Says({"deny"}, Silent, Silent, FALSE),
     Says({"dont_know"}, Silent, Silent, FALSE),
     Says({"do_not_call"}, Silent, Silent, FALSE),
     Says({}, Read("plain", FALSE, TRUE), Silent, FALSE),
     Says({"deny"}, Read("special", FALSE, TRUE), Read("special", TRUE, TRUE), FALSE),
     Says({}, Silent, Read("plain", FALSE, FALSE), TRUE)}

SalesKnown == {{"bill"}}

Sales == INSTANCE SalesCall WITH turn <- salesTurn, call <- salesCall

\* What parseQualificationSchema accepts, and what the language pack answers.
ASSUME SchemaIsParsed ==
    /\ Order \in Seq(Sales!Fields)
    /\ Sales!SchemaOK
    /\ Sales!NoField \notin Sales!Fields
    /\ Utterances \subseteq Sales!Utterance

salesVars == <<snapshot, loaded, visit, calendar, salesTurn, salesCall>>

speechVars == <<step, run, stream, channel>>

\* Two models of one provider, and one of another.
Router == INSTANCE LlmRouter WITH Candidates <- <<"groq", "groq", "openrouter">>

\* Either provider of speech may be the one that is fallen back on.
SpeechChains == {<<"sarvam", "local">>, <<"local", "sarvam">>}

Synthesis == INSTANCE TtsFailover WITH TtsChains <- SpeechChains

Recognition == INSTANCE SttFailover WITH SttChains <- SpeechChains

modelVars == <<now, cooldowns, routes, replies>>

lineVars == <<line, vendor, spoken>>

hearingVars == <<ear, recognizer, caller, understood>>

providerVars == <<modelVars, lineVars, hearingVars>>

-------------------------------------------------------------------------------

MCInit ==
    /\ scope \in Scopes
    /\ Init
    /\ Speech!Init
    /\ Sales!SalesInit
    /\ Crm!CrmInit
    /\ Router!Init
    /\ Synthesis!TtsInit
    /\ Recognition!SttInit
    \* One of their first states is enough where they are not looked at.
    /\ scope # "model" => \A c \in ModelCalls : routes[c].mode = "live"
    /\ scope # "line" => line.chain[1] = "sarvam"
    /\ scope # "hearing" => ear.chain[1] = "sarvam"

Call ==
    /\ scope = "call"
    /\ Next
    /\ UNCHANGED <<scope, speechVars, salesVars, crmVars, providerVars>>

Reply ==
    /\ scope = "reply"
    /\ Speech!Next
    /\ UNCHANGED <<scope, vars, salesVars, crmVars, providerVars>>

Interview ==
    /\ scope = "sales"
    /\ Sales!SalesNext
    /\ UNCHANGED <<scope, vars, speechVars, crmVars, providerVars>>

CustomerSync ==
    /\ scope = "crm"
    /\ Crm!CrmNext
    /\ UNCHANGED <<scope, vars, speechVars, salesVars, providerVars>>

Routing ==
    /\ scope = "model"
    /\ Router!Next
    /\ UNCHANGED <<scope, vars, speechVars, salesVars, crmVars, lineVars, hearingVars>>

Synthesizing ==
    /\ scope = "line"
    /\ Synthesis!TtsNext
    /\ UNCHANGED <<scope, vars, speechVars, salesVars, crmVars, modelVars, hearingVars>>

Hearing ==
    /\ scope = "hearing"
    /\ Recognition!SttNext
    /\ UNCHANGED <<scope, vars, speechVars, salesVars, crmVars, modelVars, lineVars>>

MCNext == Call \/ Reply \/ Interview \/ CustomerSync \/ Routing \/ Synthesizing \/ Hearing

MCSpec == MCInit /\ [][MCNext]_<<scope, vars, speechVars, salesVars, crmVars, providerVars>>

Symmetry == Permutations(VisitSlots) \cup Permutations(ModelCalls)

\* "Once anything has been heard it is never retracted and never repeated": what the
\* caller heard of a streamed reply is the reply (speech-stream.ts, agent-runtime.ts).
HeardIsTheReply == Speech!HeardIsTheReply

\* No utterance changes what was confirmed (engine.ts).
UtterancesKeepConfirmed == Sales!UtterancesKeepConfirmed

\* What the schema wants confirmed is read back (engine.ts).
CriticalIsReadBack == Sales!CriticalIsReadBack

\* A conversation has one visit at most, and what is said of it is so (booking-step.ts).
VisitIsAsTold == Sales!VisitIsAsTold

\* "Merge them, so history consolidates": no entry and no appointment of a merged customer
\* is lost, whichever statement fails (crm-service.ts, supabase-crm-store.ts).
MergeLosesNothing == Crm!MergeLosesNothing

\* "Drop it and ask again": a dropped answer is asked for again (engine.ts).
DroppedIsAskedAgain == Sales!DroppedIsAskedAgain

\* A call of the model, a line of speech and the recognition of a call are served by one
\* provider each, and nothing follows their end (fallback-router.ts,
\* fallback-tts-provider.ts, fallback-stt-provider.ts).
FailoverIsOneSource ==
    /\ Router!ImplementsOneSource
    /\ Synthesis!ImplementsOneSource
    /\ Recognition!ImplementsOneSource

\* AllIsHeard of the recognition (fallback-stt-provider.ts).
AllIsHeard == Recognition!AllIsHeard
===============================================================================
