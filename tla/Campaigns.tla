------------------------------ MODULE Campaigns ------------------------------
(***************************************************************************)
(* Outbound campaigns: the campaign_contacts table of migrations 0025 and    *)
(* 0029, the dispatchers that claim, authorize, dial and settle its rows     *)
(* (CampaignEngine.dispatch), and the carrier's side of every call, whose    *)
(* signed callbacks (bind_campaign_callback) and outcomes                    *)
(* (apply_campaign_call_outcome) race the dispatcher's own answer.           *)
(*                                                                         *)
(* An attempt of a contact dials once, so the call it placed is named by     *)
(* the attempt's number.  The calling window, the agent, the number and the  *)
(* customer's phone are not variables: Authorize may find any of them wrong. *)
(***************************************************************************)
EXTENDS Integers, FiniteSets

CONSTANTS
    Contacts,     \* rows of campaign_contacts
    Campaigns,
    Customers,
    CampaignOf,   \* [Contacts -> Campaigns]
    CustomerOf,   \* [Contacts -> Customers]
    Dispatchers,  \* invocations of dispatchCampaign
    BatchSize,
    MaxAttempts,  \* [Campaigns -> max_attempts]
    AttemptLimit, \* 10: the bound the table puts on attempt
    CanCrash      \* whether dispatchers and the gateway may be killed

ASSUME CampaignAssumption ==
    /\ CampaignOf \in [Contacts -> Campaigns]
    /\ CustomerOf \in [Contacts -> Customers]
    /\ \A c, o \in Contacts :
          CampaignOf[c] = CampaignOf[o] /\ CustomerOf[c] = CustomerOf[o] => c = o
    /\ {BatchSize, AttemptLimit} \subseteq Nat \ {0}
    /\ MaxAttempts \in [Campaigns -> 1 .. AttemptLimit]
    /\ CanCrash \in BOOLEAN

VARIABLES
    active,      \* campaigns in state "active"
    callable,    \* customers whose lead and number may be called
    contact,     \* [Contacts -> row of campaign_contacts], "none" before enrolment
    dispatcher,  \* [Dispatchers -> the batch an invocation still has to do]
    phone,       \* [Contacts -> [Attempts -> the call as the carrier sees it]]
    leg,         \* [Contacts -> [Attempts -> its row of calls and its session]]
    dials        \* history: [Contacts -> [Attempts -> requests to the carrier]]

vars == <<active, callable, contact, dispatcher, phone, leg, dials>>

Attempts == 1 .. AttemptLimit

State == {"none", "pending", "dialing", "accepted", "completed", "blocked",
          "exhausted", "uncertain"}

\* attempt < max_attempts.
MayRetry(c) == contact[c].attempt < MaxAttempts[CampaignOf[c]]

\* call is the provider_call_id, 0 for null; due says that a pending row's due_at
\* has passed.
Row == [state : State, attempt : 0 .. AttemptLimit, call : 0 .. AttemptLimit, due : BOOLEAN]

\* The states of the index campaign_one_active_contact.
Holding == {"dialing", "accepted", "uncertain"}

Claims == [contact : Contacts, attempt : Attempts]

Result == {"accepted", "unknown", "rejected", "retryable"}

Idle == [pc |-> "idle"]
DispatcherState == {Idle} \cup
    [pc : {"authorize", "dial", "settle"}, batch : SUBSET Claims, cur : Claims,
     result : Result]

Phone == {"none", "up", "over"}

\* "queued" until a conversation begins, "talking" while its session lives (or
\* "lost" with its gateway), "closing" until its outcome is recorded.
Leg == {"none", "queued", "talking", "lost", "closing", "closed"}

TypeOK ==
    /\ active \subseteq Campaigns
    /\ callable \subseteq Customers
    /\ contact \in [Contacts -> Row]
    /\ dispatcher \in [Dispatchers -> DispatcherState]
    /\ phone \in [Contacts -> [Attempts -> Phone]]
    /\ leg \in [Contacts -> [Attempts -> Leg]]
    /\ dials \in [Contacts -> [Attempts -> Nat]]

Init ==
    /\ active = {}
    /\ callable = Customers
    /\ contact = [c \in Contacts |->
                     [state |-> "none", attempt |-> 0, call |-> 0, due |-> FALSE]]
    /\ dispatcher = [d \in Dispatchers |-> Idle]
    /\ phone = [c \in Contacts |-> [n \in Attempts |-> "none"]]
    /\ leg = [c \in Contacts |-> [n \in Attempts |-> "none"]]
    /\ dials = [c \in Contacts |-> [n \in Attempts |-> 0]]

-------------------------------------------------------------------------------
(* The dashboard and the CRM.                                               *)

\* The campaign must be a draft or paused, but its state is read before the rows are
\* written: it may have been started since.
Enroll(c) ==
    /\ contact[c].state = "none"
    /\ contact' = [contact EXCEPT ![c].state = "pending", ![c].due = TRUE]
    /\ UNCHANGED <<active, callable, dispatcher, phone, leg, dials>>

\* The campaign is started, or paused, completed or cancelled.  (Of a completed or
\* cancelled one guard_campaign makes sure that it is not started again, which is
\* one of the things that may happen here.)
SetCampaign(k) ==
    /\ active' = IF k \in active THEN active \ {k} ELSE active \cup {k}
    /\ UNCHANGED <<callable, contact, dispatcher, phone, leg, dials>>

\* The lead leaves the states that may be called (DO_NOT_CONTACT, LOST, CONVERTED,
\* UNQUALIFIED), its number is suppressed, or an unqualified lead is nurtured.
SetLead(u) ==
    /\ callable' = IF u \in callable THEN callable \ {u} ELSE callable \cup {u}
    /\ UNCHANGED <<active, contact, dispatcher, phone, leg, dials>>

-------------------------------------------------------------------------------
(* The dispatcher.                                                          *)

Eligible(c) == CampaignOf[c] \in active /\ CustomerOf[c] \in callable

\* Mutant: the index is scoped to the campaign.
ConflictsInCampaign(c) ==
    \E o \in Contacts \ {c} : /\ CustomerOf[o] = CustomerOf[c]
                              /\ CampaignOf[o] = CampaignOf[c]
                              /\ contact[o].state \in Holding

\* campaign_one_active_contact: another campaign is calling the customer.
Conflicts(c) ==
    \E o \in Contacts \ {c} : CustomerOf[o] = CustomerOf[c] /\ contact[o].state \in Holding

Claimable(k) ==
    {c \in Contacts : /\ CampaignOf[c] = k
                      /\ contact[c].state = "pending"
                      /\ contact[c].due
                      /\ MayRetry(c)
                      /\ Eligible(c)}

\* Mutant: a follow-up reuses the attempt's number.
ClaimedAgain(row) ==
    [row EXCEPT !.state = "dialing", !.attempt = IF @ = 0 THEN 1 ELSE @, !.due = FALSE]

Claimed(row) == [row EXCEPT !.state = "dialing", !.attempt = @ + 1, !.due = FALSE]

\* The invocation turns to one of the claims, or ends.
TurnTo(d, batch) ==
    \/ batch = {} /\ dispatcher' = [dispatcher EXCEPT ![d] = Idle]
    \/ \E cl \in batch : dispatcher' = [dispatcher EXCEPT ![d] =
          [pc |-> "authorize", batch |-> batch \ {cl}, cur |-> cl, result |-> "rejected"]]

\* claim_campaign_contacts: some due rows, of one campaign.  One of them in
\* conflict with the index fails the whole statement: nothing is claimed.
Claim(d, k) ==
    /\ dispatcher[d] = Idle
    /\ \E B \in SUBSET Claimable(k) :
          /\ Cardinality(B) \in 1 .. BatchSize
          /\ \A c \in B : ~Conflicts(c)
          /\ contact' = [c \in Contacts |-> IF c \in B THEN Claimed(contact[c]) ELSE contact[c]]
          /\ TurnTo(d, {[contact |-> c, attempt |-> Claimed(contact[c]).attempt] : c \in B})
    /\ UNCHANGED <<active, callable, phone, leg, dials>>

\* campaign_contact_eligible again, right before dialing.  Outside the calling
\* window, or with the agent or the number disabled, it is false as well.
Authorize(d) ==
    /\ dispatcher[d].pc = "authorize"
    /\ \/ /\ Eligible(dispatcher[d].cur.contact)
          /\ dispatcher' = [dispatcher EXCEPT ![d].pc = "dial"]
       \/ dispatcher' = [dispatcher EXCEPT ![d].pc = "settle", ![d].result = "rejected"]
    /\ UNCHANGED <<active, callable, contact, phone, leg, dials>>

\* One request to the carrier.  A refusal places no call; an answer that is
\* lost, late or malformed leaves open whether one was placed.
Dial(d) ==
    /\ dispatcher[d].pc = "dial"
    /\ LET c == dispatcher[d].cur.contact
           n == dispatcher[d].cur.attempt
       IN  /\ dials' = [dials EXCEPT ![c][n] = @ + 1]
           /\ \/ /\ \E r \in {"accepted", "unknown"} :
                       dispatcher' = [dispatcher EXCEPT ![d].pc = "settle", ![d].result = r]
                 /\ phone' = [phone EXCEPT ![c][n] = "up"]
              \/ /\ \E r \in {"unknown", "rejected", "retryable"} :
                       dispatcher' = [dispatcher EXCEPT ![d].pc = "settle", ![d].result = r]
                 /\ UNCHANGED phone
    /\ UNCHANGED <<active, callable, contact, leg>>

\* The row after settle_campaign_contact.
Settled(c, result) ==
    LET to(state, call) == [contact[c] EXCEPT !.state = state, !.call = call] IN
    CASE result = "accepted" -> to("accepted", contact[c].attempt)
      [] result = "unknown" -> to("uncertain", 0)
      [] result = "rejected" -> to("blocked", 0)
      [] result = "retryable" -> to(IF MayRetry(c) THEN "pending" ELSE "exhausted", 0)

\* create_campaign_call: an accepted row gets its row of calls.
Record(c, n) == leg' = [leg EXCEPT ![c][n] = "queued"]

\* Mutant: the attempt is not compared.
StaleNever(c, n) == FALSE

Stale(c, n) == contact[c].attempt # n

\* Mutant: a row the carrier has already confirmed or closed is settled all the same.
SettlesHeld(c) == contact[c].state \in {"dialing", "accepted", "completed"}

\* A row that is no longer dialing was decided by the carrier's callback.
Settles(c) == contact[c].state = "dialing"

\* settle_campaign_contact: a stale attempt raises, which ends the invocation.
Settle(d) ==
    /\ dispatcher[d].pc = "settle"
    /\ LET c == dispatcher[d].cur.contact
           n == dispatcher[d].cur.attempt
           r == dispatcher[d].result
       IN  \/ /\ Stale(c, n)
              /\ dispatcher' = [dispatcher EXCEPT ![d] = Idle]
              /\ UNCHANGED <<contact, leg>>
           \/ /\ ~Stale(c, n)
              /\ ~Settles(c)
              /\ TurnTo(d, dispatcher[d].batch)
              /\ UNCHANGED <<contact, leg>>
           \/ /\ ~Stale(c, n)
              /\ Settles(c)
              /\ contact' = [contact EXCEPT ![c] = Settled(c, r)]
              /\ IF r = "accepted" THEN leg[c][n] = "none" /\ Record(c, n) ELSE UNCHANGED leg
              /\ TurnTo(d, dispatcher[d].batch)
    /\ UNCHANGED <<active, callable, phone, dials>>

\* Killed, or a statement failed: the rows it holds stay "dialing".
CrashDispatcher(d) ==
    /\ CanCrash
    /\ dispatcher[d] # Idle
    /\ dispatcher' = [dispatcher EXCEPT ![d] = Idle]
    /\ UNCHANGED <<active, callable, contact, phone, leg, dials>>

-------------------------------------------------------------------------------
(* The carrier and the voice gateway.                                       *)

\* Mutant: only a row that still dials can be confirmed.
BindableEarly == {"dialing"}

Bindable == {"dialing", "uncertain"}

\* bind_campaign_callback, for a callback of the answered or the ended call.
Bind(c, n) ==
    /\ phone[c][n] # "none"
    /\ contact[c].attempt = n
    /\ contact[c].state \in Bindable
    /\ leg[c][n] = "none"
    /\ contact' = [contact EXCEPT ![c].state = "accepted", ![c].call = n]
    /\ Record(c, n)
    /\ UNCHANGED <<active, callable, dispatcher, phone, dials>>

\* canAnswerOutbound, begin_call_conversation: only for the row's current call,
\* and only while the contact is still eligible.
Answer(c, n) ==
    /\ phone[c][n] = "up"
    /\ leg[c][n] = "queued"
    /\ contact[c].state = "accepted"
    /\ contact[c].call = n
    /\ Eligible(c)
    /\ leg' = [leg EXCEPT ![c][n] = "talking"]
    /\ UNCHANGED <<active, callable, contact, dispatcher, phone, dials>>

\* Nobody answers, the gateway declines, somebody hangs up.
CarrierEnds(c, n) ==
    /\ phone[c][n] = "up"
    /\ phone' = [phone EXCEPT ![c][n] = "over"]
    /\ UNCHANGED <<active, callable, contact, dispatcher, leg, dials>>

\* complete_campaign_contact, called by the triggers on calls and
\* conversation_outcomes for the accepted row that holds the call.  Of the leads
\* that may not be called only DO_NOT_CONTACT rules out a follow-up.
Complete(c, n, followup) ==
    IF contact[c].state = "accepted" /\ contact[c].call = n
    THEN \/ /\ followup
            /\ MayRetry(c)
            /\ contact' = [contact EXCEPT ![c].state = "pending"]
         \/ /\ followup /\ MayRetry(c) => CustomerOf[c] \notin callable
            /\ contact' = [contact EXCEPT ![c].state = "completed"]
    ELSE UNCHANGED contact

\* The session ends: the caller hung up, the status callback came, the agent is
\* done, time is up.  The call is closed as failed, which completes the contact,
\* when speech failed.  Nothing here hangs up the carrier's call.
SessionEnds(c, n) ==
    /\ leg[c][n] = "talking"
    /\ leg' = [leg EXCEPT ![c][n] = "closing"]
    /\ Complete(c, n, TRUE) \/ UNCHANGED contact
    /\ UNCHANGED <<active, callable, dispatcher, phone, dials>>

\* recordOutcome and its triggers: done with, to be called back, or not to
\* be called again.
RecordOutcome(c, n) ==
    /\ leg[c][n] = "closing"
    /\ leg' = [leg EXCEPT ![c][n] = "closed"]
    /\ \/ \E followup \in BOOLEAN : Complete(c, n, followup) /\ UNCHANGED callable
       \/ Complete(c, n, FALSE) /\ callable' = callable \ {CustomerOf[c]}
    /\ UNCHANGED <<active, dispatcher, phone, dials>>

\* The status callback of an ended call that has no session: its row of calls is
\* walked to the final state, of which busy, no_answer and failed complete the
\* contact; completed and canceled leave it accepted.
Status(c, n) ==
    /\ phone[c][n] = "over"
    /\ leg[c][n] \in {"queued", "lost"}
    /\ leg' = [leg EXCEPT ![c][n] = "closed"]
    /\ Complete(c, n, TRUE) \/ UNCHANGED contact
    /\ UNCHANGED <<active, callable, dispatcher, phone, dials>>

\* The gateway is killed in a session, or between the end and the outcome.
GatewayDies(c, n) ==
    /\ CanCrash
    /\ \/ leg[c][n] = "talking" /\ leg' = [leg EXCEPT ![c][n] = "lost"]
       \/ leg[c][n] = "closing" /\ leg' = [leg EXCEPT ![c][n] = "closed"]
    /\ UNCHANGED <<active, callable, contact, dispatcher, phone, dials>>

\* due_at passes: the retry delay is over.
DelayElapses(c) ==
    /\ contact[c].state = "pending"
    /\ ~contact[c].due
    /\ contact' = [contact EXCEPT ![c].due = TRUE]
    /\ UNCHANGED <<active, callable, dispatcher, phone, leg, dials>>

CallStep(c, n) ==
    Bind(c, n) \/ CarrierEnds(c, n) \/ SessionEnds(c, n) \/ RecordOutcome(c, n) \/ Status(c, n)

DispatcherStep(d) ==
    (\E k \in Campaigns : Claim(d, k)) \/ Authorize(d) \/ Dial(d) \/ Settle(d)

Next ==
    \/ \E c \in Contacts : Enroll(c) \/ DelayElapses(c)
    \/ \E k \in Campaigns : SetCampaign(k)
    \/ \E u \in Customers : SetLead(u)
    \/ \E d \in Dispatchers : DispatcherStep(d) \/ CrashDispatcher(d)
    \/ \E c \in Contacts, n \in Attempts :
          CallStep(c, n) \/ Answer(c, n) \/ GatewayDies(c, n)

Spec == Init /\ [][Next]_vars

\* Calls and sessions end, and the carrier delivers its callbacks sooner or later.
FairSpec == Spec /\ WF_vars(\E c \in Contacts, n \in Attempts : CallStep(c, n))

-------------------------------------------------------------------------------
(* Properties.                                                              *)

\* The carrier and the gateway still have the call.
Ongoing(c, n) == phone[c][n] = "up" /\ leg[c][n] \in {"none", "queued", "talking", "lost"}

\* "Avoid simultaneous calls to one lead even across separate campaigns"
\* (0025_campaigns.sql:175), as far as the code sees calls: of all attempts of
\* all contacts of a customer at most one rings or is in conversation, whatever
\* callbacks, crashes and late answers do in between.
OneOngoingCallPerCustomer ==
    \A c, o \in Contacts, m, n \in Attempts :
        /\ CustomerOf[c] = CustomerOf[o]
        /\ Ongoing(c, m) /\ Ongoing(o, n)
        => c = o /\ m = n

\* The same of the calls as the carrier sees them: while a customer's phone is
\* up, it is not called again.
OneCallPerCustomer ==
    \A c, o \in Contacts, m, n \in Attempts :
        /\ CustomerOf[c] = CustomerOf[o]
        /\ phone[c][m] = "up" /\ phone[o][n] = "up"
        => c = o /\ m = n

\* "Twilio call creation is not assumed to be idempotent"
\* (twilio-outbound-dialer.ts:4): an attempt is requested from the carrier once,
\* and the answer of an attempt is worked on by one dispatcher.
NeverRedialed ==
    /\ \A c \in Contacts, n \in Attempts : dials[c][n] <= 1
    /\ \A d, e \in Dispatchers :
          dispatcher[d] # Idle /\ dispatcher[e] # Idle /\ d # e =>
              (dispatcher[d].batch \cup {dispatcher[d].cur})
                  \cap (dispatcher[e].batch \cup {dispatcher[e].cur}) = {}

\* A row and the carrier agree: a call that goes on is the call of the row's
\* present attempt and keeps the row from being claimed; an accepted row holds
\* its present attempt's call; and a row is uncertain only when nobody is still
\* about to dial or to settle its attempt.
RowMatchesCarrier ==
    \A c \in Contacts :
        LET row == contact[c] IN
        /\ \A n \in Attempts :
              Ongoing(c, n) => row.attempt = n /\ row.state \in Holding
        /\ row.state = "accepted" =>
              row.call = row.attempt /\ phone[c][row.call] # "none" /\ leg[c][row.call] # "none"
        /\ row.state = "uncertain" =>
              \A d \in Dispatchers : dispatcher[d] # Idle =>
                  [contact |-> c, attempt |-> row.attempt]
                      \notin dispatcher[d].batch \cup {dispatcher[d].cur}

\* What a row may become.
Successors(s) ==
    CASE s = "none" -> {"pending"}
      [] s = "pending" -> {"dialing"}
      [] s = "dialing" -> {"accepted", "uncertain", "blocked", "exhausted", "pending"}
      [] s = "uncertain" -> {"accepted"}
      [] s = "accepted" -> {"pending", "completed"}
      [] OTHER -> {}

\* "Signed provider callbacks can win the race against the dial response"
\* (0029_campaign_call_binding.sql:2), and what they decided stands: an accepted
\* row is not made uncertain again, a closed row stays closed, and an attempt is
\* counted by the claim alone.
DecisionsStand ==
    [][\A c \in Contacts :
          /\ contact'[c].state # contact[c].state =>
                contact'[c].state \in Successors(contact[c].state)
          /\ contact'[c].attempt # contact[c].attempt =>
                contact[c].state = "pending" /\ contact'[c].state = "dialing"]_vars

\* A call the carrier placed is never forgotten: even when the dispatcher died or
\* never heard the answer, the callbacks give it a row of calls, and the row is
\* closed.  (As calls are never unplaced, each placed call is closed in the end.)
EveryCallIsAccounted ==
    []<>(\A c \in Contacts, n \in Attempts : phone[c][n] # "none" => leg[c][n] = "closed")
===============================================================================
