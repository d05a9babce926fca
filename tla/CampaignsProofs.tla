--------------------------- MODULE CampaignsProofs ---------------------------
(***************************************************************************)
(* Proofs about Campaigns: for any contacts, customers, campaigns, batches   *)
(* and number of dispatchers.                                               *)
(***************************************************************************)
EXTENDS Campaigns, TLAPS

\* The claims a dispatcher still works on.
Working(d) == IF dispatcher[d] = Idle THEN {} ELSE dispatcher[d].batch \cup {dispatcher[d].cur}

\* A claim nothing was done about yet: its row is as the claim left it.
Fresh(cl) ==
    /\ contact[cl.contact].state = "dialing"
    /\ contact[cl.contact].attempt = cl.attempt
    /\ dials[cl.contact][cl.attempt] = 0
    /\ phone[cl.contact][cl.attempt] = "none"

\* What the answer to a claim's request says about the carrier.
Answered(cl, result) ==
    /\ cl.attempt <= contact[cl.contact].attempt
    /\ result = "accepted" => phone[cl.contact][cl.attempt] # "none"
    /\ result \in {"rejected", "retryable"} => phone[cl.contact][cl.attempt] = "none"

DispatcherOK(d) ==
    dispatcher[d] # Idle =>
        /\ dispatcher[d].cur \notin dispatcher[d].batch
        /\ \A cl \in dispatcher[d].batch : Fresh(cl)
        /\ dispatcher[d].pc \in {"authorize", "dial"} => Fresh(dispatcher[d].cur)
        /\ dispatcher[d].pc = "settle" => Answered(dispatcher[d].cur, dispatcher[d].result)

ClaimsOK ==
    /\ \A d \in Dispatchers : DispatcherOK(d)
    /\ \A d, e \in Dispatchers : d # e => Working(d) \cap Working(e) = {}

\* An attempt's traces: requested at most once, called only when requested,
\* recorded only when called.
AttemptOK(c, n) ==
    /\ dials[c][n] <= 1
    /\ phone[c][n] # "none" => dials[c][n] = 1
    /\ leg[c][n] # "none" => phone[c][n] # "none"
    /\ n > contact[c].attempt => dials[c][n] = 0
    /\ Ongoing(c, n) => n = contact[c].attempt /\ contact[c].state \in Holding
    /\ n = contact[c].attempt /\ contact[c].state \in {"dialing", "uncertain"} => leg[c][n] = "none"

RowOK(c) ==
    /\ \A n \in Attempts : AttemptOK(c, n)
    /\ contact[c].state \in Holding => contact[c].attempt \in Attempts
    /\ contact[c].state = "accepted" =>
          /\ contact[c].call = contact[c].attempt
          /\ phone[c][contact[c].call] # "none"
          /\ leg[c][contact[c].call] # "none"
    /\ contact[c].state = "uncertain" =>
          \A d \in Dispatchers : [contact |-> c, attempt |-> contact[c].attempt] \notin Working(d)

\* The unique index campaign_one_active_contact.
IndexHolds ==
    \A c, o \in Contacts :
        /\ CustomerOf[c] = CustomerOf[o]
        /\ contact[c].state \in Holding /\ contact[o].state \in Holding
        => c = o

IInv == TypeOK /\ ClaimsOK /\ (\A c \in Contacts : RowOK(c)) /\ IndexHolds

-------------------------------------------------------------------------------
(* Types.                                                                   *)

\* A dispatcher at work has a well-typed batch.
LEMMA AtWork ==
    ASSUME TypeOK, NEW d \in Dispatchers, dispatcher[d] # Idle
    PROVE  /\ dispatcher[d].pc \in {"authorize", "dial", "settle"}
           /\ dispatcher[d].batch \subseteq Claims
           /\ dispatcher[d].cur \in Claims
           /\ dispatcher[d].result \in Result
           /\ dispatcher[d] = [pc |-> dispatcher[d].pc, batch |-> dispatcher[d].batch,
                               cur |-> dispatcher[d].cur, result |-> dispatcher[d].result]
BY DEF TypeOK, DispatcherState, Idle

\* Only a dispatcher at work has one of the program counters of the loop.
LEMMA PcSaysAtWork ==
    ASSUME TypeOK, NEW d \in Dispatchers, dispatcher[d].pc \in {"authorize", "dial", "settle"}
    PROVE  dispatcher[d] # Idle
BY DEF Idle

\* A dispatcher that has an answer to settle is well typed.
LEMMA AnswerType ==
    ASSUME TypeOK, NEW d \in Dispatchers, dispatcher[d] # Idle, NEW r \in Result
    PROVE  [dispatcher[d] EXCEPT !.pc = "settle", !.result = r] \in DispatcherState
<1>1. dispatcher[d] \in DispatcherState \ {Idle}
    BY DEF TypeOK
<1>2. QED
    BY <1>1 DEF DispatcherState

\* Turning to the next claim, or ending, keeps the dispatchers well typed.
LEMMA TurnToType ==
    ASSUME TypeOK, NEW d \in Dispatchers, NEW batch \in SUBSET Claims, TurnTo(d, batch)
    PROVE  dispatcher' \in [Dispatchers -> DispatcherState]
<1>1. CASE dispatcher' = [dispatcher EXCEPT ![d] = Idle]
    BY <1>1 DEF TypeOK, DispatcherState
<1>2. CASE \E cl \in batch : dispatcher' = [dispatcher EXCEPT ![d] =
               [pc |-> "authorize", batch |-> batch \ {cl}, cur |-> cl, result |-> "rejected"]]
  <2>1. PICK cl \in batch : dispatcher' = [dispatcher EXCEPT ![d] =
               [pc |-> "authorize", batch |-> batch \ {cl}, cur |-> cl, result |-> "rejected"]]
    BY <1>2
  <2>2. [pc |-> "authorize", batch |-> batch \ {cl}, cur |-> cl, result |-> "rejected"]
            \in DispatcherState
    BY DEF DispatcherState, Result
  <2>3. QED
    BY <2>1, <2>2 DEF TypeOK
<1>3. QED
    BY <1>1, <1>2 DEF TurnTo

\* Writing one attempt's entry of a table changes that entry.
LEMMA EntryWritten ==
    ASSUME NEW S, NEW f \in [Contacts -> [Attempts -> S]],
           NEW c \in Contacts, NEW n \in Attempts, NEW v \in S
    PROVE  /\ [f EXCEPT ![c][n] = v] \in [Contacts -> [Attempts -> S]]
           /\ \A o \in Contacts, m \in Attempts :
                 [f EXCEPT ![c][n] = v][o][m] = IF o = c /\ m = n THEN v ELSE f[o][m]
OBVIOUS

\* Writing the state and the call of a row leaves a row.
LEMMA RowWritten ==
    ASSUME NEW row \in Row, NEW s \in State, NEW call \in 0 .. AttemptLimit
    PROVE  /\ [row EXCEPT !.state = s, !.call = call] \in Row
           /\ [row EXCEPT !.state = s, !.call = call].state = s
           /\ [row EXCEPT !.state = s, !.call = call].call = call
           /\ [row EXCEPT !.state = s, !.call = call].attempt = row.attempt
           /\ [row EXCEPT !.state = s] \in Row
BY DEF Row

\* A claimed row counts one attempt more, and stays within the table's bound.
LEMMA ClaimedType ==
    ASSUME TypeOK, NEW c \in Contacts, contact[c].state = "pending", MayRetry(c)
    PROVE  /\ Claimed(contact[c]) \in Row
           /\ Claimed(contact[c]).state = "dialing"
           /\ Claimed(contact[c]).attempt = contact[c].attempt + 1
           /\ contact[c].attempt + 1 \in Attempts
<1>1. /\ contact[c] \in Row
      /\ MaxAttempts[CampaignOf[c]] \in 1 .. AttemptLimit
      /\ AttemptLimit \in Nat
    BY CampaignAssumption DEF TypeOK
<1>2. contact[c].attempt \in 0 .. AttemptLimit /\ contact[c].attempt + 1 \in 1 .. AttemptLimit
    BY <1>1 DEF Row, MayRetry
<1>3. contact[c].attempt + 1 \in 0 .. AttemptLimit
    BY <1>1, <1>2
<1>4. Claimed(contact[c]) \in Row
    BY <1>1, <1>3 DEF Row, State, Claimed
<1>5. /\ Claimed(contact[c]).state = "dialing"
      /\ Claimed(contact[c]).attempt = contact[c].attempt + 1
    BY <1>1 DEF Row, State, Claimed
<1>6. QED
    BY <1>2, <1>4, <1>5 DEF Attempts

\* A settled row is a row.
LEMMA SettledType ==
    ASSUME TypeOK, NEW c \in Contacts, NEW r \in Result
    PROVE  Settled(c, r) \in Row
<1>1. contact[c] \in Row /\ 0 \in 0 .. AttemptLimit
    BY CampaignAssumption DEF TypeOK
<1>2. \A s \in State, call \in 0 .. AttemptLimit :
          [contact[c] EXCEPT !.state = s, !.call = call] \in Row
    BY <1>1, RowWritten
<1>3. contact[c].attempt \in 0 .. AttemptLimit
    BY <1>1 DEF Row
<1>4. QED
    BY <1>1, <1>2, <1>3 DEF Settled, State, Result

\* What complete_campaign_contact leaves is a table of rows.
LEMMA CompleteType ==
    ASSUME TypeOK, NEW c \in Contacts, NEW n \in Attempts, NEW followup \in BOOLEAN,
           Complete(c, n, followup)
    PROVE  contact' \in [Contacts -> Row]
<1>1. contact[c] \in Row /\ 0 \in 0 .. AttemptLimit
    BY CampaignAssumption DEF TypeOK
<1>2. \A s \in State : [contact[c] EXCEPT !.state = s] \in Row
    BY <1>1, RowWritten
<1>3. \/ UNCHANGED contact
      \/ \E s \in State : contact' = [contact EXCEPT ![c].state = s]
    BY DEF Complete, State
<1>4. QED
    BY <1>2, <1>3 DEF TypeOK

\* A step of a dispatcher keeps the types.
LEMMA DispatcherType ==
    ASSUME TypeOK, NEW d \in Dispatchers, DispatcherStep(d) \/ CrashDispatcher(d)
    PROVE  TypeOK'
<1>1. ASSUME NEW k \in Campaigns, Claim(d, k)
      PROVE  TypeOK'
  <2>1. PICK B \in SUBSET Claimable(k) :
          /\ contact' = [c \in Contacts |-> IF c \in B THEN Claimed(contact[c]) ELSE contact[c]]
          /\ TurnTo(d, {[contact |-> c, attempt |-> Claimed(contact[c]).attempt] : c \in B})
    BY <1>1 DEF Claim
  <2>2. \A c \in B : c \in Contacts /\ contact[c].state = "pending" /\ MayRetry(c)
    BY DEF Claimable
  <2>3. contact' \in [Contacts -> Row]
    BY <2>1, <2>2, ClaimedType DEF TypeOK
  <2>4. {[contact |-> c, attempt |-> Claimed(contact[c]).attempt] : c \in B} \in SUBSET Claims
    BY <2>2, ClaimedType DEF Claims
  <2>5. dispatcher' \in [Dispatchers -> DispatcherState]
    BY <2>1, <2>4, TurnToType
  <2>6. QED
    BY <1>1, <2>3, <2>5 DEF TypeOK, Claim
<1>2. CASE Authorize(d)
  <2>1. dispatcher[d] # Idle
    BY <1>2, PcSaysAtWork DEF Authorize
  <2>2. [dispatcher[d] EXCEPT !.pc = "settle", !.result = "rejected"] \in DispatcherState
    BY <2>1, AnswerType DEF Result
  <2>3. [dispatcher[d] EXCEPT !.pc = "dial"] \in DispatcherState
    BY <2>1 DEF DispatcherState, TypeOK
  <2>4. dispatcher' \in [Dispatchers -> DispatcherState]
    BY <1>2, <2>2, <2>3 DEF Authorize, TypeOK
  <2>5. QED
    BY <1>2, <2>4 DEF Authorize, TypeOK
<1>3. CASE Dial(d)
  <2>1. dispatcher[d] # Idle
    BY <1>3, PcSaysAtWork DEF Dial
  <2>2. \A r \in Result : [dispatcher[d] EXCEPT !.pc = "settle", !.result = r] \in DispatcherState
    BY <2>1, AnswerType
  <2>3. dispatcher[d].cur.contact \in Contacts /\ dispatcher[d].cur.attempt \in Attempts
    BY <2>1, AtWork DEF Claims
  <2> DEFINE c == dispatcher[d].cur.contact
             n == dispatcher[d].cur.attempt
  <2>a. /\ dials' = [dials EXCEPT ![c][n] = @ + 1]
        /\ \E r \in Result :
              dispatcher' = [dispatcher EXCEPT ![d].pc = "settle", ![d].result = r]
        /\ phone' = [phone EXCEPT ![c][n] = "up"] \/ UNCHANGED phone
    BY <1>3 DEF Dial, Result
  <2> HIDE DEF c, n
  <2>b. c \in Contacts /\ n \in Attempts
    BY <2>3 DEF c, n
  <2>4. dispatcher' \in [Dispatchers -> DispatcherState]
    <3>1. PICK r \in Result :
              dispatcher' = [dispatcher EXCEPT ![d].pc = "settle", ![d].result = r]
        BY <2>a
    <3>2. dispatcher' = [dispatcher EXCEPT ![d] =
                            [dispatcher[d] EXCEPT !.pc = "settle", !.result = r]]
        BY <3>1 DEF TypeOK
    <3>3. QED
        BY <2>2, <3>2 DEF TypeOK
  <2>5. phone' \in [Contacts -> [Attempts -> Phone]]
    <3>1. [phone EXCEPT ![c][n] = "up"] \in [Contacts -> [Attempts -> Phone]]
        BY <2>b, EntryWritten DEF TypeOK, Phone
    <3>2. QED
        BY <2>a, <3>1 DEF TypeOK
  <2>6. dials' \in [Contacts -> [Attempts -> Nat]]
    BY <2>a, <2>b DEF TypeOK
  <2>7. QED
    BY <1>3, <2>4, <2>5, <2>6 DEF Dial, TypeOK
<1>4. CASE Settle(d)
  <2>1. dispatcher[d] # Idle
    BY <1>4, PcSaysAtWork DEF Settle
  <2>2. /\ dispatcher[d].cur.contact \in Contacts /\ dispatcher[d].cur.attempt \in Attempts
        /\ dispatcher[d].result \in Result
        /\ dispatcher[d].batch \in SUBSET Claims
    BY <2>1, AtWork DEF Claims
  <2>3. dispatcher' \in [Dispatchers -> DispatcherState]
    <3>1. CASE dispatcher' = [dispatcher EXCEPT ![d] = Idle]
        BY <3>1 DEF TypeOK, DispatcherState
    <3>2. CASE TurnTo(d, dispatcher[d].batch)
        BY <2>2, <3>2, TurnToType
    <3>3. QED
        BY <1>4, <3>1, <3>2 DEF Settle
  <2>4. contact' \in [Contacts -> Row]
    BY <1>4, <2>2, SettledType DEF Settle, TypeOK
  <2>5. leg' \in [Contacts -> [Attempts -> Leg]]
    <3>1. PICK c \in Contacts, n \in Attempts :
              leg' = [leg EXCEPT ![c][n] = "queued"] \/ UNCHANGED leg
        BY <1>4, <2>2 DEF Settle, Record
    <3>2. [leg EXCEPT ![c][n] = "queued"] \in [Contacts -> [Attempts -> Leg]]
        BY EntryWritten DEF TypeOK, Leg
    <3>3. QED
        BY <3>1, <3>2 DEF TypeOK
  <2>6. QED
    BY <1>4, <2>3, <2>4, <2>5 DEF Settle, TypeOK
<1>5. CASE CrashDispatcher(d)
    BY <1>5 DEF CrashDispatcher, TypeOK, DispatcherState
<1>6. QED
    BY <1>1, <1>2, <1>3, <1>4, <1>5 DEF DispatcherStep

\* A step of a call keeps the types.
LEMMA CallType ==
    ASSUME TypeOK, NEW c \in Contacts, NEW n \in Attempts,
           CallStep(c, n) \/ Answer(c, n) \/ GatewayDies(c, n)
    PROVE  TypeOK'
<1>1. CASE Bind(c, n)
  <2>1. contact' \in [Contacts -> Row]
    BY <1>1, ZenonT(60) DEF Bind, TypeOK, Row, State, Attempts
  <2>2. leg' \in [Contacts -> [Attempts -> Leg]]
    BY <1>1 DEF Bind, Record, TypeOK, Leg
  <2>3. QED
    BY <1>1, <2>1, <2>2 DEF Bind, TypeOK
<1>2. CASE Answer(c, n)
    BY <1>2 DEF Answer, TypeOK, Leg
<1>3. CASE CarrierEnds(c, n)
    BY <1>3 DEF CarrierEnds, TypeOK, Phone
<1>4. CASE SessionEnds(c, n)
  <2>1. contact' \in [Contacts -> Row]
    BY <1>4, CompleteType DEF SessionEnds, TypeOK
  <2>2. leg' \in [Contacts -> [Attempts -> Leg]]
    BY <1>4 DEF SessionEnds, TypeOK, Leg
  <2>3. QED
    BY <1>4, <2>1, <2>2 DEF SessionEnds, TypeOK
<1>5. CASE RecordOutcome(c, n)
  <2>1. contact' \in [Contacts -> Row]
    BY <1>5, CompleteType DEF RecordOutcome
  <2>2. leg' \in [Contacts -> [Attempts -> Leg]]
    BY <1>5 DEF RecordOutcome, TypeOK, Leg
  <2>3. callable' \subseteq Customers
    BY <1>5 DEF RecordOutcome, TypeOK
  <2>4. QED
    BY <1>5, <2>1, <2>2, <2>3 DEF RecordOutcome, TypeOK
<1>6. CASE Status(c, n)
  <2>1. contact' \in [Contacts -> Row]
    BY <1>6, CompleteType DEF Status, TypeOK
  <2>2. leg' \in [Contacts -> [Attempts -> Leg]]
    BY <1>6 DEF Status, TypeOK, Leg
  <2>3. QED
    BY <1>6, <2>1, <2>2 DEF Status, TypeOK
<1>7. CASE GatewayDies(c, n)
  <2>1. \/ leg' = [leg EXCEPT ![c][n] = "lost"]
        \/ leg' = [leg EXCEPT ![c][n] = "closed"]
    BY <1>7 DEF GatewayDies
  <2>2. /\ [leg EXCEPT ![c][n] = "lost"] \in [Contacts -> [Attempts -> Leg]]
        /\ [leg EXCEPT ![c][n] = "closed"] \in [Contacts -> [Attempts -> Leg]]
    BY EntryWritten DEF TypeOK, Leg
  <2>3. QED
    BY <1>7, <2>1, <2>2 DEF GatewayDies, TypeOK
<1>8. QED
    BY <1>1, <1>2, <1>3, <1>4, <1>5, <1>6, <1>7 DEF CallStep

\* Every step keeps the types.
LEMMA StepType ==
    ASSUME TypeOK, [Next]_vars
    PROVE  TypeOK'
<1>1. CASE \E c \in Contacts : Enroll(c) \/ DelayElapses(c)
  <2>1. PICK c \in Contacts : Enroll(c) \/ DelayElapses(c)
    BY <1>1
  <2>2. \/ contact' = [contact EXCEPT ![c].state = "pending", ![c].due = TRUE]
        \/ contact' = [contact EXCEPT ![c].due = TRUE]
    BY <2>1 DEF Enroll, DelayElapses
  <2>3. /\ [contact[c] EXCEPT !.state = "pending", !.due = TRUE] \in Row
        /\ [contact[c] EXCEPT !.due = TRUE] \in Row
    BY DEF TypeOK, Row, State
  <2>4. contact' \in [Contacts -> Row]
    BY <2>2, <2>3 DEF TypeOK
  <2>5. QED
    BY <2>1, <2>4 DEF Enroll, DelayElapses, TypeOK
<1>2. CASE \E k \in Campaigns : SetCampaign(k)
    BY <1>2 DEF SetCampaign, TypeOK
<1>3. CASE \E u \in Customers : SetLead(u)
    BY <1>3 DEF SetLead, TypeOK
<1>4. CASE \E d \in Dispatchers : DispatcherStep(d) \/ CrashDispatcher(d)
    BY <1>4, DispatcherType
<1>5. CASE \E c \in Contacts, n \in Attempts : CallStep(c, n) \/ Answer(c, n) \/ GatewayDies(c, n)
    BY <1>5, CallType
<1>6. CASE UNCHANGED vars
    BY <1>6 DEF vars, TypeOK
<1>7. QED
    BY <1>1, <1>2, <1>3, <1>4, <1>5, <1>6 DEF Next

\* The initial state is well typed.
LEMMA InitType == Init => TypeOK
BY CampaignAssumption DEF Init, TypeOK, Row, State, DispatcherState, Phone, Leg, Attempts

\* Rows, dispatchers and calls stay well typed, and a contact's attempts within
\* the table's bound, for any contacts, customers and number of dispatchers.
THEOREM TypeCorrect == Spec => []TypeOK
<1>1. Init => TypeOK
    BY InitType
<1>2. TypeOK /\ [Next]_vars => TypeOK'
    BY StepType
<1>3. QED
    BY <1>1, <1>2, PTL DEF Spec
-------------------------------------------------------------------------------
(* What the steps of an invocation leave of the others' claims.              *)

\* The claims of an idle dispatcher, and of one at work.
LEMMA WorkingIs ==
    ASSUME NEW d \in Dispatchers
    PROVE  /\ dispatcher[d] = Idle => Working(d) = {}
           /\ dispatcher[d] # Idle => Working(d) = dispatcher[d].batch \cup {dispatcher[d].cur}
BY DEF Working

\* A claim that is worked on has a row that counts at least its attempt.
LEMMA WorkingClaim ==
    ASSUME TypeOK, ClaimsOK, NEW d \in Dispatchers, NEW cl \in Working(d)
    PROVE  /\ cl \in Claims
           /\ Fresh(cl) \/ (cl = dispatcher[d].cur /\ Answered(cl, dispatcher[d].result))
           /\ cl.attempt <= contact[cl.contact].attempt
<1>1. dispatcher[d] # Idle /\ cl \in dispatcher[d].batch \cup {dispatcher[d].cur}
    BY DEF Working
<1>2. cl \in Claims
    BY <1>1, AtWork
<1>3. Fresh(cl) \/ (cl = dispatcher[d].cur /\ Answered(cl, dispatcher[d].result))
    BY <1>1, AtWork DEF ClaimsOK, DispatcherOK
<1>4. cl.contact \in Contacts /\ cl.attempt \in Int
    BY <1>2, CampaignAssumption DEF Claims, Attempts
<1>5. cl.attempt <= contact[cl.contact].attempt
    BY <1>3, <1>4 DEF Fresh, Answered
<1>6. QED
    BY <1>2, <1>3, <1>5

\* When only one dispatcher moves, and what it does leaves the others' claims as
\* they were, it is enough to look at that dispatcher.
LEMMA OneMoves ==
    ASSUME TypeOK, ClaimsOK, NEW d \in Dispatchers,
           \A e \in Dispatchers \ {d} : dispatcher'[e] = dispatcher[e],
           \A e \in Dispatchers \ {d} : \A cl \in Working(e) :
              /\ Fresh(cl) => Fresh(cl)'
              /\ \A r \in Result : Answered(cl, r) => Answered(cl, r)',
           DispatcherOK(d)',
           \A e \in Dispatchers \ {d} : Working(d)' \cap Working(e) = {}
    PROVE  ClaimsOK'
<1>1. \A e \in Dispatchers \ {d} : Working(e)' = Working(e)
    BY DEF Working
<1>2. ASSUME NEW e \in Dispatchers \ {d}
      PROVE  DispatcherOK(e)'
  <2>1. CASE dispatcher[e] = Idle
    BY <2>1 DEF DispatcherOK
  <2>2. CASE dispatcher[e] # Idle
    <3>1. DispatcherOK(e)
        BY DEF ClaimsOK
    <3>2. /\ dispatcher[e].cur \in Working(e)
          /\ \A cl \in dispatcher[e].batch : cl \in Working(e)
          /\ dispatcher[e].result \in Result
        BY <2>2, AtWork DEF Working
    <3>3. /\ dispatcher[e].cur \notin dispatcher[e].batch
          /\ \A cl \in dispatcher[e].batch : Fresh(cl)'
        BY <2>2, <3>1, <3>2 DEF DispatcherOK
    <3>4. dispatcher[e].pc \in {"authorize", "dial"} => Fresh(dispatcher[e].cur)'
        BY <2>2, <3>1, <3>2 DEF DispatcherOK
    <3>5. dispatcher[e].pc = "settle" => Answered(dispatcher[e].cur, dispatcher[e].result)'
        BY <2>2, <3>1, <3>2 DEF DispatcherOK
    <3>6. QED
        BY <3>3, <3>4, <3>5 DEF DispatcherOK, Fresh, Answered
  <2>3. QED
    BY <2>1, <2>2
<1>3. \A e \in Dispatchers : DispatcherOK(e)'
    BY <1>2
<1>4. \A e, g \in Dispatchers : e # g => Working(e)' \cap Working(g)' = {}
    BY <1>1 DEF ClaimsOK
<1>5. QED
    BY <1>3, <1>4 DEF ClaimsOK

\* A row stays right while neither it nor the traces of its calls change, and
\* nobody takes its attempt up.
LEMMA RowElsewhere ==
    ASSUME NEW c \in Contacts, RowOK(c),
           contact'[c] = contact[c], phone'[c] = phone[c], leg'[c] = leg[c],
           dials'[c] = dials[c],
           contact[c].state = "uncertain" =>
              \A d \in Dispatchers :
                  [contact |-> c, attempt |-> contact[c].attempt] \notin Working(d)'
    PROVE  RowOK(c)'
<1>1. \A n \in Attempts : AttemptOK(c, n)'
    BY DEF RowOK, AttemptOK, Ongoing
<1>2. QED
    BY <1>1 DEF RowOK

\* The index holds while no row becomes one that holds its customer.
LEMMA IndexKept ==
    ASSUME IndexHolds,
           \A c \in Contacts : contact'[c].state \in Holding => contact[c].state \in Holding
    PROVE  IndexHolds'
BY DEF IndexHolds
-------------------------------------------------------------------------------
(* The steps of the calls.                                                  *)

\* A step of no dispatcher keeps the claims right when it places no call, counts
\* no attempt, and takes no row that was not called away from its dispatcher.
LEMMA ClaimsUntouched ==
    ASSUME TypeOK, ClaimsOK, UNCHANGED <<dispatcher, dials>>,
           \A o \in Contacts, m \in Attempts : phone'[o][m] = "none" <=> phone[o][m] = "none",
           \A o \in Contacts :
              /\ contact'[o].attempt = contact[o].attempt
              /\ contact[o].state = "dialing" /\ contact'[o].state # "dialing" =>
                    phone[o][contact[o].attempt] # "none"
    PROVE  ClaimsOK'
<1>1. \A cl \in Claims : cl.contact \in Contacts /\ cl.attempt \in Attempts
    BY DEF Claims
<1>2. \A cl \in Claims : Fresh(cl) => Fresh(cl)'
    BY <1>1 DEF Fresh
<1>3. \A cl \in Claims, r \in Result : Answered(cl, r) => Answered(cl, r)'
    BY <1>1 DEF Answered
<1>4. ASSUME NEW d \in Dispatchers
      PROVE  DispatcherOK(d)'
  <2>1. CASE dispatcher[d] = Idle
    BY <2>1 DEF DispatcherOK
  <2>2. CASE dispatcher[d] # Idle
    <3>1. DispatcherOK(d)
        BY DEF ClaimsOK
    <3>2. /\ dispatcher[d].cur \in Claims /\ dispatcher[d].batch \subseteq Claims
          /\ dispatcher[d].result \in Result
        BY <2>2, AtWork
    <3>3. /\ dispatcher[d].cur \notin dispatcher[d].batch
          /\ \A cl \in dispatcher[d].batch : Fresh(cl)'
        BY <1>2, <2>2, <3>1, <3>2 DEF DispatcherOK
    <3>4. dispatcher[d].pc \in {"authorize", "dial"} => Fresh(dispatcher[d].cur)'
        BY <1>2, <2>2, <3>1, <3>2 DEF DispatcherOK
    <3>5. dispatcher[d].pc = "settle" => Answered(dispatcher[d].cur, dispatcher[d].result)'
        BY <1>3, <2>2, <3>1, <3>2 DEF DispatcherOK
    <3>6. QED
        BY <3>3, <3>4, <3>5 DEF DispatcherOK, Fresh, Answered
  <2>3. QED
    BY <2>1, <2>2
<1>5. \A d \in Dispatchers : Working(d)' = Working(d)
    BY DEF Working
<1>6. QED
    BY <1>4, <1>5 DEF ClaimsOK

\* The row of calls of an attempt moves on, and the contact it is the call of is
\* perhaps completed, or called back, once the call is not ongoing any more.
LEMMA LegMoves ==
    ASSUME IInv, NEW c \in Contacts, NEW n \in Attempts, NEW v \in Leg \ {"none"},
           leg[c][n] # "none", leg' = [leg EXCEPT ![c][n] = v],
           UNCHANGED <<dispatcher, phone, dials>>,
           Ongoing(c, n)' => Ongoing(c, n),
           \/ UNCHANGED contact
           \/ /\ contact[c].state = "accepted" /\ contact[c].call = n
              /\ \E s \in {"pending", "completed"} : contact' = [contact EXCEPT ![c].state = s]
              /\ ~Ongoing(c, n)'
    PROVE  ClaimsOK' /\ (\A o \in Contacts : RowOK(o)') /\ IndexHolds'
<1>1. /\ \A o \in Contacts, m \in Attempts :
            leg'[o][m] = IF o = c /\ m = n THEN v ELSE leg[o][m]
      /\ leg \in [Contacts -> [Attempts -> Leg]]
      /\ leg' \in [Contacts -> [Attempts -> Leg]]
    BY EntryWritten DEF IInv, TypeOK
<1>2. /\ \A o \in Contacts : /\ contact'[o].attempt = contact[o].attempt
                             /\ contact'[o].call = contact[o].call
                             /\ o # c => contact'[o] = contact[o]
      /\ \/ contact'[c].state = contact[c].state
         \/ /\ contact[c].state = "accepted" /\ contact[c].call = n
            /\ contact'[c].state \in {"pending", "completed"}
            /\ ~Ongoing(c, n)'
    BY DEF IInv, TypeOK, Row
<1>3. ClaimsOK'
    BY <1>2, ClaimsUntouched DEF IInv
<1>4. ASSUME NEW o \in Contacts \ {c}
      PROVE  RowOK(o)'
  <2>1. leg'[o] = leg[o] /\ contact'[o] = contact[o]
    BY <1>2 DEF IInv, TypeOK
  <2>2. \A d \in Dispatchers : Working(d)' = Working(d)
    BY DEF Working
  <2>3. RowOK(o)
    BY DEF IInv
  <2>4. QED
    BY <2>1, <2>2, <2>3, RowElsewhere DEF RowOK
<1>5. RowOK(c)'
  <2>1. RowOK(c) /\ \A m \in Attempts : AttemptOK(c, m)
    BY DEF IInv, RowOK
  <2>2. ASSUME NEW m \in Attempts
        PROVE  AttemptOK(c, m)'
    <3>1. AttemptOK(c, m)
        BY <2>1
    <3>2. CASE m = n
        BY <1>1, <1>2, <2>1, <3>1, <3>2 DEF AttemptOK, RowOK, Holding
    <3>3. CASE m # n
      <4>1. Ongoing(c, m)' => Ongoing(c, m)
          BY <1>1, <3>3 DEF Ongoing
      <4>2. QED
          BY <1>1, <1>2, <2>1, <3>1, <3>3, <4>1 DEF AttemptOK, RowOK, Holding
    <3>4. QED
        BY <3>2, <3>3
  <2>3. contact'[c].state \in Holding => contact'[c].attempt \in Attempts
    BY <1>2, <2>1 DEF RowOK, Holding
  <2>4. contact'[c].state = "accepted" =>
          /\ contact'[c].call = contact'[c].attempt
          /\ phone'[c][contact'[c].call] # "none"
          /\ leg'[c][contact'[c].call] # "none"
    BY <1>1, <1>2, <2>1 DEF RowOK, Holding
  <2>5. contact'[c].state = "uncertain" =>
          \A d \in Dispatchers : [contact |-> c, attempt |-> contact'[c].attempt] \notin Working(d)'
    BY <1>2, <2>1 DEF RowOK, Working
  <2>6. QED
    BY <2>2, <2>3, <2>4, <2>5 DEF RowOK
<1>6. IndexHolds'
    BY <1>2, IndexKept DEF IInv, Holding
<1>7. QED
    BY <1>3, <1>4, <1>5, <1>6
\* A callback that binds its call: the row holds the present attempt's call.
LEMMA BindKeeps ==
    ASSUME IInv, NEW c \in Contacts, NEW n \in Attempts, Bind(c, n)
    PROVE  ClaimsOK' /\ (\A o \in Contacts : RowOK(o)') /\ IndexHolds'
<1>1. /\ phone[c][n] # "none" /\ leg[c][n] = "none"
      /\ contact[c].attempt = n /\ contact[c].state \in {"dialing", "uncertain"}
      /\ contact' = [contact EXCEPT ![c].state = "accepted", ![c].call = n]
      /\ leg' = [leg EXCEPT ![c][n] = "queued"]
      /\ UNCHANGED <<dispatcher, phone, dials>>
    BY DEF Bind, Bindable, Record
<1>2. /\ \A o \in Contacts, m \in Attempts :
            leg'[o][m] = IF o = c /\ m = n THEN "queued" ELSE leg[o][m]
      /\ leg' \in [Contacts -> [Attempts -> Leg]]
    BY <1>1, EntryWritten DEF IInv, TypeOK, Leg
<1>3. /\ \A o \in Contacts : /\ contact'[o].attempt = contact[o].attempt
                             /\ o # c => contact'[o] = contact[o]
      /\ contact'[c].state = "accepted" /\ contact'[c].call = n
    BY <1>1 DEF IInv, TypeOK, Row
<1>4. ClaimsOK'
    BY <1>1, <1>3, ClaimsUntouched DEF IInv
<1>5. ASSUME NEW o \in Contacts \ {c}
      PROVE  RowOK(o)'
  <2>1. leg'[o] = leg[o] /\ contact'[o] = contact[o]
    BY <1>1, <1>3 DEF IInv, TypeOK
  <2>2. \A d \in Dispatchers : Working(d)' = Working(d)
    BY <1>1 DEF Working
  <2>3. RowOK(o)
    BY DEF IInv
  <2>4. QED
    BY <1>1, <2>1, <2>2, <2>3, RowElsewhere DEF RowOK
<1>6. RowOK(c)'
  <2>1. RowOK(c) /\ \A m \in Attempts : AttemptOK(c, m)
    BY DEF IInv, RowOK
  <2>2. ASSUME NEW m \in Attempts
        PROVE  AttemptOK(c, m)'
    <3>1. AttemptOK(c, m)
        BY <2>1
    <3>2. CASE m = n
        BY <1>1, <1>2, <1>3, <3>1, <3>2 DEF AttemptOK, Holding
    <3>3. CASE m # n
      <4>1. Ongoing(c, m)' => Ongoing(c, m)
          BY <1>1, <1>2, <3>3 DEF Ongoing
      <4>2. QED
          BY <1>1, <1>2, <1>3, <3>1, <3>3, <4>1 DEF AttemptOK, Holding
    <3>4. QED
        BY <3>2, <3>3
  <2>3. QED
    BY <1>1, <1>2, <1>3, <2>1, <2>2 DEF RowOK, Holding
<1>7. IndexHolds'
    BY <1>1, <1>3, IndexKept DEF IInv, Holding
<1>8. QED
    BY <1>4, <1>5, <1>6, <1>7

\* The carrier's call ends.
LEMMA CarrierEndsKeeps ==
    ASSUME IInv, NEW c \in Contacts, NEW n \in Attempts, CarrierEnds(c, n)
    PROVE  ClaimsOK' /\ (\A o \in Contacts : RowOK(o)') /\ IndexHolds'
<1>1. /\ phone[c][n] = "up" /\ phone' = [phone EXCEPT ![c][n] = "over"]
      /\ UNCHANGED <<contact, dispatcher, leg, dials>>
    BY DEF CarrierEnds
<1>2. /\ \A o \in Contacts, m \in Attempts :
            phone'[o][m] = IF o = c /\ m = n THEN "over" ELSE phone[o][m]
    BY <1>1, EntryWritten DEF IInv, TypeOK, Phone
<1>3. ClaimsOK'
    BY <1>1, <1>2, ClaimsUntouched DEF IInv
<1>4. ASSUME NEW o \in Contacts
      PROVE  RowOK(o)'
  <2>1. RowOK(o)
    BY DEF IInv
  <2>2. \A d \in Dispatchers : Working(d)' = Working(d)
    BY <1>1 DEF Working
  <2>3. ASSUME NEW m \in Attempts
        PROVE  AttemptOK(o, m)'
    <3>1. AttemptOK(o, m)
        BY <2>1 DEF RowOK
    <3>2. Ongoing(o, m)' => Ongoing(o, m)
        BY <1>1, <1>2 DEF Ongoing
    <3>3. QED
        BY <1>1, <1>2, <3>1, <3>2 DEF AttemptOK
  <2>4. contact[o].state = "accepted" => phone'[o][contact[o].call] # "none"
    <3>1. contact[o].state = "accepted" => contact[o].call \in Attempts
        BY <2>1 DEF RowOK, Holding
    <3>2. QED
        BY <1>2, <2>1, <3>1 DEF RowOK
  <2>5. QED
    BY <1>1, <2>1, <2>2, <2>3, <2>4 DEF RowOK
<1>5. IndexHolds'
    BY <1>1, IndexKept DEF IInv
<1>6. QED
    BY <1>3, <1>4, <1>5

\* What complete_campaign_contact may do to the contact of a call.
LEMMA CompleteIs ==
    ASSUME NEW c, NEW n, NEW followup \in BOOLEAN, Complete(c, n, followup)
    PROVE  \/ UNCHANGED contact
           \/ /\ contact[c].state = "accepted" /\ contact[c].call = n
              /\ \E s \in {"pending", "completed"} : contact' = [contact EXCEPT ![c].state = s]
BY DEF Complete

\* Every step of a call and of its session keeps the invariant.
LEMMA CallKeeps ==
    ASSUME IInv, NEW c \in Contacts, NEW n \in Attempts,
           CallStep(c, n) \/ Answer(c, n) \/ GatewayDies(c, n)
    PROVE  ClaimsOK' /\ (\A o \in Contacts : RowOK(o)') /\ IndexHolds'
<1>1. ASSUME NEW v \in Leg \ {"none"}, leg' = [leg EXCEPT ![c][n] = v]
      PROVE  leg'[c][n] = v
    BY <1>1, EntryWritten DEF IInv, TypeOK
<1>2. CASE Answer(c, n)
  <2>1. leg[c][n] = "queued" /\ leg' = [leg EXCEPT ![c][n] = "talking"]
    BY <1>2 DEF Answer
  <2>2. Ongoing(c, n)' => Ongoing(c, n)
    BY <1>2, <2>1 DEF Answer, Ongoing
  <2>3. QED
    BY <1>2, <2>1, <2>2, LegMoves DEF Answer, Leg
<1>3. CASE SessionEnds(c, n)
  <2>1. leg[c][n] = "talking" /\ leg' = [leg EXCEPT ![c][n] = "closing"]
    BY <1>3 DEF SessionEnds
  <2>2. ~Ongoing(c, n)'
    BY <1>1, <2>1 DEF Ongoing, Leg
  <2>3. \/ UNCHANGED contact
        \/ /\ contact[c].state = "accepted" /\ contact[c].call = n
           /\ \E s \in {"pending", "completed"} : contact' = [contact EXCEPT ![c].state = s]
    BY <1>3, CompleteIs DEF SessionEnds
  <2>4. QED
    BY <1>3, <2>1, <2>2, <2>3, LegMoves DEF SessionEnds, Leg
<1>4. CASE RecordOutcome(c, n)
  <2>1. leg[c][n] = "closing" /\ leg' = [leg EXCEPT ![c][n] = "closed"]
    BY <1>4 DEF RecordOutcome
  <2>2. ~Ongoing(c, n)'
    BY <1>1, <2>1 DEF Ongoing, Leg
  <2>3. \/ UNCHANGED contact
        \/ /\ contact[c].state = "accepted" /\ contact[c].call = n
           /\ \E s \in {"pending", "completed"} : contact' = [contact EXCEPT ![c].state = s]
    <3>1. PICK followup \in BOOLEAN : Complete(c, n, followup)
        BY <1>4 DEF RecordOutcome
    <3>2. QED
        BY <3>1, CompleteIs
  <2>4. QED
    BY <1>4, <2>1, <2>2, <2>3, LegMoves DEF RecordOutcome, Leg
<1>5. CASE Status(c, n)
  <2>1. leg[c][n] # "none" /\ leg' = [leg EXCEPT ![c][n] = "closed"]
    BY <1>5 DEF Status
  <2>2. ~Ongoing(c, n)'
    BY <1>1, <2>1 DEF Ongoing, Leg
  <2>3. \/ UNCHANGED contact
        \/ /\ contact[c].state = "accepted" /\ contact[c].call = n
           /\ \E s \in {"pending", "completed"} : contact' = [contact EXCEPT ![c].state = s]
    BY <1>5, CompleteIs DEF Status
  <2>4. QED
    BY <1>5, <2>1, <2>2, <2>3, LegMoves DEF Status, Leg
<1>6. CASE GatewayDies(c, n)
  <2>1. CASE leg[c][n] = "talking" /\ leg' = [leg EXCEPT ![c][n] = "lost"]
    <3>1. Ongoing(c, n)' => Ongoing(c, n)
        BY <1>6, <2>1 DEF GatewayDies, Ongoing
    <3>2. QED
        BY <1>6, <2>1, <3>1, LegMoves DEF GatewayDies, Leg
  <2>2. CASE leg[c][n] = "closing" /\ leg' = [leg EXCEPT ![c][n] = "closed"]
    <3>1. ~Ongoing(c, n)'
        BY <1>1, <2>2 DEF Ongoing, Leg
    <3>2. QED
        BY <1>6, <2>2, <3>1, LegMoves DEF GatewayDies, Leg
  <2>3. QED
    BY <1>6, <2>1, <2>2 DEF GatewayDies
<1>7. QED
    BY <1>2, <1>3, <1>4, <1>5, <1>6, BindKeeps, CarrierEndsKeeps DEF CallStep

\* Enrolling a contact and the end of its delay concern rows that hold nobody.
LEMMA RowOpens ==
    ASSUME IInv, NEW c \in Contacts, Enroll(c) \/ DelayElapses(c)
    PROVE  ClaimsOK' /\ (\A o \in Contacts : RowOK(o)') /\ IndexHolds'
<1>1. UNCHANGED <<dispatcher, phone, leg, dials>>
    BY DEF Enroll, DelayElapses
<1>2. /\ \A o \in Contacts : /\ contact'[o].attempt = contact[o].attempt
                             /\ o # c => contact'[o] = contact[o]
      /\ contact[c].state \notin Holding /\ contact'[c].state = "pending"
  <2>1. CASE Enroll(c)
    BY <2>1 DEF Enroll, IInv, TypeOK, Row, Holding
  <2>2. CASE DelayElapses(c)
    BY <2>2 DEF DelayElapses, IInv, TypeOK, Row, Holding
  <2>3. QED
    BY <2>1, <2>2
<1>3. ClaimsOK'
    BY <1>1, <1>2, ClaimsUntouched DEF IInv, Holding
<1>4. \A d \in Dispatchers : Working(d)' = Working(d)
    BY <1>1 DEF Working
<1>5. ASSUME NEW o \in Contacts \ {c}
      PROVE  RowOK(o)'
  <2>1. RowOK(o)
    BY DEF IInv
  <2>2. QED
    BY <1>1, <1>2, <1>4, <2>1, RowElsewhere DEF RowOK
<1>6. RowOK(c)'
  <2>1. RowOK(c)
    BY DEF IInv
  <2>2. \A n \in Attempts : AttemptOK(c, n)'
    BY <1>1, <1>2, <2>1 DEF RowOK, AttemptOK, Ongoing
  <2>3. QED
    BY <1>2, <2>2 DEF RowOK, Holding
<1>7. IndexHolds'
    BY <1>2, IndexKept DEF IInv, Holding
<1>8. QED
    BY <1>3, <1>5, <1>6, <1>7
-------------------------------------------------------------------------------
(* The steps of a dispatcher.                                               *)

\* A dispatcher that turns to its next claim works on those it still had.
LEMMA TurnToKeeps ==
    ASSUME TypeOK, NEW d \in Dispatchers, NEW batch \in SUBSET Claims, TurnTo(d, batch),
           \A cl \in batch : Fresh(cl)'
    PROVE  /\ \A e \in Dispatchers \ {d} : dispatcher'[e] = dispatcher[e]
           /\ DispatcherOK(d)'
           /\ Working(d)' \subseteq batch
<1>1. CASE dispatcher' = [dispatcher EXCEPT ![d] = Idle]
  <2>1. dispatcher'[d] = Idle /\ \A e \in Dispatchers \ {d} : dispatcher'[e] = dispatcher[e]
    BY <1>1 DEF TypeOK
  <2>2. QED
    BY <2>1 DEF DispatcherOK, Working
<1>2. CASE \E cl \in batch : dispatcher' = [dispatcher EXCEPT ![d] =
               [pc |-> "authorize", batch |-> batch \ {cl}, cur |-> cl, result |-> "rejected"]]
  <2>1. PICK cl \in batch : dispatcher' = [dispatcher EXCEPT ![d] =
               [pc |-> "authorize", batch |-> batch \ {cl}, cur |-> cl, result |-> "rejected"]]
    BY <1>2
  <2>2. \A e \in Dispatchers \ {d} : dispatcher'[e] = dispatcher[e]
    BY <2>1 DEF TypeOK
  <2>3. /\ dispatcher'[d].pc = "authorize"
        /\ dispatcher'[d].batch = batch \ {cl}
        /\ dispatcher'[d].cur = cl
    BY <2>1 DEF TypeOK
  <2>4. Working(d)' \subseteq batch
    BY <2>3 DEF Working
  <2>5. DispatcherOK(d)'
    BY <2>3 DEF DispatcherOK, Fresh
  <2>6. QED
    BY <2>2, <2>4, <2>5
<1>3. QED
    BY <1>1, <1>2 DEF TurnTo

\* A claim: its rows are called by nobody yet, and no other row holds their customers.
LEMMA ClaimKeeps ==
    ASSUME IInv, NEW d \in Dispatchers, NEW k \in Campaigns, Claim(d, k)
    PROVE  ClaimsOK' /\ (\A o \in Contacts : RowOK(o)') /\ IndexHolds'
<1>1. PICK B \in SUBSET Claimable(k) :
        /\ \A c \in B : ~Conflicts(c)
        /\ contact' = [c \in Contacts |-> IF c \in B THEN Claimed(contact[c]) ELSE contact[c]]
        /\ TurnTo(d, {[contact |-> c, attempt |-> Claimed(contact[c]).attempt] : c \in B})
    BY DEF Claim
<1>2. dispatcher[d] = Idle /\ UNCHANGED <<phone, leg, dials>>
    BY DEF Claim
<1>3. ASSUME NEW c \in B
      PROVE  /\ c \in Contacts /\ CampaignOf[c] = k /\ contact[c].state = "pending"
             /\ contact'[c].state = "dialing"
             /\ contact'[c].attempt = contact[c].attempt + 1
             /\ contact'[c].attempt = Claimed(contact[c]).attempt
             /\ contact'[c].attempt \in Attempts
  <2>1. c \in Contacts /\ CampaignOf[c] = k /\ contact[c].state = "pending" /\ MayRetry(c)
    BY DEF Claimable
  <2>2. contact'[c] = Claimed(contact[c])
    BY <1>1, <2>1
  <2>3. QED
    BY <2>1, <2>2, ClaimedType DEF IInv
<1>4. \A c \in Contacts \ B : contact'[c] = contact[c]
    BY <1>1
<1>5. \A c \in Contacts : contact[c].attempt \in Nat /\ contact'[c].attempt >= contact[c].attempt
  <2>1. \A c \in Contacts : contact[c].attempt \in Nat
    BY CampaignAssumption DEF IInv, TypeOK, Row
  <2>2. QED
    BY <1>3, <1>4, <2>1
<1> DEFINE batch == {[contact |-> c, attempt |-> Claimed(contact[c]).attempt] : c \in B}
<1>6. \A cl \in batch : /\ cl.contact \in B
                        /\ cl.attempt = contact'[cl.contact].attempt
                        /\ cl \in Claims
    BY <1>3 DEF Claims
<1>7. ASSUME NEW c \in B
      PROVE  /\ dials[c][contact'[c].attempt] = 0
             /\ phone[c][contact'[c].attempt] = "none"
             /\ leg[c][contact'[c].attempt] = "none"
  <2>1. RowOK(c) /\ contact'[c].attempt \in Attempts
    BY <1>3 DEF IInv
  <2>2. AttemptOK(c, contact'[c].attempt) /\ contact'[c].attempt > contact[c].attempt
    BY <1>3, <1>5, <2>1 DEF RowOK
  <2>3. QED
    BY <2>2 DEF AttemptOK
<1>8. \A cl \in batch : Fresh(cl)'
    BY <1>2, <1>3, <1>6, <1>7 DEF Fresh
<1>9. TurnTo(d, batch) /\ batch \in SUBSET Claims
    BY <1>1, <1>6
<1> HIDE DEF batch
<1>10. /\ \A e \in Dispatchers \ {d} : dispatcher'[e] = dispatcher[e]
       /\ DispatcherOK(d)'
       /\ Working(d)' \subseteq batch
    BY <1>8, <1>9, TurnToKeeps DEF IInv
<1>11. ASSUME NEW e \in Dispatchers \ {d}, NEW cl \in Working(e)
       PROVE  /\ Fresh(cl) => Fresh(cl)'
              /\ \A r \in Result : Answered(cl, r) => Answered(cl, r)'
              /\ cl \notin batch
  <2>1. /\ cl \in Claims /\ cl.attempt <= contact[cl.contact].attempt
        /\ cl.contact \in Contacts /\ cl.attempt \in Nat
    BY WorkingClaim, CampaignAssumption DEF IInv, Claims, Attempts
  <2>2. Fresh(cl) => cl.contact \notin B
    BY <1>3 DEF Fresh
  <2>3. Fresh(cl) => Fresh(cl)'
    BY <1>2, <1>4, <2>1, <2>2 DEF Fresh
  <2>4. \A r \in Result : Answered(cl, r) => Answered(cl, r)'
    <3>1. cl.attempt <= contact'[cl.contact].attempt
        BY <1>3, <1>4, <1>5, <2>1
    <3>2. QED
        BY <1>2, <3>1 DEF Answered
  <2>5. cl \notin batch
    BY <1>3, <1>5, <1>6, <2>1
  <2>6. QED
    BY <2>3, <2>4, <2>5
<1>12. ClaimsOK'
  <2>1. \A e \in Dispatchers \ {d} : Working(d)' \cap Working(e) = {}
    BY <1>10, <1>11
  <2>2. QED
    BY <1>10, <1>11, <2>1, OneMoves DEF IInv
<1>13. ASSUME NEW o \in Contacts \ B
       PROVE  RowOK(o)'
  <2>1. RowOK(o)
    BY DEF IInv
  <2>2. [contact |-> o, attempt |-> contact[o].attempt] \notin Working(d)'
    BY <1>6, <1>10
  <2>3. \A e \in Dispatchers \ {d} : Working(e)' = Working(e)
    BY <1>10 DEF Working
  <2>4. contact[o].state = "uncertain" =>
          \A e \in Dispatchers : [contact |-> o, attempt |-> contact[o].attempt] \notin Working(e)'
    BY <2>1, <2>2, <2>3 DEF RowOK
  <2>5. QED
    BY <1>2, <1>4, <2>1, <2>4, RowElsewhere
<1>14. ASSUME NEW o \in B
       PROVE  RowOK(o)'
  <2>1. RowOK(o) /\ o \in Contacts
    BY <1>3 DEF IInv
  <2>2. ASSUME NEW m \in Attempts
        PROVE  AttemptOK(o, m)'
    <3>1. AttemptOK(o, m) /\ m \in Int
        BY <2>1, CampaignAssumption DEF RowOK, Attempts
    <3>2. ~Ongoing(o, m)
        BY <1>3, <3>1 DEF AttemptOK, Holding
    <3>3. m > contact'[o].attempt => dials[o][m] = 0
        BY <1>3, <1>5, <2>1, <3>1 DEF AttemptOK
    <3>4. QED
        BY <1>2, <1>3, <1>7, <3>1, <3>2, <3>3 DEF AttemptOK, Ongoing
  <2>3. QED
    BY <1>3, <2>2 DEF RowOK
<1>15. IndexHolds'
  <2>1. ASSUME NEW c \in Contacts, NEW o \in Contacts, CustomerOf[c] = CustomerOf[o],
               contact'[c].state \in Holding, contact'[o].state \in Holding
        PROVE  c = o
    <3>1. CASE c \in B /\ o \in B
        BY <1>3, <2>1, <3>1, CampaignAssumption
    <3>2. CASE c \in B /\ o \notin B
        BY <1>1, <1>4, <2>1, <3>2 DEF Conflicts
    <3>3. CASE c \notin B /\ o \in B
        BY <1>1, <1>4, <2>1, <3>3 DEF Conflicts
    <3>4. CASE c \notin B /\ o \notin B
        BY <1>4, <2>1, <3>4 DEF IInv, IndexHolds
    <3>5. QED
        BY <3>1, <3>2, <3>3, <3>4
  <2>2. QED
    BY <2>1 DEF IndexHolds
<1>16. QED
    BY <1>12, <1>13, <1>14, <1>15
\* A dispatcher that moves in its loop, with nothing else changed, works on no claim
\* it did not work on before.
LEMMA NothingElse ==
    ASSUME IInv, NEW d \in Dispatchers, UNCHANGED <<contact, phone, leg, dials>>,
           \A e \in Dispatchers \ {d} : dispatcher'[e] = dispatcher[e],
           DispatcherOK(d)', Working(d)' \subseteq Working(d)
    PROVE  ClaimsOK' /\ (\A o \in Contacts : RowOK(o)') /\ IndexHolds'
<1>1. ClaimsOK'
  <2>1. \A e \in Dispatchers \ {d} : Working(d)' \cap Working(e) = {}
    BY DEF IInv, ClaimsOK
  <2>2. \A e \in Dispatchers \ {d} : \A cl \in Working(e) :
              /\ Fresh(cl) => Fresh(cl)'
              /\ \A r \in Result : Answered(cl, r) => Answered(cl, r)'
    BY DEF Fresh, Answered
  <2>3. QED
    BY <2>1, <2>2, OneMoves DEF IInv
<1>2. \A e \in Dispatchers \ {d} : Working(e)' = Working(e)
    BY DEF Working
<1>3. ASSUME NEW o \in Contacts
      PROVE  RowOK(o)'
  <2>1. RowOK(o)
    BY DEF IInv
  <2>2. contact[o].state = "uncertain" =>
          \A e \in Dispatchers : [contact |-> o, attempt |-> contact[o].attempt] \notin Working(e)'
    BY <1>2, <2>1 DEF RowOK
  <2>3. QED
    BY <2>1, <2>2, RowElsewhere
<1>4. IndexHolds'
    BY IndexKept DEF IInv
<1>5. QED
    BY <1>1, <1>3, <1>4

\* The authorization of a claim that was not called.
LEMMA AuthorizeKeeps ==
    ASSUME IInv, NEW d \in Dispatchers, Authorize(d)
    PROVE  ClaimsOK' /\ (\A o \in Contacts : RowOK(o)') /\ IndexHolds'
<1>1. dispatcher[d] # Idle /\ dispatcher[d].pc = "authorize"
    BY PcSaysAtWork DEF Authorize, IInv
<1>2. /\ \A e \in Dispatchers \ {d} : dispatcher'[e] = dispatcher[e]
      /\ dispatcher'[d].batch = dispatcher[d].batch
      /\ dispatcher'[d].cur = dispatcher[d].cur
      /\ \/ dispatcher'[d].pc = "dial"
         \/ dispatcher'[d].pc = "settle" /\ dispatcher'[d].result = "rejected"
  <2>1. CASE dispatcher' = [dispatcher EXCEPT ![d].pc = "dial"]
    BY <1>1, <2>1, AtWork DEF IInv, TypeOK
  <2>2. CASE dispatcher' = [dispatcher EXCEPT ![d].pc = "settle", ![d].result = "rejected"]
    BY <1>1, <2>2, AtWork DEF IInv, TypeOK
  <2>3. QED
    BY <2>1, <2>2 DEF Authorize
<1>3. Fresh(dispatcher[d].cur) /\ DispatcherOK(d)
    BY <1>1 DEF IInv, ClaimsOK, DispatcherOK
<1>4. UNCHANGED <<contact, phone, leg, dials>>
    BY DEF Authorize
<1>5. Fresh(dispatcher[d].cur) => Answered(dispatcher[d].cur, "rejected")
  <2>1. dispatcher[d].cur \in Claims
    BY <1>1, AtWork DEF IInv
  <2>2. dispatcher[d].cur.attempt \in Int
    BY <2>1, CampaignAssumption DEF Claims, Attempts
  <2>3. QED
    BY <2>2 DEF Fresh, Answered
<1>6. DispatcherOK(d)'
    BY <1>1, <1>2, <1>3, <1>4, <1>5 DEF DispatcherOK, Fresh, Answered
<1>7. Working(d)' \subseteq Working(d)
    BY <1>1, <1>2 DEF Working
<1>8. QED
    BY <1>2, <1>4, <1>6, <1>7, NothingElse

\* A dispatcher that dies works on nothing.
LEMMA CrashKeeps ==
    ASSUME IInv, NEW d \in Dispatchers, CrashDispatcher(d)
    PROVE  ClaimsOK' /\ (\A o \in Contacts : RowOK(o)') /\ IndexHolds'
<1>1. /\ dispatcher'[d] = Idle /\ \A e \in Dispatchers \ {d} : dispatcher'[e] = dispatcher[e]
      /\ UNCHANGED <<contact, phone, leg, dials>>
    BY DEF CrashDispatcher, IInv, TypeOK
<1>2. DispatcherOK(d)' /\ Working(d)' \subseteq Working(d)
    BY <1>1 DEF DispatcherOK, Working
<1>3. QED
    BY <1>1, <1>2, NothingElse

\* The one request of a claim: the call it may place is the attempt's first.
LEMMA DialKeeps ==
    ASSUME IInv, NEW d \in Dispatchers, Dial(d)
    PROVE  ClaimsOK' /\ (\A o \in Contacts : RowOK(o)') /\ IndexHolds'
<1>1. dispatcher[d] # Idle /\ dispatcher[d].pc = "dial"
    BY PcSaysAtWork DEF Dial, IInv
<1>2. PICK cur \in Claims, c \in Contacts, n \in Attempts :
        cur = dispatcher[d].cur /\ cur.contact = c /\ cur.attempt = n
    BY <1>1, AtWork DEF IInv, Claims
<1>3. PICK r \in Result :
        dispatcher' = [dispatcher EXCEPT ![d].pc = "settle", ![d].result = r]
        /\ ((r \in {"accepted", "unknown"} /\ phone' = [phone EXCEPT ![c][n] = "up"])
            \/ (r # "accepted" /\ phone' = phone))
    BY <1>2 DEF Dial, Result
<1>4. dials' = [dials EXCEPT ![c][n] = @ + 1] /\ UNCHANGED <<contact, leg>>
    BY <1>2 DEF Dial
<1>5. Fresh(cur) /\ cur \notin dispatcher[d].batch /\ \A cl \in dispatcher[d].batch : Fresh(cl)
    BY <1>1, <1>2 DEF IInv, ClaimsOK, DispatcherOK
<1>6. /\ contact[c].state = "dialing" /\ contact[c].attempt = n
      /\ dials[c][n] = 0 /\ phone[c][n] = "none"
    BY <1>2, <1>5 DEF Fresh
<1>7. /\ \A e \in Dispatchers \ {d} : dispatcher'[e] = dispatcher[e]
      /\ dispatcher'[d].pc = "settle" /\ dispatcher'[d].result = r
      /\ dispatcher'[d].batch = dispatcher[d].batch
      /\ dispatcher'[d].cur = cur
    BY <1>1, <1>2, <1>3, AtWork DEF IInv, TypeOK
<1>8. cur = [contact |-> c, attempt |-> n]
    BY <1>2 DEF Claims
<1>9. \A o \in Contacts, m \in Attempts : dials'[o][m] = IF o = c /\ m = n THEN 1 ELSE dials[o][m]
  <2>1. dials[c][n] + 1 = 1
    BY <1>6
  <2>2. dials' = [dials EXCEPT ![c][n] = 1]
    BY <1>4, <1>6
  <2>3. QED
    BY <1>2, <2>2, EntryWritten DEF IInv, TypeOK
<1>10. /\ \A o \in Contacts, m \in Attempts : o # c \/ m # n => phone'[o][m] = phone[o][m]
       /\ r = "accepted" => phone'[c][n] # "none"
       /\ r \in {"rejected", "retryable"} => phone'[c][n] = "none"
  <2>1. CASE r \in {"accepted", "unknown"} /\ phone' = [phone EXCEPT ![c][n] = "up"]
    BY <1>2, <2>1, EntryWritten DEF IInv, TypeOK, Phone
  <2>2. CASE r # "accepted" /\ phone' = phone
    BY <1>6, <2>2
  <2>3. QED
    BY <1>3, <2>1, <2>2
<1>11. \A e \in Dispatchers : Working(e)' = Working(e)
    BY <1>1, <1>2, <1>7 DEF Working, Idle
<1>12. ASSUME NEW cl \in Claims, cl # cur
       PROVE  /\ Fresh(cl) => Fresh(cl)'
              /\ \A s \in Result : Answered(cl, s) => Answered(cl, s)'
  <2>1. cl.contact \in Contacts /\ cl.attempt \in Attempts /\ (cl.contact # c \/ cl.attempt # n)
    BY <1>8, <1>12 DEF Claims
  <2>2. /\ dials'[cl.contact][cl.attempt] = dials[cl.contact][cl.attempt]
        /\ phone'[cl.contact][cl.attempt] = phone[cl.contact][cl.attempt]
    BY <1>9, <1>10, <2>1
  <2>3. QED
    BY <1>4, <2>2 DEF Fresh, Answered
<1>13. ClaimsOK'
  <2>1. DispatcherOK(d)'
    <3>1. Answered(cur, r)'
      <4>1. n \in Int
          BY <1>2, CampaignAssumption DEF Attempts
      <4>2. QED
          BY <1>2, <1>4, <1>6, <1>10, <4>1 DEF Answered
    <3>2. \A cl \in dispatcher[d].batch : Fresh(cl)'
        BY <1>1, <1>5, <1>12, AtWork DEF IInv
    <3>3. QED
        BY <1>5, <1>7, <3>1, <3>2 DEF DispatcherOK, Answered, Fresh
  <2>2. ASSUME NEW e \in Dispatchers \ {d}, NEW cl \in Working(e)
        PROVE  /\ Fresh(cl) => Fresh(cl)'
               /\ \A s \in Result : Answered(cl, s) => Answered(cl, s)'
    <3>1. cl \in Claims
        BY WorkingClaim DEF IInv
    <3>2. cur \in Working(d)
        BY <1>1, <1>2 DEF Working
    <3>3. cl # cur
        BY <3>2 DEF IInv, ClaimsOK
    <3>4. QED
        BY <1>12, <3>1, <3>3
  <2>3. \A e \in Dispatchers \ {d} : Working(d)' \cap Working(e) = {}
    BY <1>11 DEF IInv, ClaimsOK
  <2>4. QED
    BY <1>7, <2>1, <2>2, <2>3, OneMoves DEF IInv
<1>14. ASSUME NEW o \in Contacts
       PROVE  RowOK(o)'
  <2>1. RowOK(o)
    BY DEF IInv
  <2>2. ASSUME NEW m \in Attempts
        PROVE  AttemptOK(o, m)'
    <3>1. AttemptOK(o, m)
        BY <2>1 DEF RowOK
    <3>2. CASE o = c /\ m = n
      <4>1. leg[c][n] = "none" /\ n \in Int
          BY <1>2, <1>6, <3>1, <3>2, CampaignAssumption DEF AttemptOK, Attempts
      <4>2. QED
          BY <1>4, <1>6, <1>9, <3>2, <4>1 DEF AttemptOK, Ongoing, Holding
    <3>3. CASE o # c \/ m # n
        BY <1>4, <1>9, <1>10, <3>1, <3>3 DEF AttemptOK, Ongoing
    <3>4. QED
        BY <3>2, <3>3
  <2>3. contact[o].state = "accepted" => phone'[o][contact[o].call] # "none"
    <3>1. contact[o].state = "accepted" => contact[o].call \in Attempts /\ o # c
        BY <1>6, <2>1 DEF RowOK, Holding
    <3>2. QED
        BY <1>10, <2>1, <3>1 DEF RowOK
  <2>4. QED
    BY <1>4, <1>11, <2>1, <2>2, <2>3 DEF RowOK
<1>15. IndexHolds'
    BY <1>4, IndexKept DEF IInv
<1>16. QED
    BY <1>13, <1>14, <1>15
\* An answer that settles its row: the row is the dispatcher's own.
LEMMA SettlesKeeps ==
    ASSUME IInv, NEW d \in Dispatchers, dispatcher[d] # Idle,
           NEW c \in Contacts, NEW n \in Attempts, NEW r \in Result,
           dispatcher[d].cur = [contact |-> c, attempt |-> n],
           Answered(dispatcher[d].cur, r),
           dispatcher[d].cur \notin dispatcher[d].batch,
           \A cl \in dispatcher[d].batch : Fresh(cl),
           contact[c].attempt = n, contact[c].state = "dialing",
           contact' = [contact EXCEPT ![c] = Settled(c, r)],
           IF r = "accepted" THEN leg' = [leg EXCEPT ![c][n] = "queued"] ELSE UNCHANGED leg,
           TurnTo(d, dispatcher[d].batch), UNCHANGED <<phone, dials>>
    PROVE  ClaimsOK' /\ (\A o \in Contacts : RowOK(o)') /\ IndexHolds'
<1>1. contact[c] \in Row
    BY DEF IInv, TypeOK
<1>2. /\ contact'[c].attempt = n
      /\ r = "accepted" => contact'[c].state = "accepted" /\ contact'[c].call = n
      /\ r = "unknown" => contact'[c].state = "uncertain"
      /\ r \in {"rejected", "retryable"} => contact'[c].state \in {"blocked", "pending", "exhausted"}
  <2>1. contact'[c] = Settled(c, r)
    BY DEF IInv, TypeOK
  <2>2. \E to \in State, call \in 0 .. AttemptLimit :
              /\ Settled(c, r) = [contact[c] EXCEPT !.state = to, !.call = call]
              /\ r = "accepted" => to = "accepted" /\ call = n
              /\ r = "unknown" => to = "uncertain"
              /\ r \in {"rejected", "retryable"} => to \in {"blocked", "pending", "exhausted"}
    <3>1. n \in 0 .. AttemptLimit /\ 0 \in 0 .. AttemptLimit
        BY <1>1, CampaignAssumption DEF Row
    <3>2. CASE r = "accepted"
        BY <3>1, <3>2 DEF Settled, State
    <3>3. CASE r = "unknown"
        BY <3>1, <3>3 DEF Settled, State
    <3>4. CASE r = "rejected"
        BY <3>1, <3>4 DEF Settled, State
    <3>5. CASE r = "retryable"
        BY <3>1, <3>5 DEF Settled, State
    <3>6. QED
        BY <3>2, <3>3, <3>4, <3>5 DEF Result
  <2>3. PICK to \in State, call \in 0 .. AttemptLimit :
              /\ Settled(c, r) = [contact[c] EXCEPT !.state = to, !.call = call]
              /\ r = "accepted" => to = "accepted" /\ call = n
              /\ r = "unknown" => to = "uncertain"
              /\ r \in {"rejected", "retryable"} => to \in {"blocked", "pending", "exhausted"}
    BY <2>2
  <2>4. /\ Settled(c, r).state = to /\ Settled(c, r).call = call
        /\ Settled(c, r).attempt = contact[c].attempt
    <3>1. PICK row : row = [contact[c] EXCEPT !.state = to, !.call = call]
        OBVIOUS
    <3>2. row.state = to /\ row.call = call /\ row.attempt = contact[c].attempt
        BY <1>1, <3>1 DEF Row
    <3>3. Settled(c, r) = row
        BY <2>3, <3>1
    <3>4. QED
        BY <3>2, <3>3
  <2>5. contact'[c].state = to /\ contact'[c].call = call /\ contact'[c].attempt = n
    BY <2>1, <2>4
  <2>6. QED
    BY <2>3, <2>5
<1>3. \A o \in Contacts \ {c} : contact'[o] = contact[o]
    BY DEF IInv, TypeOK
<1>4. /\ \A o \in Contacts, m \in Attempts : o # c \/ m # n => leg'[o][m] = leg[o][m]
      /\ \A o \in Contacts \ {c} : leg'[o] = leg[o]
      /\ r = "accepted" => leg'[c][n] = "queued"
      /\ r # "accepted" => leg'[c][n] = leg[c][n]
  <2>1. CASE r = "accepted"
    BY <2>1, EntryWritten DEF IInv, TypeOK, Leg
  <2>2. CASE r # "accepted"
    BY <2>2
  <2>3. QED
    BY <2>1, <2>2
<1>5. /\ r = "accepted" => phone[c][n] # "none"
      /\ r \in {"rejected", "retryable"} => phone[c][n] = "none"
    BY DEF Answered
<1>6. ASSUME NEW cl \in Claims, cl # dispatcher[d].cur
      PROVE  /\ Fresh(cl) => Fresh(cl)'
             /\ \A s \in Result : Answered(cl, s) => Answered(cl, s)'
  <2>1. cl.contact \in Contacts /\ cl.attempt \in Attempts /\ (cl.contact # c \/ cl.attempt # n)
    BY <1>6 DEF Claims
  <2>2. Fresh(cl) => cl.contact # c
    BY <2>1 DEF Fresh
  <2>3. Fresh(cl) => Fresh(cl)'
    BY <1>3, <2>1, <2>2 DEF Fresh
  <2>4. contact'[cl.contact].attempt = contact[cl.contact].attempt
    BY <1>2, <1>3, <2>1
  <2>5. QED
    BY <2>3, <2>4 DEF Answered
<1>7. dispatcher[d].batch \in SUBSET Claims
    BY AtWork DEF IInv
<1>8. /\ \A e \in Dispatchers \ {d} : dispatcher'[e] = dispatcher[e]
      /\ DispatcherOK(d)'
      /\ Working(d)' \subseteq dispatcher[d].batch
  <2>1. PICK batch \in SUBSET Claims : batch = dispatcher[d].batch
    BY <1>7
  <2>2. \A cl \in batch : Fresh(cl)'
    BY <1>6, <2>1
  <2>3. QED
    BY <2>1, <2>2, TurnToKeeps DEF IInv
<1>9. ClaimsOK'
  <2>1. dispatcher[d].cur \in Working(d) /\ dispatcher[d].batch \subseteq Working(d)
    BY DEF Working
  <2>2. \A e \in Dispatchers \ {d} : Working(d)' \cap Working(e) = {}
    BY <1>8, <2>1 DEF IInv, ClaimsOK
  <2>3. ASSUME NEW e \in Dispatchers \ {d}, NEW cl \in Working(e)
        PROVE  /\ Fresh(cl) => Fresh(cl)'
               /\ \A s \in Result : Answered(cl, s) => Answered(cl, s)'
    <3>1. cl \in Claims /\ cl # dispatcher[d].cur
        BY <2>1, WorkingClaim DEF IInv, ClaimsOK
    <3>2. QED
        BY <1>6, <3>1
  <2>4. QED
    BY <1>8, <2>2, <2>3, OneMoves DEF IInv
<1>10. \A e \in Dispatchers \ {d} : Working(e)' = Working(e)
    BY <1>8 DEF Working
<1>11. ASSUME NEW o \in Contacts \ {c}
       PROVE  RowOK(o)'
  <2>1. RowOK(o)
    BY DEF IInv
  <2>2. contact[o].state = "uncertain" =>
          \A e \in Dispatchers : [contact |-> o, attempt |-> contact[o].attempt] \notin Working(e)'
    BY <1>8, <1>10, <2>1 DEF RowOK, Working
  <2>3. QED
    BY <1>3, <1>4, <2>1, <2>2, RowElsewhere
<1>12. RowOK(c)'
  <2>1. RowOK(c)
    BY DEF IInv
  <2>2. leg[c][n] = "none"
    BY <2>1 DEF RowOK, AttemptOK
  <2>3. ASSUME NEW m \in Attempts
        PROVE  AttemptOK(c, m)'
    <3>1. AttemptOK(c, m)
        BY <2>1 DEF RowOK
    <3>2. CASE m # n
      <4>1. ~Ongoing(c, m)' /\ leg'[c][m] = leg[c][m]
          BY <1>4, <3>1, <3>2 DEF AttemptOK, Ongoing
      <4>2. QED
          BY <1>2, <3>1, <3>2, <4>1 DEF AttemptOK
    <3>3. CASE m = n
      <4>1. /\ leg'[c][n] # "none" => phone[c][n] # "none"
            /\ contact'[c].state \in {"dialing", "uncertain"} => leg'[c][n] = "none"
          BY <1>2, <1>4, <1>5, <2>2 DEF Result
      <4>2. Ongoing(c, n)' => contact'[c].state \in Holding
          BY <1>2, <1>5 DEF Ongoing, Holding, Result
      <4>3. QED
          BY <1>2, <3>1, <3>3, <4>1, <4>2 DEF AttemptOK
    <3>4. QED
        BY <3>2, <3>3
  <2>4. contact'[c].state = "accepted" => r = "accepted"
    BY <1>2 DEF Result
  <2>5. contact'[c].state = "uncertain" =>
          \A e \in Dispatchers : [contact |-> c, attempt |-> contact'[c].attempt] \notin Working(e)'
    <3>1. dispatcher[d].cur \in Working(d)
        BY DEF Working
    <3>2. \A e \in Dispatchers \ {d} : dispatcher[d].cur \notin Working(e)
        BY <3>1 DEF IInv, ClaimsOK
    <3>3. QED
        BY <1>2, <1>8, <1>10, <3>2
  <2>6. QED
    BY <1>2, <1>4, <1>5, <2>3, <2>4, <2>5 DEF RowOK
<1>13. IndexHolds'
    BY <1>3, IndexKept DEF IInv, Holding
<1>14. QED
    BY <1>9, <1>11, <1>12, <1>13

\* The answer of a dispatcher's request, stale, overtaken by a callback, or not.
LEMMA SettleKeeps ==
    ASSUME IInv, NEW d \in Dispatchers, Settle(d)
    PROVE  ClaimsOK' /\ (\A o \in Contacts : RowOK(o)') /\ IndexHolds'
<1>1. dispatcher[d] # Idle /\ dispatcher[d].pc = "settle"
    BY PcSaysAtWork DEF Settle, IInv
<1>2. PICK c \in Contacts, n \in Attempts, r \in Result :
        /\ dispatcher[d].cur = [contact |-> c, attempt |-> n]
        /\ dispatcher[d].cur.contact = c /\ dispatcher[d].cur.attempt = n
        /\ dispatcher[d].result = r
    BY <1>1, AtWork DEF IInv, Claims
<1>3. /\ Answered(dispatcher[d].cur, r)
      /\ dispatcher[d].cur \notin dispatcher[d].batch
      /\ \A cl \in dispatcher[d].batch : Fresh(cl)
    BY <1>1, <1>2 DEF IInv, ClaimsOK, DispatcherOK
<1>4. UNCHANGED <<phone, dials>>
    BY DEF Settle
<1>5. CASE dispatcher' = [dispatcher EXCEPT ![d] = Idle] /\ UNCHANGED <<contact, leg>>
  <2>1. dispatcher'[d] = Idle /\ \A e \in Dispatchers \ {d} : dispatcher'[e] = dispatcher[e]
    BY <1>5 DEF IInv, TypeOK
  <2>2. DispatcherOK(d)' /\ Working(d)' \subseteq Working(d)
    BY <2>1 DEF DispatcherOK, Working
  <2>3. QED
    BY <1>4, <1>5, <2>1, <2>2, NothingElse
<1>6. CASE TurnTo(d, dispatcher[d].batch) /\ UNCHANGED <<contact, leg>>
  <2>1. PICK batch \in SUBSET Claims : batch = dispatcher[d].batch
    BY <1>1, AtWork DEF IInv
  <2>2. \A cl \in batch : Fresh(cl)'
    BY <1>3, <1>4, <1>6, <2>1 DEF Fresh
  <2>3. /\ \A e \in Dispatchers \ {d} : dispatcher'[e] = dispatcher[e]
        /\ DispatcherOK(d)'
        /\ Working(d)' \subseteq batch
    BY <1>6, <2>1, <2>2, TurnToKeeps DEF IInv
  <2>4. Working(d)' \subseteq Working(d)
    BY <1>1, <2>1, <2>3 DEF Working
  <2>5. QED
    BY <1>4, <1>6, <2>3, <2>4, NothingElse
<1>7. CASE /\ ~Stale(c, n) /\ Settles(c)
           /\ contact' = [contact EXCEPT ![c] = Settled(c, r)]
           /\ IF r = "accepted" THEN leg[c][n] = "none" /\ Record(c, n) ELSE UNCHANGED leg
           /\ TurnTo(d, dispatcher[d].batch)
    BY <1>1, <1>2, <1>3, <1>4, <1>7, SettlesKeeps DEF Stale, Settles, Record
<1>8. QED
    BY <1>2, <1>5, <1>6, <1>7 DEF Settle

-------------------------------------------------------------------------------
(* The theorems.                                                            *)

\* Every step keeps the inductive invariant.
LEMMA Inductive ==
    ASSUME IInv, [Next]_vars
    PROVE  IInv'
<1>1. TypeOK'
    BY StepType DEF IInv
<1>2. ClaimsOK' /\ (\A o \in Contacts : RowOK(o)') /\ IndexHolds'
  <2>1. CASE \E c \in Contacts : Enroll(c) \/ DelayElapses(c)
    BY <2>1, RowOpens
  <2>2. CASE \/ \E k \in Campaigns : SetCampaign(k)
             \/ \E u \in Customers : SetLead(u)
             \/ UNCHANGED vars
    <3>1. UNCHANGED <<contact, dispatcher, phone, leg, dials>>
        BY <2>2 DEF SetCampaign, SetLead, vars
    <3>2. ClaimsOK'
        BY <3>1 DEF IInv, ClaimsOK, DispatcherOK, Fresh, Answered, Working
    <3>3. \A o \in Contacts : RowOK(o)'
        BY <3>1 DEF IInv, RowOK, AttemptOK, Ongoing, Working
    <3>4. IndexHolds'
        BY <3>1 DEF IInv, IndexHolds
    <3>5. QED
        BY <3>2, <3>3, <3>4
  <2>3. CASE \E d \in Dispatchers : DispatcherStep(d) \/ CrashDispatcher(d)
    BY <2>3, ClaimKeeps, AuthorizeKeeps, DialKeeps, SettleKeeps, CrashKeeps DEF DispatcherStep
  <2>4. CASE \E c \in Contacts, n \in Attempts : CallStep(c, n) \/ Answer(c, n) \/ GatewayDies(c, n)
    BY <2>4, CallKeeps
  <2>5. QED
    BY <2>1, <2>2, <2>3, <2>4 DEF Next
<1>3. QED
    BY <1>1, <1>2 DEF IInv

\* Nothing is enrolled, claimed or called in the initial state.
LEMMA Initial == Init => IInv
<1>1. SUFFICES ASSUME Init
               PROVE  IInv
    OBVIOUS
<1>2. TypeOK
    BY <1>1, InitType
<1>3. ClaimsOK
    BY <1>1 DEF Init, ClaimsOK, DispatcherOK, Working
<1>4. \A c \in Contacts : RowOK(c)
    BY <1>1, CampaignAssumption DEF Init, RowOK, AttemptOK, Ongoing, Holding, Attempts
<1>5. IndexHolds
    BY <1>1 DEF Init, IndexHolds, Holding
<1>6. QED
    BY <1>2, <1>3, <1>4, <1>5 DEF IInv

\* The invariant everything below follows from: what a claim, its answer, its row
\* and the carrier's call know of each other.
THEOREM Invariant == Spec => []IInv
<1>1. IInv /\ [Next]_vars => IInv'
    BY Inductive
<1>2. QED
    BY <1>1, Initial, PTL DEF Spec

\* No attempt is requested from the carrier twice, and no claim is worked on by two
\* dispatchers, whatever crashes, stale answers and callbacks come in between.
THEOREM NoRedial == Spec => []NeverRedialed
<1>1. IInv => NeverRedialed
    BY DEF IInv, RowOK, AttemptOK, ClaimsOK, Working, NeverRedialed
<1>2. QED
    BY <1>1, Invariant, PTL

\* Over all campaigns a customer has at most one call that rings or is in
\* conversation: the index on the rows carries over to the calls.
THEOREM OneCall == Spec => []OneOngoingCallPerCustomer
<1>1. IInv => OneOngoingCallPerCustomer
  <2>1. SUFFICES ASSUME IInv, NEW c \in Contacts, NEW o \in Contacts,
                        NEW m \in Attempts, NEW n \in Attempts,
                        CustomerOf[c] = CustomerOf[o], Ongoing(c, m), Ongoing(o, n)
                 PROVE  c = o /\ m = n
    BY DEF OneOngoingCallPerCustomer
  <2>2. AttemptOK(c, m) /\ AttemptOK(o, n)
    BY <2>1 DEF IInv, RowOK
  <2>3. /\ m = contact[c].attempt /\ contact[c].state \in Holding
        /\ n = contact[o].attempt /\ contact[o].state \in Holding
    BY <2>1, <2>2 DEF AttemptOK
  <2>4. QED
    BY <2>1, <2>3 DEF IInv, IndexHolds
<1>2. QED
    BY <1>1, Invariant, PTL

\* A row and the carrier agree on the call the row stands for.
THEOREM RowsMatch == Spec => []RowMatchesCarrier
<1>1. IInv => RowMatchesCarrier
  <2>1. SUFFICES ASSUME IInv, NEW c \in Contacts
                 PROVE  /\ \A n \in Attempts : Ongoing(c, n) =>
                              contact[c].attempt = n /\ contact[c].state \in Holding
                        /\ contact[c].state = "accepted" =>
                              /\ contact[c].call = contact[c].attempt
                              /\ phone[c][contact[c].call] # "none"
                              /\ leg[c][contact[c].call] # "none"
                        /\ contact[c].state = "uncertain" =>
                              \A d \in Dispatchers : dispatcher[d] # Idle =>
                                  [contact |-> c, attempt |-> contact[c].attempt]
                                      \notin dispatcher[d].batch \cup {dispatcher[d].cur}
    BY DEF RowMatchesCarrier
  <2>2. RowOK(c)
    BY <2>1 DEF IInv
  <2>3. QED
    BY <2>2 DEF RowOK, AttemptOK, Working
<1>2. QED
    BY <1>1, Invariant, PTL
\* What a step may make of a row.
Decides(c) ==
    /\ contact'[c].state # contact[c].state => contact'[c].state \in Successors(contact[c].state)
    /\ contact'[c].attempt # contact[c].attempt =>
          contact[c].state = "pending" /\ contact'[c].state = "dialing"

\* Writing the state of one row, from one of its predecessors, is all a step does.
LEMMA OneDecided ==
    ASSUME TypeOK, NEW c \in Contacts, NEW row \in Row,
           contact' = [contact EXCEPT ![c] = row], row.attempt = contact[c].attempt,
           row.state = contact[c].state \/ row.state \in Successors(contact[c].state)
    PROVE  \A o \in Contacts : Decides(o)
<1>1. contact'[c] = row /\ \A o \in Contacts \ {c} : contact'[o] = contact[o]
    BY DEF TypeOK
<1>2. Decides(c)
    BY <1>1 DEF Decides
<1>3. \A o \in Contacts \ {c} : Decides(o)
    BY <1>1 DEF Decides
<1>4. QED
    BY <1>2, <1>3

\* A settled row counts the same attempt, and is in a state that follows "dialing".
LEMMA SettledDecides ==
    ASSUME TypeOK, NEW c \in Contacts, NEW r \in Result
    PROVE  /\ Settled(c, r).attempt = contact[c].attempt
           /\ Settled(c, r).state \in {"accepted", "uncertain", "blocked", "exhausted", "pending"}
<1>1. contact[c] \in Row
    BY DEF TypeOK
<1>2. PICK to, call : /\ Settled(c, r) = [contact[c] EXCEPT !.state = to, !.call = call]
                      /\ to \in {"accepted", "uncertain", "blocked", "exhausted", "pending"}
  <2>1. CASE r = "accepted"
    BY <2>1 DEF Settled
  <2>2. CASE r = "unknown"
    BY <2>2 DEF Settled
  <2>3. CASE r = "rejected"
    BY <2>3 DEF Settled
  <2>4. CASE r = "retryable"
    BY <2>4 DEF Settled
  <2>5. QED
    BY <2>1, <2>2, <2>3, <2>4 DEF Result
<1>3. PICK row : row = [contact[c] EXCEPT !.state = to, !.call = call]
    OBVIOUS
<1>4. row.state = to /\ row.attempt = contact[c].attempt
    BY <1>1, <1>3 DEF Row
<1>5. Settled(c, r) = row
    BY <1>2, <1>3
<1>6. QED
    BY <1>2, <1>4, <1>5

\* What complete_campaign_contact decides follows "accepted".
LEMMA CompleteDecides ==
    ASSUME TypeOK, NEW c \in Contacts, NEW n \in Attempts, NEW followup \in BOOLEAN,
           Complete(c, n, followup)
    PROVE  \A o \in Contacts : Decides(o)
<1>1. CASE UNCHANGED contact
    BY <1>1 DEF Decides
<1>2. CASE contact[c].state = "accepted" /\ \E s \in {"pending", "completed"} :
              contact' = [contact EXCEPT ![c].state = s]
  <2>1. PICK s \in {"pending", "completed"} : contact' = [contact EXCEPT ![c].state = s]
    BY <1>2
  <2>2. /\ [contact[c] EXCEPT !.state = s] \in Row
        /\ [contact[c] EXCEPT !.state = s].state = s
        /\ [contact[c] EXCEPT !.state = s].attempt = contact[c].attempt
    BY DEF TypeOK, Row, State
  <2>3. s \in Successors(contact[c].state)
    BY <1>2 DEF Successors
  <2>4. QED
    BY <2>1, <2>2, <2>3, OneDecided
<1>3. QED
    BY <1>1, <1>2, CompleteIs

\* Every step decides at most what the row's state leaves to be decided.
LEMMA StepDecides ==
    ASSUME TypeOK, Next
    PROVE  \A o \in Contacts : Decides(o)
<1>1. ASSUME UNCHANGED contact
      PROVE  \A o \in Contacts : Decides(o)
    BY <1>1 DEF Decides
<1>2. ASSUME NEW c \in Contacts, Enroll(c)
      PROVE  \A o \in Contacts : Decides(o)
  <2>1. /\ [contact[c] EXCEPT !.state = "pending", !.due = TRUE] \in Row
        /\ [contact[c] EXCEPT !.state = "pending", !.due = TRUE].state = "pending"
        /\ [contact[c] EXCEPT !.state = "pending", !.due = TRUE].attempt = contact[c].attempt
    BY DEF TypeOK, Row, State
  <2>2. contact' = [contact EXCEPT ![c] = [contact[c] EXCEPT !.state = "pending", !.due = TRUE]]
    BY <1>2 DEF Enroll
  <2>3. "pending" \in Successors(contact[c].state)
    BY <1>2 DEF Enroll, Successors
  <2>4. QED
    BY <2>1, <2>2, <2>3, OneDecided
<1>3. ASSUME NEW c \in Contacts, DelayElapses(c)
      PROVE  \A o \in Contacts : Decides(o)
    BY <1>3 DEF DelayElapses, Decides, TypeOK, Row
<1>4. ASSUME NEW d \in Dispatchers, NEW k \in Campaigns, Claim(d, k)
      PROVE  \A o \in Contacts : Decides(o)
  <2>1. PICK B \in SUBSET Claimable(k) :
          contact' = [c \in Contacts |-> IF c \in B THEN Claimed(contact[c]) ELSE contact[c]]
    BY <1>4 DEF Claim
  <2>2. \A c \in B : /\ contact[c].state = "pending" /\ contact'[c].state = "dialing"
                     /\ Decides(c)
    <3>1. SUFFICES ASSUME NEW c \in B
                   PROVE  contact[c].state = "pending" /\ contact'[c].state = "dialing"
        BY DEF Decides, Successors
    <3>2. c \in Contacts /\ contact[c].state = "pending" /\ MayRetry(c)
        BY DEF Claimable
    <3>3. contact'[c] = Claimed(contact[c])
        BY <2>1, <3>2
    <3>4. QED
        BY <3>2, <3>3, ClaimedType
  <2>3. \A c \in Contacts \ B : Decides(c)
    BY <2>1 DEF Decides
  <2>4. QED
    BY <2>2, <2>3
<1>5. ASSUME NEW d \in Dispatchers, Settle(d)
      PROVE  \A o \in Contacts : Decides(o)
  <2>1. dispatcher[d] # Idle
    BY <1>5, PcSaysAtWork DEF Settle
  <2>2. PICK c \in Contacts, r \in Result :
          UNCHANGED contact \/ (Settles(c) /\ contact' = [contact EXCEPT ![c] = Settled(c, r)])
    <3>1. dispatcher[d].cur.contact \in Contacts /\ dispatcher[d].result \in Result
        BY <2>1, AtWork DEF Claims
    <3>2. QED
        BY <1>5, <3>1 DEF Settle
  <2>3. CASE Settles(c) /\ contact' = [contact EXCEPT ![c] = Settled(c, r)]
    <3>1. /\ Settled(c, r) \in Row /\ Settled(c, r).attempt = contact[c].attempt
          /\ Settled(c, r).state \in {"accepted", "uncertain", "blocked", "exhausted", "pending"}
        BY SettledType, SettledDecides
    <3>2. Settled(c, r).state \in Successors(contact[c].state)
        BY <2>3, <3>1 DEF Settles, Successors
    <3>3. PICK row \in Row : row = Settled(c, r)
        BY <3>1
    <3>4. QED
        BY <2>3, <3>1, <3>2, <3>3, OneDecided
  <2>4. QED
    BY <1>1, <2>2, <2>3
<1>6. ASSUME NEW c \in Contacts, NEW n \in Attempts, Bind(c, n)
      PROVE  \A o \in Contacts : Decides(o)
  <2>1. /\ [contact[c] EXCEPT !.state = "accepted", !.call = n] \in Row
        /\ [contact[c] EXCEPT !.state = "accepted", !.call = n].state = "accepted"
        /\ [contact[c] EXCEPT !.state = "accepted", !.call = n].attempt = contact[c].attempt
    <3>1. PICK row \in Row, call \in 0 .. AttemptLimit : row = contact[c] /\ call = n
        BY CampaignAssumption DEF TypeOK, Attempts
    <3>2. /\ [row EXCEPT !.state = "accepted", !.call = call] \in Row
          /\ [row EXCEPT !.state = "accepted", !.call = call].state = "accepted"
          /\ [row EXCEPT !.state = "accepted", !.call = call].attempt = row.attempt
        BY DEF Row, State
    <3>3. QED
        BY <3>1, <3>2
  <2>2. contact' = [contact EXCEPT ![c] = [contact[c] EXCEPT !.state = "accepted", !.call = n]]
    BY <1>6 DEF Bind
  <2>3. "accepted" \in Successors(contact[c].state)
    BY <1>6 DEF Bind, Bindable, Successors
  <2>4. QED
    BY <2>1, <2>2, <2>3, OneDecided
<1>7. ASSUME NEW c \in Contacts, NEW n \in Attempts,
             SessionEnds(c, n) \/ RecordOutcome(c, n) \/ Status(c, n)
      PROVE  \A o \in Contacts : Decides(o)
  <2>1. UNCHANGED contact \/ \E followup \in BOOLEAN : Complete(c, n, followup)
    BY <1>7 DEF SessionEnds, RecordOutcome, Status
  <2>2. QED
    BY <1>1, <2>1, CompleteDecides
<1>8. ASSUME \/ \E k \in Campaigns : SetCampaign(k)
             \/ \E u \in Customers : SetLead(u)
             \/ \E d \in Dispatchers : Authorize(d) \/ Dial(d) \/ CrashDispatcher(d)
             \/ \E c \in Contacts, n \in Attempts :
                   CarrierEnds(c, n) \/ Answer(c, n) \/ GatewayDies(c, n)
      PROVE  UNCHANGED contact
    BY <1>8 DEF SetCampaign, SetLead, Authorize, Dial, CrashDispatcher, CarrierEnds, Answer,
                GatewayDies
<1>9. QED
    BY <1>1, <1>2, <1>3, <1>4, <1>5, <1>6, <1>7, <1>8 DEF Next, DispatcherStep, CallStep

\* What a callback, an answer or an outcome decided of a row stands, and only a claim
\* counts an attempt.
THEOREM DecisionsAreFinal == Spec => DecisionsStand
<1>1. TypeOK /\ [Next]_vars =>
          [\A c \in Contacts :
              /\ contact'[c].state # contact[c].state =>
                    contact'[c].state \in Successors(contact[c].state)
              /\ contact'[c].attempt # contact[c].attempt =>
                    contact[c].state = "pending" /\ contact'[c].state = "dialing"]_vars
    BY StepDecides DEF Decides
<1>2. QED
    BY <1>1, TypeCorrect, PTL DEF Spec, DecisionsStand
===============================================================================
