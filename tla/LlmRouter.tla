------------------------------- MODULE LlmRouter -------------------------------
(***************************************************************************)
(* Calls of the model through the fallback router                            *)
(* (packages/providers/llm/fallback-router.ts) and the runtime's adapter      *)
(* (packages/runtime/llm-adapter.ts).  The candidates of a call are tried in *)
(* order; providers that limit the rate are left alone for a while by all    *)
(* calls of the process; a call has a deadline and may be aborted.           *)
(*                                                                         *)
(* The events of one call run between two awaits; the clock ticks in         *)
(* seconds.                                                                 *)
(***************************************************************************)
EXTENDS Integers, FiniteSets, FiniteSetsExt

CONSTANTS
    Candidates,   \* the providers tried, as a sequence
    ModelCalls,   \* concurrent calls
    MaxWait,      \* maxWaitMs
    Timeout,      \* timeoutMs
    BillingWait,  \* how long a provider that wants payment is left alone
    RetryAfters,  \* what a provider may ask for, 0 when it asks for nothing
    MaxDeltas,    \* text and tool calls of one answer
    MaxClock      \* bound on the clock

VARIABLES
    now,
    cooldowns,  \* provider -> until when, and the strikes so far
    routes,     \* call -> the locals of stream() or complete()
    replies     \* call -> what its consumer was given

vars == <<now, cooldowns, routes, replies>>

Indices == DOMAIN Candidates

ProviderNames == {Candidates[i] : i \in Indices}

Modes == {"live", "buffered", "complete"}

\* Strikes count for six doublings.
MaxStrikes == 7

\* got counts the deltas of the candidate tried, committed says that one of them was yielded.
Route ==
    [stage : {"idle", "sleeping", "asking", "over"}, mode : Modes, index : Indices,
     deadline : 0 .. MaxClock + Timeout, wake : Nat, got : 0 .. MaxDeltas,
     committed : BOOLEAN, aborted : BOOLEAN]

Reply == [outcome : {"open", "answered", "failed"}, source : {0} \cup Indices,
          pieces : 0 .. MaxDeltas]

Init ==
    /\ now = 0
    /\ cooldowns = [p \in ProviderNames |-> [until |-> 0, strikes |-> 0]]
    /\ routes \in [ModelCalls -> [stage : {"idle"}, mode : Modes, index : {1}, deadline : {0},
                                  wake : {0}, got : {0}, committed : {FALSE},
                                  aborted : {FALSE}]]
    /\ replies = [c \in ModelCalls |-> [outcome |-> "open", source |-> 0, pieces |-> 0]]

-------------------------------------------------------------------------------

\* assertActive.
Active(r) == ~r.aborted /\ now < r.deadline

\* recordFailure: only limits count, and each failure dates the cooldown anew.
Limited(table, provider, failure, retryAfter) ==
    LET strikes == Min({table[provider].strikes + 1, MaxStrikes})
        backoff == Min({60, 2 ^ (strikes - 1)})
        billing == IF failure = "billing_limit" THEN BillingWait ELSE 0
    IN IF failure \in {"rate_limit", "billing_limit"}
       THEN [table EXCEPT ![provider] = [until |-> now + Max({billing, retryAfter, backoff}),
                                         strikes |-> strikes]]
       ELSE table

Cooling(table, i) == table[Candidates[i]].until > now

\* The wait would be too long, or pass the deadline.
Skipped(r, table, i) ==
    LET until == table[Candidates[i]].until IN
    /\ Cooling(table, i)
    /\ until - now > MaxWait \/ until >= r.deadline

\* waitForProvider of the candidates from i on: the first that is not skipped is asked, or
\* waited for; the cooldown is not looked at again after the wait.
Entered(r, table, i) ==
    LET open == {j \in i .. Cardinality(Indices) : ~Skipped(r, table, j)}
        next == [r EXCEPT !.index = Min(open), !.got = 0]
    IN CASE ~Active(r) \/ open = {} -> [r EXCEPT !.stage = "over"]
         [] Active(r) /\ open # {} /\ Cooling(table, Min(open)) ->
               [next EXCEPT !.stage = "sleeping", !.wake = table[Candidates[Min(open)]].until]
         [] Active(r) /\ open # {} /\ ~Cooling(table, Min(open)) ->
               [next EXCEPT !.stage = "asking"]

\* The consumer's promise is rejected when the route throws, unless it was before.
Settled(reply, r) ==
    IF r.stage = "over" /\ reply.outcome = "open" THEN [reply EXCEPT !.outcome = "failed"]
    ELSE reply

\* What a route that is over was about is forgotten.
Kept(r) ==
    IF r.stage = "over" THEN [r EXCEPT !.index = 1, !.deadline = 0, !.wake = 0, !.got = 0,
                                       !.committed = FALSE, !.aborted = FALSE]
    ELSE IF r.stage = "asking" THEN [r EXCEPT !.wake = 0] ELSE r

Moves(c, r, reply) ==
    /\ routes' = [routes EXCEPT ![c] = Kept(r)]
    /\ replies' = [replies EXCEPT ![c] = Settled(reply, r)]

\* invokeModel, and the router's requested event.
Request(c) ==
    LET r == [routes[c] EXCEPT !.deadline = now + Timeout] IN
    /\ routes[c].stage = "idle"
    /\ Moves(c, Entered(r, cooldowns, 1), replies[c])
    /\ UNCHANGED <<now, cooldowns>>

\* The cooldown it waited for is over.
Wakes(c) ==
    LET r == routes[c] IN
    /\ r.stage = "sleeping"
    /\ now >= r.wake
    /\ Moves(c, [r EXCEPT !.stage = IF Active(r) THEN "asking" ELSE "over"], replies[c])
    /\ UNCHANGED <<now, cooldowns>>

\* Mutant: a candidate that has spoken is replaced all the same.
FinalUncommitted(r, failure) == failure = "fatal" \/ r.aborted

\* "From here the first candidate is committed to the consumer."
Final(r, failure) == r.committed \/ failure = "fatal" \/ r.aborted

\* The catch of stream() and complete().
Catch(c, failure, retryAfter) ==
    LET r == routes[c]
        table == Limited(cooldowns, Candidates[r.index], failure, retryAfter)
    IN /\ cooldowns' = table
       /\ Moves(c, IF Final(r, failure) THEN [r EXCEPT !.stage = "over"]
                   ELSE Entered(r, table, r.index + 1), replies[c])

\* The candidate fails: a limit, an outage or a timeout, or a refusal.
ProviderFails(c) ==
    /\ routes[c].stage = "asking"
    /\ \/ \E failure \in {"outage", "fatal"} : Catch(c, failure, 0)
       \/ \E failure \in {"rate_limit", "billing_limit"}, retryAfter \in RetryAfters :
             Catch(c, failure, retryAfter)
    /\ UNCHANGED now

\* The consumer is given the answer up to this delta.
Heard(reply, r) == [reply EXCEPT !.source = r.index, !.pieces = r.got]

\* A text or a tool call of the stream, passed on as it comes when the call is live.
Delta(c) ==
    LET r == [routes[c] EXCEPT !.got = @ + 1, !.committed = routes[c].mode = "live"] IN
    /\ routes[c].stage = "asking"
    /\ routes[c].mode # "complete"
    /\ routes[c].got < MaxDeltas
    /\ \/ /\ Active(r)
          /\ Moves(c, r, IF r.mode = "live" THEN Heard(replies[c], r) ELSE replies[c])
          /\ UNCHANGED cooldowns
       \/ /\ ~Active(r)
          /\ Catch(c, "outage", 0)
    /\ UNCHANGED now

\* The stream ends.  An answer cut at its length is refused by consumeStream.
StreamEnds(c) ==
    LET r == routes[c]
        whole == IF r.mode = "live" THEN replies[c] ELSE Heard(replies[c], r)
    IN /\ r.stage = "asking"
       /\ r.mode # "complete"
       /\ \/ /\ Active(r) /\ r.got > 0
             /\ \E outcome \in {"answered", "failed"} :
                   Moves(c, [r EXCEPT !.stage = "over"], [whole EXCEPT !.outcome = outcome])
             /\ UNCHANGED cooldowns
          \/ /\ ~Active(r) \/ r.got = 0
             /\ Catch(c, "outage", 0)
       /\ UNCHANGED now

\* complete(): the whole answer at once.
Completes(c) ==
    LET r == [routes[c] EXCEPT !.got = MaxDeltas] IN
    /\ r.stage = "asking"
    /\ r.mode = "complete"
    /\ \/ /\ Active(r)
          /\ Moves(c, [r EXCEPT !.stage = "over"],
                   [Heard(replies[c], r) EXCEPT !.outcome = "answered"])
          /\ UNCHANGED cooldowns
       \/ /\ ~Active(r)
          /\ Catch(c, "outage", 0)
    /\ UNCHANGED now

\* withDeadline: the caller does not wait for the route, which is left to find out.
GivenUp(c, r) ==
    /\ routes' = [routes EXCEPT ![c] = r]
    /\ replies' = [replies EXCEPT ![c].outcome = "failed"]
    /\ UNCHANGED <<now, cooldowns>>

Abort(c) ==
    /\ routes[c].stage # "idle"
    /\ replies[c].outcome = "open"
    /\ GivenUp(c, [routes[c] EXCEPT !.aborted = TRUE])

DeadlinePasses(c) ==
    /\ routes[c].stage # "idle"
    /\ replies[c].outcome = "open"
    /\ now >= routes[c].deadline
    /\ GivenUp(c, routes[c])

Tick ==
    /\ now < MaxClock
    /\ now' = now + 1
    /\ UNCHANGED <<cooldowns, routes, replies>>

Next ==
    \/ \E c \in ModelCalls :
          \/ Request(c) \/ Wakes(c) \/ ProviderFails(c) \/ Delta(c) \/ StreamEnds(c)
          \/ Completes(c) \/ Abort(c) \/ DeadlinePasses(c)
    \/ Tick

Spec == Init /\ [][Next]_vars

-------------------------------------------------------------------------------

Consumer(c) == INSTANCE OneSource WITH
    Sources <- Indices, MaxPieces <- MaxDeltas, outcome <- replies[c].outcome,
    source <- replies[c].source, pieces <- replies[c].pieces

\* Whatever candidates fail, are waited for or answer too late, the consumer of every call
\* hears one model, and nothing after the call has settled ("a later failure must not be
\* papered over with another model", fallback-router.ts:165).
ImplementsOneSource ==
    /\ \A c \in ModelCalls : Consumer(c)!Init
    /\ [][\A c \in ModelCalls : Consumer(c)!Next \/ UNCHANGED replies[c]]_replies
===============================================================================
