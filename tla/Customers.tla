------------------------------- MODULE Customers -------------------------------
(***************************************************************************)
(* The built-in CRM: the customers that business events find, create and      *)
(* merge (CrmService over SupabaseCrmStore), one statement after another, any   *)
(* of which may fail and end the event.  Rows are keyed by email and phone,    *)
(* and no index of the table makes either unique.                           *)
(*                                                                         *)
(* Events are taken one at a time; names, funnel stages and revenue (which is  *)
(* added up as appointments are) are left out.                              *)
(***************************************************************************)
EXTENDS Integers, Sequences, FiniteSetsExt

CONSTANTS
    Emails, Phones,
    NoContact,      \* an email or a phone that is not known
    MaxEvents       \* bound: events

VARIABLES
    customers,  \* the table, in the order of insertion
    timeline,   \* the rows that entries of customer_timeline are of
    sync,       \* the event being taken in, or Idle
    events,     \* events begun
    visits,     \* ghost: appointments recorded
    faulty      \* ghost: whether a statement has failed

crmVars == <<customers, timeline, sync, events, visits, faulty>>

Ids == 1 .. Len(customers)

\* merged_into is 0 for a row that was not merged.
Customer == [email : Emails \cup {NoContact}, phone : Phones \cup {NoContact},
             total : Nat, merged : Nat]

Live == {i \in Ids : customers[i].merged = 0}

Idle == [pc |-> "idle"]

CrmTypeOK ==
    /\ customers \in Seq(Customer)
    /\ timeline \subseteq Ids
    /\ <<events, visits, faulty>> \in Nat \X Nat \X BOOLEAN
    /\ sync.pc \in {"idle", "insert", "merge", "repoint", "mark", "entry", "patch", "count", "note"}

CrmInit ==
    /\ customers = <<>>
    /\ timeline = {}
    /\ sync = Idle
    /\ events = 0
    /\ visits = 0
    /\ faulty = FALSE

-------------------------------------------------------------------------------
(* upsertCustomer, whom the event is about.                                 *)

CopyOf(i) == [id |-> i, row |-> customers[i]]

NoCopy == [id |-> 0]

\* findByEmail and findByPhone: any row that is not merged; an error is taken for none.
Found(rows) == {CopyOf(i) : i \in rows} \cup {NoCopy}

ByEmail(email) == Found({i \in Live : email # NoContact /\ customers[i].email = email})

ByPhone(phone) == Found({i \in Live : phone # NoContact /\ customers[i].phone = phone})

\* An event about somebody: the email finds a row, or the phone does, and two different
\* rows are one person, of which the row found by email is kept.
SyncBegins(email, phone, visit) ==
    /\ sync = Idle
    /\ events < MaxEvents
    /\ {email, phone} # {NoContact}
    /\ events' = events + 1
    /\ \E byEmail \in ByEmail(email), byPhone \in ByPhone(phone) :
          sync' = [pc |-> IF byEmail = NoCopy /\ byPhone = NoCopy THEN "insert"
                          ELSE IF NoCopy \notin {byEmail, byPhone} /\ byEmail.id # byPhone.id
                          THEN "merge" ELSE "patch",
                   email |-> email, phone |-> phone, visit |-> visit,
                   customer |-> IF byEmail # NoCopy THEN byEmail ELSE byPhone,
                   loser |-> byPhone]
    /\ UNCHANGED <<customers, timeline, visits, faulty>>

\* What follows the upsert: recordAppointment for a booking, and the timeline entry.
Recording == IF sync.visit THEN "count" ELSE "note"

\* The next statement, with what the service knows of the customer.
Proceed(pc, copy) == sync' = [sync EXCEPT !.pc = pc, !.customer = copy]

SyncInserts ==
    /\ sync.pc = "insert"
    /\ LET row == [email |-> sync.email, phone |-> sync.phone, total |-> 0, merged |-> 0] IN
          /\ customers' = Append(customers, row)
          /\ Proceed(Recording, [id |-> Len(customers) + 1, row |-> row])
    /\ UNCHANGED <<timeline, events, visits, faulty>>

\* update: the columns of the patch, computed from the copy.
Written(row) == customers' = [customers EXCEPT ![sync.customer.id] = row]

\* A known contact wins over an unknown one.
Or(a, b) == IF a # NoContact THEN a ELSE b

\* An unknown email or phone is filled in; nothing to fill, no statement.
SyncPatches ==
    /\ sync.pc = "patch"
    /\ LET copy == sync.customer.row
           row == [copy EXCEPT !.email = Or(@, sync.email), !.phone = Or(@, sync.phone)] IN
          /\ IF row # copy THEN Written(row) ELSE UNCHANGED customers
          /\ Proceed(Recording, [sync.customer EXCEPT !.row = row])
    /\ UNCHANGED <<timeline, events, visits, faulty>>

-------------------------------------------------------------------------------
(* merge and markMerged.                                                    *)

\* Mutant: the loser is stamped before its history is repointed.
StampedFirst == [merge |-> "mark", mark |-> "repoint", repoint |-> "entry"]

\* The history first, "so no timeline entry is orphaned if the second write fails".
MergeOrder == [merge |-> "repoint", repoint |-> "mark", mark |-> "entry"]

\* The keeper takes the loser's total, and what it did not know.
SyncMerges ==
    /\ sync.pc = "merge"
    /\ LET loser == sync.loser.row
           row == [sync.customer.row EXCEPT !.email = Or(@, loser.email),
                                            !.phone = Or(@, loser.phone),
                                            !.total = @ + loser.total] IN
          /\ Written(row)
          /\ Proceed(MergeOrder["merge"], [sync.customer EXCEPT !.row = row])
    /\ UNCHANGED <<timeline, events, visits, faulty>>

SyncRepoints ==
    /\ sync.pc = "repoint"
    /\ timeline' = {IF i = sync.loser.id THEN sync.customer.id ELSE i : i \in timeline}
    /\ Proceed(MergeOrder["repoint"], sync.customer)
    /\ UNCHANGED <<customers, events, visits, faulty>>

SyncMarks ==
    /\ sync.pc = "mark"
    /\ customers' = [customers EXCEPT ![sync.loser.id].merged = sync.customer.id]
    /\ Proceed(MergeOrder["mark"], sync.customer)
    /\ UNCHANGED <<timeline, events, visits, faulty>>

\* The merge has an entry of its own.
SyncEnters ==
    /\ sync.pc = "entry"
    /\ timeline' = timeline \cup {sync.customer.id}
    /\ Proceed("patch", sync.customer)
    /\ UNCHANGED <<customers, events, visits, faulty>>

-------------------------------------------------------------------------------
(* What the event adds, and failures.                                       *)

\* recordAppointment.
SyncCounts ==
    /\ sync.pc = "count"
    /\ LET row == [sync.customer.row EXCEPT !.total = @ + 1] IN
          /\ Written(row)
          /\ Proceed("note", [sync.customer EXCEPT !.row = row])
    /\ visits' = visits + 1
    /\ UNCHANGED <<timeline, events, faulty>>

\* recordTimeline, the last statement.
SyncNotes ==
    /\ sync.pc = "note"
    /\ timeline' = timeline \cup {sync.customer.id}
    /\ sync' = Idle
    /\ UNCHANGED <<customers, events, visits, faulty>>

\* A statement fails: emitBusinessEvent logs it, and the rest is not done.
SyncFails ==
    /\ sync # Idle
    /\ sync' = Idle
    /\ faulty' = TRUE
    /\ UNCHANGED <<customers, timeline, events, visits>>

CrmNext ==
    \/ \E email \in Emails \cup {NoContact}, phone \in Phones \cup {NoContact},
          visit \in BOOLEAN : SyncBegins(email, phone, visit)
    \/ SyncInserts
    \/ SyncPatches
    \/ SyncMerges
    \/ SyncRepoints
    \/ SyncMarks
    \/ SyncEnters
    \/ SyncCounts
    \/ SyncNotes
    \/ SyncFails

CrmSpec == CrmInit /\ [][CrmNext]_crmVars

-------------------------------------------------------------------------------
(* Properties.                                                              *)

Counted == MapThenSumSet(LAMBDA i : customers[i].total, Live)

\* "Merge them, so history consolidates instead of splitting": whatever was merged with
\* whatever, and whichever statement of a merge failed, every entry of the timeline is of
\* a row that still counts, no appointment is lost from the totals of those rows, and none
\* is counted twice unless a statement failed (merge, markMerged).
MergeLosesNothing ==
    /\ timeline \subseteq Live
    /\ Counted >= visits
    /\ ~ faulty /\ sync.pc \notin {"repoint", "mark"} => Counted = visits
===============================================================================
