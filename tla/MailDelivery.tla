---------------------------- MODULE MailDelivery ----------------------------
(***************************************************************************)
(* The mail of a reminder: claimed by one of the passes that find it due,  *)
(* handed to the queue (or sent at once when the queue does not take it),  *)
(* sent by the worker, tried again, and written to the table of failed     *)
(* mails. The queue library keeps a job for the next worker when the one   *)
(* that has it dies, the first time; it fails the job the second time. It  *)
(* counts a try when it hears how it ended.                                *)
(***************************************************************************)
EXTENDS Naturals, FiniteSets

CONSTANTS
    Mail,       \* reminders that are due, or their mails
    Sender,     \* processes that dispatch them
    Tries,      \* maxRetries + 1
    MaxDeaths, MaxDoubts, MaxByHand     \* bounds of the runs

ASSUME MailAssumption ==
    /\ Tries \in Nat \ {0}
    /\ MaxDeaths \in Nat /\ MaxDoubts \in Nat /\ MaxByHand \in Nat

VARIABLES
    claimed,    \* the reminders with emailSentAt
    sender,     \* the passes: the reminders yet to claim, and the one in hand
    job,        \* the jobs in the queue
    failedRow,  \* the rows of FailedEmail (sets)
    delivered,  \* how often each mail arrived, ...
    doubts,     \* ... and how often one was sent by somebody who did not learn it
    unlogged,   \* the mails of which a write to the table was lost, or not followed up
    dropped,    \* the mails given up: lost with the process that had them, sent at once in
                \* vain, or failed and forgotten by the queue
    deaths, byHand

mailing == <<claimed, sender, job, failedRow, delivered, doubts, unlogged, dropped, deaths, byHand>>

Resting == [pc |-> "idle", pending |-> {}, has |-> {}]
NoJob == [state |-> "none", made |-> 0, stalls |-> 0]

\* How often a job may stall: the default of the queue library, which the worker keeps.
MaxStalledCount == 1

MailInit ==
    /\ claimed = {} /\ sender = [p \in Sender |-> Resting]
    /\ job = [x \in Mail |-> NoJob] /\ failedRow = [x \in Mail |-> {}]
    /\ delivered = [x \in Mail |-> 0] /\ doubts = [x \in Mail |-> 0]
    /\ unlogged = {} /\ dropped = {} /\ deaths = 0 /\ byHand = 0

-----------------------------------------------------------------------------
(* The senders.                                                            *)

\* processDueReminderEmails: by the scheduler's pass or a poll.
StartSending(p) ==
    /\ sender[p].pc = "idle" /\ claimed # Mail
    /\ sender' = [sender EXCEPT ![p] = [pc |-> "claim", pending |-> Mail \ claimed, has |-> {}]]
    /\ UNCHANGED <<claimed, job, failedRow, delivered, doubts, unlogged, dropped, deaths, byHand>>

\* Mutant of Claims: the reminder was found without a stamp before.
ClaimsAnyway(x) == TRUE

\* The conditional update has one row.
Claims(x) == x \notin claimed

ClaimMail(p, x) ==
    /\ sender[p].pc = "claim" /\ x \in sender[p].pending
    /\ claimed' = claimed \cup {x}
    /\ sender' = [sender EXCEPT ![p].pending = @ \ {x},
                                ![p].pc = IF Claims(x) THEN "hand" ELSE @,
                                ![p].has = IF Claims(x) THEN {x} ELSE {}]
    /\ UNCHANGED <<job, failedRow, delivered, doubts, unlogged, dropped, deaths, byHand>>

EndSending(p) ==
    /\ sender[p].pc = "claim" /\ sender[p].pending = {}
    /\ sender' = [sender EXCEPT ![p] = Resting]
    /\ UNCHANGED <<claimed, job, failedRow, delivered, doubts, unlogged, dropped, deaths, byHand>>

\* The queue ignores a second job with the id of one it still has.
Queued(x) == [job EXCEPT ![x] = IF @ = NoJob THEN [NoJob EXCEPT !.state = "waiting"] ELSE @]

HandOver(p) == sender' = [sender EXCEPT ![p].pc = "claim", ![p].has = {}]

QueueMail(p, x) ==
    /\ sender[p].pc = "hand" /\ x \in sender[p].has
    /\ job' = Queued(x) /\ HandOver(p)
    /\ UNCHANGED <<claimed, failedRow, delivered, doubts, unlogged, dropped, deaths, byHand>>

\* Redis is not ready or refuses, or takes the job and the answer is lost.
FallBack(p, x) ==
    /\ sender[p].pc = "hand" /\ x \in sender[p].has
    /\ \/ UNCHANGED <<job, doubts>>
       \/ /\ doubts[x] < MaxDoubts
          /\ job' = Queued(x) /\ doubts' = [doubts EXCEPT ![x] = @ + 1]
    /\ sender' = [sender EXCEPT ![p].pc = "direct"]
    /\ UNCHANGED <<claimed, failedRow, delivered, unlogged, dropped, deaths, byHand>>

\* Sent at once; an error is only logged.
SendDirectly(p, x) ==
    /\ sender[p].pc = "direct" /\ x \in sender[p].has
    /\ \/ delivered' = [delivered EXCEPT ![x] = @ + 1] /\ UNCHANGED dropped
       \/ dropped' = dropped \cup {x} /\ UNCHANGED delivered
    /\ HandOver(p)
    /\ UNCHANGED <<claimed, job, failedRow, doubts, unlogged, deaths, byHand>>

SenderDies(p) ==
    /\ sender[p].pc # "idle" /\ deaths < MaxDeaths
    /\ deaths' = deaths + 1 /\ dropped' = dropped \cup sender[p].has
    /\ sender' = [sender EXCEPT ![p] = Resting]
    /\ UNCHANGED <<claimed, job, failedRow, delivered, doubts, unlogged, byHand>>

-----------------------------------------------------------------------------
(* The worker.                                                             *)

Moves(x, from, to) == job[x].state = from /\ job' = [job EXCEPT ![x].state = to]

\* The processor tries: the mail goes out, or does not, or goes out with an error.
TryMail(x) ==
    /\ \/ Moves(x, "waiting", "sent") /\ delivered' = [delivered EXCEPT ![x] = @ + 1]
          /\ UNCHANGED doubts
       \/ Moves(x, "waiting", "threw") /\ UNCHANGED <<delivered, doubts>>
       \/ /\ Moves(x, "waiting", "threw") /\ doubts[x] < MaxDoubts
          /\ delivered' = [delivered EXCEPT ![x] = @ + 1]
          /\ doubts' = [doubts EXCEPT ![x] = @ + 1]
    /\ UNCHANGED <<claimed, sender, failedRow, unlogged, dropped, deaths, byHand>>

\* Mutant of RowAfter: the last try is counted as one before it.
RowAfterEarly(x) == {IF job[x].made < Tries THEN "retrying" ELSE "failed"}

\* The row after another failed try.
RowAfter(x) == {IF job[x].made + 1 < Tries THEN "retrying" ELSE "failed"}

\* recordFailure. An error of the database is only logged.
RecordFailure(x) ==
    /\ Moves(x, "threw", "recorded")
    /\ \/ failedRow' = [failedRow EXCEPT ![x] = RowAfter(x)] /\ UNCHANGED unlogged
       \/ unlogged' = unlogged \cup {x} /\ UNCHANGED failedRow
    /\ UNCHANGED <<claimed, sender, delivered, doubts, dropped, deaths, byHand>>

\* The queue hears of it: another try, or none.
FailJob(x) ==
    /\ job[x].state = "recorded"
    /\ job' = [job EXCEPT ![x].state = IF job[x].made + 1 < Tries THEN "waiting" ELSE "failed",
                          ![x].made = @ + 1]
    /\ UNCHANGED <<claimed, sender, failedRow, delivered, doubts, unlogged, dropped, deaths, byHand>>

\* clearFailure, after a first try that failed.
ClearFailure(x) ==
    /\ Moves(x, "sent", "cleared")
    /\ \/ failedRow' = [failedRow EXCEPT ![x] = IF job[x].made > 0 THEN {} ELSE @] /\ UNCHANGED unlogged
       \/ job[x].made > 0 /\ unlogged' = unlogged \cup {x} /\ UNCHANGED failedRow
    /\ UNCHANGED <<claimed, sender, delivered, doubts, dropped, deaths, byHand>>

CompleteJob(x) ==
    /\ Moves(x, "cleared", "completed")
    /\ UNCHANGED <<claimed, sender, failedRow, delivered, doubts, unlogged, dropped, deaths, byHand>>

\* The worker dies, and the job stalls until another takes it up: with as many tries
\* counted as before, whatever was sent or recorded meanwhile.
Stalls(x) ==
    /\ job[x].stalls < MaxStalledCount
    /\ job' = [job EXCEPT ![x].state = "waiting", ![x].stalls = @ + 1]
    /\ unlogged' = IF job[x].state = "recorded" THEN unlogged \cup {x} ELSE unlogged

\* It had stalled before: the queue fails it, whatever tries are left, and runs no
\* processor, so that nothing is recorded of it. Whether it counts a try is not in this code.
StallsOut(x) ==
    /\ job[x].stalls >= MaxStalledCount
    /\ \E n \in {job[x].made, job[x].made + 1} :
          job' = [job EXCEPT ![x].state = "failed", ![x].made = n]
    /\ unlogged' = unlogged \cup {x}

WorkerDies(x) ==
    /\ job[x].state \in {"sent", "threw", "recorded", "cleared"}
    /\ deaths < MaxDeaths /\ deaths' = deaths + 1
    /\ Stalls(x) \/ StallsOut(x)
    /\ doubts' = [doubts EXCEPT ![x] = IF job[x].state \in {"sent", "cleared"} THEN @ + 1 ELSE @]
    /\ UNCHANGED <<claimed, sender, failedRow, delivered, dropped, byHand>>

\* From the dashboard. Whether the library forgets the stalls is not in this code.
RetryByHand(x) ==
    /\ byHand < MaxByHand /\ byHand' = byHand + 1
    /\ job[x].state = "failed"
    /\ \E n \in {0, job[x].stalls} : job' = [job EXCEPT ![x].state = "waiting", ![x].stalls = n]
    /\ UNCHANGED <<claimed, sender, failedRow, delivered, doubts, unlogged, dropped, deaths>>

\* A day after it was sent, two weeks after it failed, the queue forgets a job.
ForgetJob(x) ==
    /\ job[x].state \in {"completed", "failed"} /\ job' = [job EXCEPT ![x] = NoJob]
    /\ dropped' = IF job[x].state = "failed" THEN dropped \cup {x} ELSE dropped
    /\ UNCHANGED <<claimed, sender, failedRow, delivered, doubts, unlogged, deaths, byHand>>

\* deleteFailedEmails, every Sunday.
CleanUp ==
    /\ failedRow' = [x \in Mail |-> failedRow[x] \ {"failed"}]
    /\ UNCHANGED <<claimed, sender, job, delivered, doubts, unlogged, dropped, deaths, byHand>>

-----------------------------------------------------------------------------
MailNext ==
    \/ \E p \in Sender :
         \/ StartSending(p) \/ EndSending(p) \/ SenderDies(p)
         \/ \E x \in Mail : ClaimMail(p, x) \/ QueueMail(p, x) \/ FallBack(p, x) \/ SendDirectly(p, x)
    \/ \E x \in Mail :
         \/ TryMail(x) \/ RecordFailure(x) \/ FailJob(x) \/ ClearFailure(x) \/ CompleteJob(x)
         \/ WorkerDies(x) \/ RetryByHand(x) \/ ForgetJob(x)
    \/ CleanUp

MailSpec == MailInit /\ [][MailNext]_mailing

\* However many passes and polls find the reminder due, tries fail and workers die, a mail
\* arrives twice only as often as somebody sent it without learning that he did: a lost
\* answer of the queue or of the mail server, or a death between the sending and the end
\* of the job.
MailedOnce == \A x \in Mail : delivered[x] <= 1 + doubts[x]

\* The table tells how the queue stands: a row that is retrying while the job waits for
\* another try, one that failed (until Sunday) when there is none left, and none once it was
\* sent. But for a write of the table that failed, a death between the row and the end of
\* the try (the retry then counts as the first, and its success leaves the row), and a
\* second death over one mail: the queue fails the job by itself, and a row that says it is
\* retried stays. A mail that was claimed and has not arrived is in somebody's hands or in
\* the queue, or was given up in one of the ways there are.
TableTells ==
    \A x \in Mail :
        /\ x \notin unlogged =>
              /\ job[x].state = "waiting" /\ job[x].made = 0 => failedRow[x] = {}
              /\ job[x].state = "waiting" /\ job[x].made \in 1 .. Tries - 1 =>
                    failedRow[x] = {"retrying"} \/ (failedRow[x] = {} /\ delivered[x] > 0)
              /\ job[x].state = "failed" => failedRow[x] \subseteq {"failed"}
              /\ job[x].state \in {"cleared", "completed"} => failedRow[x] = {}
        /\ x \in claimed /\ delivered[x] = 0 =>
              x \in dropped \/ job[x].state # "none" \/ \E p \in Sender : x \in sender[p].has
=============================================================================
