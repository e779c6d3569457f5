------------------------------ MODULE TimeDays ------------------------------
(***************************************************************************)
(* The time a person logs on the duties of one day, from several windows.  *)
(* A save replaces the entries, the note and the state of the day: it is   *)
(* checked against three readings and written in a transaction, each of    *)
(* whose statements sees what others had committed when it began (READ     *)
(* COMMITTED). Completing and reopening read the day and write it in       *)
(* another statement. The version of the day that an editor sends with a   *)
(* save can only refuse it.                                                *)
(***************************************************************************)
EXTENDS Integers, FiniteSetsExt

CONSTANTS
    Window, Duty,   \* requests that may be under way at once; the duties
    Minutes,         \* the amounts that are entered, 0 for none
    DayMax,         \* TIME_DAY_MAX_MINUTES
    MaxAsked        \* a bound of the runs: requests

ASSUME DayAssumption == Minutes \subseteq Nat /\ 0 \in Minutes /\ DayMax \in Nat /\ MaxAsked \in Nat

VARIABLES
    entries,        \* the amount on each duty
    day,            \* the row of the day: whether there is one, completed, with a note
    held,           \* the duties the person holds
    save,           \* the request of each window (drops: the rows it has found to delete)
    asked

days == <<entries, day, held, save, asked>>

NoDay == [row |-> FALSE, completed |-> FALSE, noted |-> FALSE]
Quiet == [how |-> "none", drops |-> {}]
Total(e) == MapThenSumSet(LAMBDA d : e[d], Duty)
Logged(e) == {d \in Duty : e[d] > 0}

DaysInit ==
    /\ entries \in [Duty -> Minutes] /\ Total(entries) <= DayMax
    /\ \E completed \in BOOLEAN :
          day = [row |-> completed \/ Logged(entries) # {}, completed |-> completed, noted |-> FALSE]
    /\ held = Duty /\ save = [r \in Window |-> Quiet] /\ asked = 0

Stored == [day |-> day, entries |-> entries, held |-> held]

Blank == [day |-> NoDay, entries |-> [d \in Duty |-> 0], held |-> Duty]

\* What is written is news to the requests that have read it; a row that is gone is not
\* there to be deleted.
Told(q, what, gone) ==
    IF save[q].how = "none" THEN Quiet
    ELSE [save[q] EXCEPT !.overtaken = @ \cup (what \ save[q].left), !.drops = @ \ gone]
Overtake(r, what) ==
    save' = [q \in Window |-> IF q = r THEN Quiet ELSE Told(q, what, save[r].drops)]

AskDay(r, how) ==
    /\ save[r] = Quiet /\ asked < MaxAsked /\ asked' = asked + 1
    /\ save' = [save EXCEPT ![r] = [how |-> how, left |-> DOMAIN Blank, saw |-> Blank, drops |-> {},
                                    form |-> {}, overtaken |-> {}]]
    /\ UNCHANGED <<entries, day, held>>

\* One of the readings, in any order for a save; a reopening counts the entries last.
ReadDay(r, what) ==
    /\ save[r].how # "none" /\ what \in save[r].left
    /\ save[r].how = "complete" => what = "day"
    /\ save[r].how = "reopen" => what = "day" \/ (what = "entries" /\ "day" \notin save[r].left)
    /\ save' = [save EXCEPT ![r].saw[what] = Stored[what], ![r].left = @ \ {what}]
    /\ UNCHANGED <<entries, day, held, asked>>

\* Refused by a check, nothing to do, or the transaction rolled back.
EndAsk(r) ==
    /\ save[r].how # "none" /\ save' = [save EXCEPT ![r] = Quiet]
    /\ UNCHANGED <<entries, day, held, asked>>

\* What saveDay checks: open, only what is held or was there, and within the day.
Fits(saw, want) ==
    /\ ~saw.day.completed
    /\ \A d \in Logged(want) : d \in saw.held \/ want[d] <= saw.entries[d]
    /\ Total(want) <= DayMax

\* Mutant of Drops: the entries it has read go, those that were added since stay.
DropsSeen(r, want) == Logged(save[r].saw.entries) \ Logged(want)

\* The rows the deleteMany finds: those that are there when it begins.
Drops(r, want) == Logged(entries) \ Logged(want)

\* The transaction begins with the deletion of the entries that are not wanted. It knows
\* the rows of its snapshot only: what others insert from now on stays.
ClearDay(r, form) ==
    LET s == save[r]
    IN  /\ s.how = "save" /\ s.left = {} /\ Fits(s.saw, form.want)
        /\ save' = [save EXCEPT ![r] =
              [s EXCEPT !.how = "deleting", !.form = form, !.drops = Drops(r, form.want),
                        !.overtaken = s.overtaken \ {"rows"},
                        !.saw = [s.saw EXCEPT !.entries = Blank.entries, !.held = Blank.held]]]
        /\ UNCHANGED <<entries, day, held, asked>>

\* Another transaction has deleted the row, and not ended.
Locked(r, rows) == \E q \in Window \ {r} : save[q].how = "saving" /\ save[q].drops \cap rows # {}

\* It waits for those, passes over the rows they took away, and locks the rest.
DeleteRows(r) ==
    /\ save[r].how = "deleting" /\ ~Locked(r, save[r].drops)
    /\ save' = [save EXCEPT ![r].how = "saving"]
    /\ UNCHANGED <<entries, day, held, asked>>

\* The upserts, the row of the day, and the commit. A row that is to go and is gone
\* rolls everything back.
CommitDay(r) ==
    LET form == save[r].form
        keep == Logged(form.want) # {} \/ form.noted \/ form.completed
    IN  /\ save[r].how = "saving"
        /\ ~Locked(r, Logged(form.want))
        /\ ~keep /\ save[r].saw.day.row => day.row
        /\ entries' = [d \in Duty |-> IF form.want[d] > 0 THEN form.want[d]
                                      ELSE IF d \in save[r].drops THEN 0 ELSE entries[d]]
        /\ day' = IF keep THEN [row |-> TRUE, completed |-> form.completed, noted |-> form.noted]
                  ELSE IF save[r].saw.day.row THEN NoDay ELSE day
        /\ Overtake(r, {"day", "entries", "rows"}) /\ UNCHANGED <<held, asked>>

\* setDayCompleted
Complete(r) ==
    /\ save[r].how = "complete" /\ "day" \notin save[r].left /\ ~save[r].saw.day.completed
    /\ day' = [day EXCEPT !.row = TRUE, !.completed = TRUE]
    /\ Overtake(r, {"day"}) /\ UNCHANGED <<entries, held, asked>>

Reopen(r) ==
    LET saw == save[r].saw
    IN  /\ save[r].how = "reopen" /\ save[r].left = {"held"} /\ saw.day.completed /\ day.row
        /\ day' = IF Logged(saw.entries) = {} /\ ~saw.day.noted THEN NoDay
                  ELSE [day EXCEPT !.completed = FALSE]
        /\ Overtake(r, {"day"}) /\ UNCHANGED <<entries, held, asked>>

\* An Admin takes a duty away.
DropDuty(d) ==
    /\ d \in held /\ held' = held \ {d}
    /\ save' = [q \in Window |-> Told(q, {"held"}, {})]
    /\ UNCHANGED <<entries, day, asked>>

DayForms == [want : [Duty -> Minutes], noted : BOOLEAN, completed : BOOLEAN]

DaysNext ==
    \/ \E r \in Window :
          \/ \E how \in {"save", "complete", "reopen"} : AskDay(r, how)
          \/ \E what \in {"day", "entries", "held"} : ReadDay(r, what)
          \/ \E form \in DayForms : ClearDay(r, form)
          \/ DeleteRows(r) \/ CommitDay(r) \/ Complete(r) \/ Reopen(r) \/ EndAsk(r)
    \/ \E d \in Duty : DropDuty(d)

DaysSpec == DaysInit /\ [][DaysNext]_days

\* What the rules of a day come to, the checks and the writing being apart: a save that
\* nobody has overtaken since it read the day leaves a completed day alone; since it read
\* the entries and the duties, it raises nothing on a duty that is not held; and since its
\* deletion began (which may have waited for another save, whose new entries then stay),
\* the day has what was sent and no more than a day holds, and a row. A reopening keeps
\* the row of a day that has entries or a note, unless it was overtaken.
DayHolds ==
    [][\A r \in Window :
        /\ CommitDay(r) =>
            /\ "day" \notin save[r].overtaken => ~day.completed
            /\ {"entries", "held"} \cap save[r].overtaken = {} =>
                  (\A d \in Duty \ held : entries'[d] <= entries[d])
            /\ "rows" \notin save[r].overtaken =>
                  (Total(entries') <= DayMax /\ (Logged(entries') # {} => day'.row))
        /\ Reopen(r) /\ {"day", "entries"} \cap save[r].overtaken = {} =>
              (Logged(entries') # {} \/ day'.noted => day'.row)]_days
=============================================================================
