---------------------------- MODULE Organization ----------------------------
(***************************************************************************)
(* Who reports to whom. Three requests write the lines of the chart: the   *)
(* Organization screen saves a batch of moves, the Users screen changes or *)
(* deactivates one account, and two accounts are merged. Each reads and    *)
(* checks in statements of its own and then writes in a transaction, in    *)
(* which a trigger of the database looks at the supervisor of every row    *)
(* that is written.                                                        *)
(***************************************************************************)
EXTENDS Naturals, FiniteSets

CONSTANTS
    Account, Role,
    Boss,       \* the roles that may supervise
    UserForms,  \* the sets of fields the Users screen changes
    Writer,     \* the requests that may be under way at once
    NoOne, Same,
    MaxBegun    \* a bound of the runs

ASSUME ChartAssumption ==
    /\ {"Admin", "Manager"} = Boss /\ Boss \subseteq Role
    /\ NoOne \notin Account /\ Same \notin Account \cup Role \cup {NoOne}
    /\ IsFiniteSet(Account) /\ MaxBegun \in Nat

VARIABLES
    user,       \* role, active, and supervisor of each
    merged,     \* the accounts merged into others
    request,
    late,       \* who was written on a reading that had them active, or not, wrongly
    demoted,    \* who lost the role on an old count of their reports
    begun

chart == <<user, merged, request, late, demoted, begun>>

Idle == [pc |-> "idle"]

Reports(u, p) == {q \in Account : u[q].sup = p}

\* Everyone above p: who is in every set that has p's supervisor, and its own members'.
Upward(u, p) ==
    LET Sups(P) == {u[q].sup : q \in P} \ {NoOne}
    IN  {a \in Account : \A V \in SUBSET Account : Sups(V \cup {p}) \subseteq V => a \in V}

Looped(u) == {p \in Account : p \in Upward(u, p)}

\* getDownlineIds
Team(u, p) == {q \in Account \ {p} : p \in Upward(u, q)}

\* Mutant of Admits: without the trigger.
AdmitsAll(u, p) == p \in Account

\* The trigger check_supervisor_role, on the row of p.
Admits(u, p) == u[p].sup # NoOne => u[p].sup # p /\ u[u[p].sup].role \in Boss

\* Active accounts in a chart without loops.
ChartInit ==
    /\ user \in [Account -> [role : Role, active : {TRUE}, sup : Account \cup {NoOne}]]
    /\ Looped(user) = {} /\ \A p \in Account : Admits(user, p)
    /\ merged = {} /\ request = [r \in Writer |-> Idle]
    /\ late = {} /\ demoted = {} /\ begun = 0

-----------------------------------------------------------------------------
(* The Organization screen.                                                *)

Begin(r) == request[r].pc = "idle" /\ begun < MaxBegun /\ begun' = begun + 1

\* manageableIds: an administrator manages everyone, a manager the people below.
ReadTeam(r, p) ==
    /\ Begin(r) /\ user[p].active /\ user[p].role \in Boss
    /\ request' = [request EXCEPT ![r] =
          [pc |-> "chart", kind |-> "org", who |-> p, seen |-> {user},
           reach |-> IF user[p].role = "Admin" THEN Account ELSE Team(user, p)]]
    /\ UNCHANGED <<user, merged, late, demoted>>

Moved(u, lines) ==
    [p \in Account |-> IF p \in DOMAIN lines THEN [u[p] EXCEPT !.sup = lines[p]] ELSE u[p]]

\* The walk up from p comes to an end.
Ends(u, p) == \A q \in {p} \cup Upward(u, p) : q \notin Looped(u)

\* Mutant of Loopless: each move is judged by the chart before the batch.
LooplessAlone(u, lines) ==
    \A p \in DOMAIN lines : Ends([u EXCEPT ![p].sup = lines[p]], p)

\* No loops in the chart that results.
Loopless(u, lines) == \A p \in DOMAIN lines : Ends(Moved(u, lines), p)

\* The batches that saveOrgChanges accepts of p, who manages the people in reach.
Saves(p, reach) ==
    {lines \in UNION {[P -> Account \cup {NoOne}] : P \in SUBSET reach \ {{}}} :
        /\ \A q \in DOMAIN lines :
              /\ user[q].active
              /\ IF lines[q] = NoOne THEN reach = Account
                 ELSE /\ lines[q] # q /\ lines[q] \in reach \cup {p}
                      /\ user[lines[q]].active /\ user[lines[q]].role \in Boss
        /\ Loopless(user, lines)}

ReadChart(r) ==
    /\ request[r].pc = "chart"
    /\ \E lines \in Saves(request[r].who, request[r].reach) :
          request' = [request EXCEPT ![r] =
              [pc |-> "write", kind |-> "org", who |-> @.who, reach |-> @.reach,
               seen |-> @.seen \cup {user}, lines |-> lines]]
    /\ UNCHANGED <<user, merged, late, demoted, begun>>

-----------------------------------------------------------------------------
(* The Users screen, and merges. Both are an administrator's.              *)

Changed(in) == {f \in {"sup", "role", "active"} : in[f] # Same}

\* updateUser and deactivateUser.
ReadUser(r, p) ==
    /\ Begin(r)
    /\ \E in \in [sup : Account \cup {NoOne, Same}, role : Role \cup {Same},
                  active : BOOLEAN \cup {Same}] :
          /\ Changed(in) \in UserForms
          /\ request' = [request EXCEPT ![r] =
                [pc |-> "supervisor", kind |-> "user", who |-> p, from |-> p, in |-> in,
                 seen |-> {user}, counted |-> {}, leaves |-> in.active = FALSE /\ user[p].active]]
    /\ UNCHANGED <<user, merged, late, demoted>>

\* mergeUsers: a supervisor that is one of the two is none.
ReadAccounts(r, p, q) ==
    /\ Begin(r) /\ p # q /\ user[p].active /\ q \notin merged
    /\ \E sup \in (Account \ {p, q}) \cup {NoOne}, role \in Role :
          request' = [request EXCEPT ![r] =
              [pc |-> "supervisor", kind |-> "merge", who |-> p, from |-> q,
               in |-> [sup |-> sup, role |-> role, active |-> Same],
               seen |-> {user}, counted |-> {}, leaves |-> FALSE]]
    /\ UNCHANGED <<user, merged, late, demoted>>

\* assertValidSupervisor, when one is named.
CheckSupervisor(r) ==
    LET e == request[r]
    IN  /\ e.pc = "supervisor"
        /\ e.in.sup \in Account =>
              e.in.sup # e.who /\ user[e.in.sup].active /\ user[e.in.sup].role \in Boss
        /\ request' = [request EXCEPT ![r].pc = "reports",
              ![r].seen = IF e.in.sup \in Account THEN @ \cup {user} ELSE @]
        /\ UNCHANGED <<user, merged, late, demoted, begun>>

\* The reports of the account, or of both but for the two themselves.
Counted(e) ==
    (Reports(user, e.who) \cup Reports(user, e.from))
        \ (IF e.kind = "merge" THEN {e.who, e.from} ELSE {})

\* One who loses the role must have no reports.
CountReports(r) ==
    LET e == request[r]
    IN  /\ e.pc = "reports"
        /\ e.in.role \in Role \ Boss => Counted(e) = {}
        /\ request' = [request EXCEPT ![r].pc = "write", ![r].counted = Counted(e)]
        /\ UNCHANGED <<user, merged, late, demoted, begun>>

-----------------------------------------------------------------------------
Given(new, now) == IF new = Same THEN now ELSE new

Profile(e) ==
    [user EXCEPT ![e.who] = [role |-> Given(e.in.role, @.role), active |-> Given(e.in.active, @.active),
                             sup |-> Given(e.in.sup, @.sup)]]

\* The accounts after the transaction: who leaves supervises nobody, and the reports of
\* a merged account go to the one that stays.
After(e) ==
    IF e.kind = "org" THEN Moved(user, e.lines)
    ELSE IF e.kind = "user"
    THEN [p \in Account |->
            IF e.leaves /\ Profile(e)[p].sup = e.who THEN [Profile(e)[p] EXCEPT !.sup = NoOne]
            ELSE Profile(e)[p]]
    ELSE [p \in Account |->
            LET row == IF p = e.from THEN [user[p] EXCEPT !.active = FALSE] ELSE Profile(e)[p]
            IN  IF row.sup = e.from THEN [row EXCEPT !.sup = e.who] ELSE row]

\* The rows the transaction writes.
Rows(e) ==
    IF e.kind = "org" THEN DOMAIN e.lines
    ELSE IF e.kind = "user" THEN {e.who} ELSE {e.who, e.from} \cup Reports(user, e.from)

\* Whom it takes for active, or not.
About(e) ==
    (IF e.kind = "org" THEN {e.lines[p] : p \in DOMAIN e.lines} ELSE {e.who, e.from, e.in.sup})
        \cap Account

CommitChart(r) ==
    LET e == request[r]
    IN  /\ e.pc = "write"
        /\ \A p \in Rows(e) : Admits(After(e), p)
        /\ user' = After(e)
        /\ merged' = IF e.kind = "merge" THEN merged \cup {e.from} ELSE merged
        /\ late' = late \cup {p \in About(e) : \E u \in e.seen : u[p].active # user[p].active}
        /\ demoted' = demoted \cup
              {p \in {e.who} : /\ e.kind # "org" /\ e.in.role \in Role \ Boss
                               /\ Counted(e) # e.counted}
        /\ request' = [request EXCEPT ![r] = Idle] /\ UNCHANGED begun

\* Refused, by a check or by the trigger.
GiveUpChart(r) ==
    /\ request[r].pc # "idle" /\ request' = [request EXCEPT ![r] = Idle]
    /\ UNCHANGED <<user, merged, late, demoted, begun>>

-----------------------------------------------------------------------------
ChartNext ==
    \E r \in Writer :
        \/ \E p \in Account : ReadTeam(r, p) \/ ReadUser(r, p)
        \/ \E p, q \in Account : ReadAccounts(r, p, q)
        \/ ReadChart(r) \/ CheckSupervisor(r) \/ CountReports(r)
        \/ CommitChart(r) \/ GiveUpChart(r)

ChartSpec == ChartInit /\ [][ChartNext]_chart

\* "A supervisorId may only reference a user whose role is Manager or Admin", and "an
\* inactive user may not supervise": through moves, demotions, deactivations and merges,
\* and whatever was old when it was written, but for a demotion on an old count of the
\* reports (which the trigger does not see) and for somebody whose being active was old.
SupervisorsFit ==
    \A p \in Account :
        LET s == user[p].sup
        IN  s # NoOne =>
              /\ s \in demoted \/ user[s].role \in Boss
              /\ s \in late \/ user[s].active

\* A save of the Organization screen whose readings still hold closes no loop, whatever
\* loops the other screens have made; and a manager's save, however its moves depend on
\* each other, keeps the team: nobody leaves it and nobody comes in.
SavesKeepTheChart ==
    [][\A r \in Writer :
         LET e == request[r] IN
         e.pc = "write" /\ e.kind = "org" /\ user' # user /\ request'[r] # e
         /\ (\A u \in e.seen, p \in Account : u[p].sup = user[p].sup)
         => /\ Looped(user') \subseteq Looped(user)
            /\ e.reach # Account => Team(user', e.who) = Team(user, e.who)]_chart
=============================================================================
