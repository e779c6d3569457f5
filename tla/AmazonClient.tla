---------------------------- MODULE AmazonClient ----------------------------
(***************************************************************************)
(* Requests to Amazon's API: the sweep and the lookups of one process      *)
(* share a pacer, which gives every attempt a slot of its own, and a       *)
(* cached access token, which Amazon may revoke at any time. Each request  *)
(* is tried again after a throttled, failed or lost attempt, and once more *)
(* with a new token when its token is rejected.                            *)
(***************************************************************************)
EXTENDS Naturals

CONSTANTS
    Caller,     \* the requests that may be under way at once
    Interval,   \* the pacer's spacing at Amazon's documented rate
    Limits,     \* the spacings Amazon may report
    MaxLag,     \* how late a timer may fire
    MaxRetries, BackoffBase, BackoffCap,
    MaxClock, MaxRevoked    \* bounds of the runs

ASSUME PaceAssumption ==
    /\ Interval \in Nat \ {0} /\ Limits \subseteq Nat /\ MaxLag \in Nat
    /\ MaxRetries \in Nat /\ BackoffBase \in Nat /\ BackoffCap \in Nat
    /\ MaxClock \in Nat /\ MaxRevoked \in Nat

VARIABLES
    clock,
    spacing, nextAt,    \* the pacer
    cache,      \* the cached token (a set)
    valid,      \* the tokens issued since this number are accepted
    call,       \* the requests under way
    sent        \* the attempts that went out: their slot, its spacing, and when

client == <<clock, spacing, nextAt, cache, valid, call, sent>>

NoCall == [pc |-> "idle", turn |-> "first", token |-> {}, attempt |-> 0, until |-> 0,
           gap |-> 0, revoked |-> FALSE]

ClientInit ==
    /\ clock = 0 /\ spacing = Interval /\ nextAt = 0
    /\ cache = {} /\ valid = 0
    /\ call = [c \in Caller |-> NoCall]
    /\ sent = {}

Larger(a, b) == IF a >= b THEN a ELSE b
Go(c, pc) == call' = [call EXCEPT ![c].pc = pc]

-----------------------------------------------------------------------------
(* The token.                                                              *)

\* Mutant of Cached: a forced refresh finds the old token.
CachedAnyway(c) == cache

\* What getAccessToken finds: nothing when it is forced.
Cached(c) == IF call[c].turn = "again" THEN {} ELSE cache

\* spApiRequest begins (or, with the second turn, begins again).
BeginCall(c) ==
    /\ call[c].pc = "idle" /\ clock < MaxClock
    /\ Go(c, "token")
    /\ UNCHANGED <<clock, spacing, nextAt, cache, valid, sent>>

GetToken(c) ==
    /\ call[c].pc = "token"
    /\ call' = [call EXCEPT ![c].token = Cached(c), ![c].attempt = 0,
                            ![c].pc = IF Cached(c) = {} THEN "mint" ELSE "attempt"]
    /\ UNCHANGED <<clock, spacing, nextAt, cache, valid, sent>>

\* Amazon issues a token, or the refresh fails for good.
Issue(c) ==
    /\ call[c].pc = "mint"
    /\ \/ call' = [call EXCEPT ![c].token = {valid}, ![c].pc = "minted", ![c].revoked = FALSE]
       \/ call' = [call EXCEPT ![c] = NoCall]
    /\ UNCHANGED <<clock, spacing, nextAt, cache, valid, sent>>

\* The answer arrives: whoever is last fills the cache.
FillCache(c) ==
    /\ call[c].pc = "minted"
    /\ cache' = call[c].token
    /\ Go(c, "attempt")
    /\ UNCHANGED <<clock, spacing, nextAt, valid, sent>>

\* The cached token is about to expire.
ExpireToken ==
    /\ cache # {} /\ cache' = {}
    /\ UNCHANGED <<clock, spacing, nextAt, valid, call, sent>>

\* The tokens issued so far are revoked.
Revoke ==
    /\ valid < MaxRevoked /\ valid' = valid + 1
    /\ call' = [c \in Caller |->
          IF call[c].pc = "idle" THEN call[c] ELSE [call[c] EXCEPT !.revoked = TRUE]]
    /\ UNCHANGED <<clock, spacing, nextAt, cache, sent>>

-----------------------------------------------------------------------------
(* The attempts.                                                           *)

\* Mutant of Slot: as if no slot was taken ahead.
SlotNow(c) == clock

\* Pacer.reserve: the first free slot.
Slot(c) == Larger(clock, nextAt)

\* Pacer.acquire, before each attempt.
Acquire(c) ==
    /\ call[c].pc = "attempt"
    /\ nextAt' = Slot(c) + spacing
    /\ call' = [call EXCEPT ![c].pc = "pacing", ![c].until = Slot(c), ![c].gap = spacing]
    /\ UNCHANGED <<clock, spacing, cache, valid, sent>>

\* The slot has come, or the timer is late.
Send(c) ==
    /\ call[c].pc = "pacing" /\ clock >= call[c].until
    /\ sent' = sent \cup {[slot |-> call[c].until, gap |-> call[c].gap, at |-> clock]}
    /\ Go(c, "sent")
    /\ UNCHANGED <<clock, spacing, nextAt, cache, valid>>

\* The request is over. observeLimit never speeds up.
Answer(c) ==
    /\ call[c].pc = "sent" /\ call[c].token = {valid}
    /\ \E limit \in Limits \cup {0} : spacing' = Larger(spacing, limit)
    /\ call' = [call EXCEPT ![c] = NoCall]
    /\ UNCHANGED <<clock, nextAt, cache, valid, sent>>

\* A 401, or a 403 about the token: once more with a forced token.
Reject(c) ==
    /\ call[c].pc = "sent" /\ call[c].token # {valid}
    /\ call' = [call EXCEPT ![c].turn = "again",
                            ![c].pc = IF call[c].turn = "again" THEN "rejected" ELSE "token"]
    /\ UNCHANGED <<clock, spacing, nextAt, cache, valid, sent>>

\* backoffMs: doubled each time up to a cap, longer with a jitter or a Retry-After.
Backoff(attempt, more) ==
    LET doubled == BackoffBase * 2 ^ attempt + more
    IN  IF doubled <= BackoffCap THEN doubled ELSE BackoffCap

\* Throttled, failed, or no answer at all: another attempt, if any is left.
Retry(c) ==
    /\ call[c].pc = "sent"
    /\ \/ call[c].attempt = MaxRetries /\ call' = [call EXCEPT ![c] = NoCall]
       \/ /\ call[c].attempt # MaxRetries
          /\ \E more \in {0, 1} :
                call' = [call EXCEPT ![c].pc = "backoff", ![c].attempt = @ + 1,
                                     ![c].until = clock + Backoff(call[c].attempt, more)]
    /\ UNCHANGED <<clock, spacing, nextAt, cache, valid, sent>>

EndBackoff(c) ==
    /\ call[c].pc = "backoff" /\ clock >= call[c].until
    /\ Go(c, "attempt")
    /\ UNCHANGED <<clock, spacing, nextAt, cache, valid, sent>>

\* The caller gets the error.
EndCall(c) ==
    /\ call[c].pc = "rejected"
    /\ call' = [call EXCEPT ![c] = NoCall]
    /\ UNCHANGED <<clock, spacing, nextAt, cache, valid, sent>>

\* A timer is at most MaxLag late.
TickClock ==
    /\ clock < MaxClock
    /\ \A c \in Caller : call[c].pc = "pacing" => clock < call[c].until + MaxLag
    /\ clock' = clock + 1
    /\ UNCHANGED <<spacing, nextAt, cache, valid, call, sent>>

-----------------------------------------------------------------------------
ClientNext ==
    \/ \E c \in Caller :
         \/ BeginCall(c) \/ GetToken(c) \/ Issue(c) \/ FillCache(c)
         \/ Acquire(c) \/ Send(c) \/ Answer(c) \/ Reject(c) \/ Retry(c) \/ EndBackoff(c)
         \/ EndCall(c)
    \/ ExpireToken \/ Revoke \/ TickClock

ClientSpec == ClientInit /\ [][ClientNext]_client

\* The rate limit: however sweeps, lookups and their retries interleave, no two attempts
\* have one slot, and they go out as far apart as the pacer's spacing was when the first
\* took its slot, but for the lateness of a timer.
Paced ==
    \A x, y \in sent :
        /\ x.slot = y.slot => x = y
        /\ x.slot < y.slot => x.slot + x.gap <= y.slot /\ x.at + x.gap <= y.at + MaxLag

\* A request fails for its token only when the token it got for the second try was
\* revoked meanwhile: the cached token, however old, never makes it fail.
RejectedMeansRevoked == \A c \in Caller : call[c].pc = "rejected" => call[c].revoked
=============================================================================
