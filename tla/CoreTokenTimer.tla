--------------------------- MODULE CoreTokenTimer ---------------------------
(***************************************************************************)
(* When maintenance_task (core_app.cpp) refreshes the access token: it     *)
(* looks every Period, after ten elevenths of the lifetime counted from    *)
(* the answer of the last request, at once when that moment is unknown     *)
(* (after a restart) or the session is down, and not twice in a cooldown.  *)
(*                                                                         *)
(* Ages are counted in ticks.  The token ages from the moment the cloud    *)
(* issues it, within the request; the device counts from the answer.  What *)
(* a refresh does to the stored tokens is CoreCredentials.                 *)
(***************************************************************************)
EXTENDS Integers

CONSTANTS
  Lifetime,      \* token_expires_in, as the cloud sets it
  Period,        \* the delay of the loop, 30 s
  Cooldown,      \* kTokenRefreshCooldownUs
  RequestTime,   \* a request takes at most this long
  Failures       \* bound: requests in a row that may fail

ASSUME TokenAssumption ==
  /\ {Lifetime, Period, Cooldown, RequestTime} \subseteq Nat \ {0} /\ Failures \in Nat
  /\ Cooldown <= Period
  \* What is left of the lifetime covers the loop, the requests and those that fail.
  /\ Lifetime >= 11 * (Period + 2 * RequestTime + Failures * (Period + RequestTime))

Never == -1     \* last_token_refresh_..._us is 0

VARIABLES
  token_age,      \* since the cloud issued the token that is stored
  success_age,    \* since last_token_refresh_success_us, or Never
  attempt_age,    \* since last_token_refresh_attempt_us, or Never
  next_round,     \* ticks until the loop's next round
  request,        \* ticks the request under way has taken, or Never
  issued,         \* age of the token that its answer carries, or Never
  session,        \* s.mqtt_connected
  failed          \* requests that failed in a row

ages == <<token_age, success_age, attempt_age>>
timer == <<ages, next_round, request, issued, session, failed>>

Oldest == Lifetime + Period     \* bound: ages are told apart up to here
Aged(age) == IF age = Never \/ age = Oldest THEN age ELSE age + 1

TokenTypeOK ==
  /\ token_age \in 0..Oldest
  /\ {success_age, attempt_age} \subseteq {Never} \cup 0..Oldest
  /\ next_round \in 0..Period
  /\ request \in {Never} \cup 0..RequestTime /\ issued \in {Never} \cup 0..RequestTime
  /\ request = Never => issued = Never
  /\ session \in BOOLEAN /\ failed \in 0..Failures

\* The first tokens were just stored by the BLE flow.
TokenInit ==
  /\ token_age = 0 /\ success_age = 0 /\ attempt_age = 0
  /\ next_round \in 0..Period
  /\ request = Never /\ issued = Never
  /\ session = TRUE /\ failed = 0

TokenTick ==
  /\ next_round > 0 \/ request # Never
  /\ request < RequestTime
  /\ token_age' = Aged(token_age)
  /\ success_age' = Aged(success_age) /\ attempt_age' = Aged(attempt_age)
  /\ request' = Aged(request) /\ issued' = Aged(issued)
  /\ next_round' = IF request = Never THEN next_round - 1 ELSE next_round
  /\ UNCHANGED <<session, failed>>

\* Mutant: the whole lifetime, not ten elevenths of it.
DueAtExpiry == success_age # Never /\ success_age >= Lifetime

proactive_refresh_due == success_age # Never /\ success_age * 11 >= Lifetime * 10

refresh_timing_unknown == success_age = Never

cooldown_elapsed == attempt_age = Never \/ attempt_age >= Cooldown

RefreshDue ==
  (~session \/ proactive_refresh_due \/ refresh_timing_unknown) /\ cooldown_elapsed

\* The device sends the request; the loop sleeps only after its answer.
RoundRefreshes ==
  /\ next_round = 0 /\ request = Never
  /\ RefreshDue
  /\ request' = 0 /\ attempt_age' = 0
  /\ UNCHANGED <<token_age, success_age, next_round, issued, session, failed>>

RoundSkips ==
  /\ next_round = 0 /\ request = Never
  /\ ~RefreshDue
  /\ next_round' = Period
  /\ UNCHANGED <<ages, request, issued, session, failed>>

\* External: the cloud issues the next token somewhere in the request.
CloudIssues ==
  /\ request # Never /\ issued = Never
  /\ issued' = 0
  /\ UNCHANGED <<ages, next_round, request, session, failed>>

Stamps == success_age' = 0 /\ attempt_age' = 0

AnswerArrives ==
  /\ issued # Never
  /\ token_age' = issued /\ Stamps
  /\ request' = Never /\ issued' = Never /\ next_round' = Period
  /\ failed' = 0
  /\ UNCHANGED session

RequestLost ==
  /\ request # Never /\ failed < Failures
  /\ request' = Never /\ issued' = Never /\ next_round' = Period
  /\ failed' = failed + 1
  /\ UNCHANGED <<ages, session>>

SessionFlaps == session' = ~session /\ UNCHANGED <<ages, next_round, request, issued, failed>>

\* init resets both stamps; what is left of the token's life goes on.  A restart that
\* cuts off a request is one of its failures.
TokenRestart ==
  /\ success_age' = Never /\ attempt_age' = Never
  /\ next_round' = 0 /\ request' = Never /\ issued' = Never
  /\ session' = FALSE
  /\ failed' = failed + (IF request = Never THEN 0 ELSE 1) /\ failed' <= Failures
  /\ UNCHANGED token_age

TokenNext ==
  \/ TokenTick \/ RoundRefreshes \/ RoundSkips \/ CloudIssues \/ AnswerArrives \/ RequestLost
  \/ SessionFlaps \/ TokenRestart
TokenSpec == TokenInit /\ [][TokenNext]_timer

-----------------------------------------------------------------------------
(* Properties *)

\* The stored token has not expired as long as no more than Failures requests in a row
\* fail, whatever the session does and through restarts: ten elevenths leave room for
\* the loop's delay, slow answers and retries if the lifetime is as long as assumed.
TokenStaysFresh == token_age <= Lifetime
=============================================================================
