----------------------------- MODULE AppsClient -----------------------------
(***************************************************************************)
(* The client an application uses to call the events of another one         *)
(* (plugins/clients/apps-client): a round robin over the hosts of the other *)
(* application, with one circuit breaker for each host.                     *)
(*                                                                          *)
(* Callers are the concurrent calls of AppsClient.call.  A call takes the   *)
(* time once, when it begins, and chooses hosts and records failures with   *)
(* that time however late its answers come.  A step is what a call does     *)
(* between two awaits.  Routes, headers, payloads and logging are left out; *)
(* seconds are natural numbers, and the clock stops at MaxTime.             *)
(***************************************************************************)
EXTENDS Integers, FiniteSets

CONSTANTS Callers,
          NumHosts,       \* hosts of connection_str, numbered from 0
          Thresholds,     \* circuit_breaker_open_failures, 0 disables it
          ResetSeconds,   \* circuit_breaker_failure_reset_seconds
          OpenSeconds,    \* circuit_breaker_open_seconds
          Retries,
          Strategies,     \* possible values of auth_strategy
          Renew,          \* seconds after which a token is replaced
          Lifetime,       \* seconds for which a token is valid
          MaxTime         \* bound of the model: where the clock stops

\* The breaker of a host works as described only if failures are remembered
\* for longer than a host is kept out.
ASSUME ClientAssumption ==
    /\ NumHosts \in Nat \ {0} /\ Thresholds \subseteq Nat
    /\ ResetSeconds \in Nat /\ OpenSeconds \in Nat
    /\ OpenSeconds < ResetSeconds
    /\ Retries \in Nat /\ MaxTime \in Nat
    /\ Strategies \subseteq {"public_key", "forward_context", "unsecured"}
    /\ Renew \in Nat /\ Lifetime \in Nat /\ Renew < Lifetime

VARIABLES
    threshold, strategy, \* the configured ones
    client,          \* "new", "started", "closing" or "stopped"
    clock,
    token_expire,    \* when the token is to be replaced
    token,           \* when the token stops being valid
    host_index,      \* where the round robin goes on
    cb_failures, cb_reset_ttl, cb_open_ttl,   \* of each host
    call             \* of each caller

balancer == <<host_index, cb_failures, cb_reset_ttl, cb_open_ttl>>
settings == <<threshold, strategy>>
session == <<client, token_expire, token>>
vars == <<settings, clock, session, balancer, call>>

Hosts == 0..(NumHosts - 1)
Statuses == {"ok", "unauthorized", "other", "server", "io"}
NoCall == [pc |-> "idle", now |-> 0, retry |-> 0, host |-> 0, token |-> 0]

Init ==
    /\ threshold \in Thresholds /\ strategy \in Strategies
    /\ client = "new"
    /\ clock = 1
    /\ token_expire = 0 /\ token = 0
    /\ host_index = 0
    /\ cb_failures = [h \in Hosts |-> 0]
    /\ cb_reset_ttl = [h \in Hosts |-> 0]
    /\ cb_open_ttl = [h \in Hosts |-> 0]
    /\ call = [c \in Callers |-> NoCall]

Tick ==
    /\ clock < MaxTime
    /\ clock' = clock + 1
    /\ UNCHANGED <<settings, session, balancer, call>>

-----------------------------------------------------------------------------
(* The token of the client and the life of its session                      *)

\* Mutant: the time to replace the token is the end of its life.
EnsureTokenLate ==
    IF clock >= token_expire
    THEN token' = clock + Lifetime /\ token_expire' = clock + Lifetime
    ELSE UNCHANGED <<token, token_expire>>

EnsureToken ==
    IF clock >= token_expire
    THEN token' = clock + Lifetime /\ token_expire' = clock + Renew
    ELSE UNCHANGED <<token, token_expire>>

\* Only a client that signs with the key of its application has a token; the
\* others forward the credentials of the request they serve, or send none.
Authorize ==
    IF strategy = "public_key" THEN EnsureToken ELSE UNCHANGED <<token, token_expire>>

\* A new load balancer, whose hosts are all taken to be well.
RegisterConnections ==
    /\ host_index' = 0
    /\ cb_failures' = [h \in Hosts |-> 0]
    /\ cb_reset_ttl' = [h \in Hosts |-> 0]
    /\ cb_open_ttl' = [h \in Hosts |-> 0]

CreateSession == client' = "started"

Start ==
    /\ client = "new"
    /\ RegisterConnections
    /\ CreateSession
    /\ Authorize
    /\ UNCHANGED <<settings, clock, call>>

\* stop closes the session, and forgets it and the token a second later,
\* whether closing failed or not.
Stop ==
    /\ client = "started"
    /\ client' = "closing"
    /\ UNCHANGED <<settings, clock, token_expire, token, balancer, call>>

Stopped ==
    /\ client = "closing"
    /\ client' = "stopped"
    /\ token' = 0 /\ token_expire' = 0
    /\ UNCHANGED <<settings, clock, balancer, call>>

-----------------------------------------------------------------------------
(* The load balancer                                                        *)

Ring(k) == (host_index + k) % NumHosts
Available(now) == {k \in Hosts : cb_open_ttl[Ring(k)] < now}

\* The round robin looks at every host once and stops at the first one whose
\* breaker lets it through.
Chosen(k, now) == k \in Available(now) /\ \A j \in Available(now) : k <= j

\* Mutant: the next call begins where this one began.
AdvanceNot(k) == host_index' = host_index

Advance(k) == host_index' = Ring(k + 1)

Success(h) ==
    /\ cb_open_ttl' = [cb_open_ttl EXCEPT ![h] = 0]
    /\ cb_failures' = [cb_failures EXCEPT ![h] = 0]
    /\ UNCHANGED cb_reset_ttl

Lesser(a, b) == IF a <= b THEN a ELSE b

\* Mutant: failures that are too old to count still leave the breaker open.
FailureOpensEarly(h, now) ==
    LET failures == IF now < cb_reset_ttl[h] THEN cb_failures[h] ELSE 0
        counted == Lesser(threshold, failures + 1)
    IN  /\ cb_failures' = [cb_failures EXCEPT ![h] = counted]
        /\ cb_reset_ttl' = [cb_reset_ttl EXCEPT ![h] = now + ResetSeconds]
        /\ cb_open_ttl' = IF cb_failures[h] + 1 >= threshold
                          THEN [cb_open_ttl EXCEPT ![h] = now + OpenSeconds]
                          ELSE cb_open_ttl

Failure(h, now) ==
    IF threshold = 0 THEN UNCHANGED <<cb_failures, cb_reset_ttl, cb_open_ttl>>
    ELSE LET failures == IF now < cb_reset_ttl[h] THEN cb_failures[h] ELSE 0
             counted == Lesser(threshold, failures + 1)
         IN  /\ cb_failures' = [cb_failures EXCEPT ![h] = counted]
             /\ cb_reset_ttl' = [cb_reset_ttl EXCEPT ![h] = now + ResetSeconds]
             /\ cb_open_ttl' =
                   IF counted >= threshold
                   THEN [cb_open_ttl EXCEPT ![h] = now + OpenSeconds]
                   ELSE cb_open_ttl

-----------------------------------------------------------------------------
(* Calls                                                                    *)

End(c) == call' = [call EXCEPT ![c] = NoCall]

\* One turn of the retry loop up to the request: no host is available, or the
\* request is sent, or there is no open session any more to send it with.
Attempt(c, now, retry, tok) ==
    /\ UNCHANGED <<cb_failures, cb_reset_ttl, cb_open_ttl>>
    /\ IF Available(now) = {}
       THEN /\ \E h \in Hosts : host_index' = h
            /\ End(c)
       ELSE \E k \in Hosts :
            /\ Chosen(k, now) /\ Advance(k)
            /\ IF client = "started"
               THEN call' = [call EXCEPT ![c] =
                       [pc |-> "request", now |-> now, retry |-> retry,
                        host |-> Ring(k), token |-> tok]]
               ELSE End(c)

\* The client is found by the name of its connection, from the start of the
\* application until its stop.
Registered == client \in {"started", "closing"}

Call(c) ==
    /\ call[c].pc = "idle"
    /\ Registered
    /\ Authorize
    /\ Attempt(c, clock, 0, token')
    /\ UNCHANGED <<settings, clock, client>>

\* What an answer, or none, means to the call: handled says that the caller
\* gave a type for responses of that status.
Outcome(status, handled) ==
    CASE status = "ok" \/ (handled /\ status # "io") -> "success"
      [] status \in {"server", "io"} /\ ~(handled /\ status = "server") -> "failure"
      [] OTHER -> "rejected"

Answer(c, status, handled) ==
    LET h == call[c].host
        outcome == Outcome(status, handled)
    IN
    /\ call[c].pc = "request"
    /\ CASE outcome = "success" -> Success(h) /\ End(c)
         [] outcome = "rejected" ->
               End(c) /\ UNCHANGED <<cb_failures, cb_reset_ttl, cb_open_ttl>>
         [] outcome = "failure" ->
               /\ Failure(h, call[c].now)
               /\ IF call[c].retry = Retries THEN End(c)
                  ELSE call' = [call EXCEPT ![c].pc = "backoff"]
    /\ UNCHANGED <<settings, clock, session, host_index>>

Retry(c) ==
    /\ call[c].pc = "backoff"
    /\ Attempt(c, call[c].now, call[c].retry + 1, call[c].token)
    /\ UNCHANGED <<settings, clock, session>>

\* The event that calls is cancelled while it waits.
Cancel(c) ==
    /\ call[c].pc # "idle"
    /\ End(c)
    /\ UNCHANGED <<settings, clock, session, balancer>>

Responds(c) == \E status \in Statuses, handled \in BOOLEAN :
                   Answer(c, status, handled)

Next ==
    \/ Tick \/ Start \/ Stop \/ Stopped
    \/ \E c \in Callers : Call(c) \/ Responds(c) \/ Retry(c) \/ Cancel(c)

\* The HTTP client gives every request a timeout, and sleeps end.
Fairness == \A c \in Callers : WF_vars(Responds(c)) /\ WF_vars(Retry(c))

Spec == Init /\ [][Next]_vars /\ Fairness

-----------------------------------------------------------------------------
(* Properties                                                               *)

\* Types, and no call retries more often than configured.
TypeOK ==
    /\ threshold \in Thresholds /\ strategy \in Strategies
    /\ client \in {"new", "started", "closing", "stopped"}
    /\ clock \in Nat /\ token_expire \in Nat /\ token \in Nat
    /\ host_index \in Hosts
    /\ cb_failures \in [Hosts -> Nat] /\ cb_reset_ttl \in [Hosts -> Nat]
    /\ cb_open_ttl \in [Hosts -> Nat]
    /\ call \in [Callers -> [pc : {"idle", "request", "backoff"}, now : Nat,
                             retry : 0..Retries, host : Hosts, token : Nat]]

\* A host is kept from the calls that begin now only while its last failures
\* are as many as the threshold, in whatever order concurrent calls with older
\* clocks report their successes and failures (CircuitBreakLoadBalancer.failure
\* and success).  A breaker that is disabled never opens.
OpenOnlyAtThreshold ==
    \A h \in Hosts :
        cb_open_ttl[h] >= clock => threshold > 0 /\ cb_failures[h] = threshold

\* A call sends its first request with a token that has at least
\* Lifetime - Renew seconds to go, whichever concurrent call renewed it
\* (AppsClient._ensure_token).  Nothing is said of retries: they repeat the
\* headers of the first request.
FirstTokenIsFresh ==
    \A c \in Callers :
        strategy = "public_key" /\ call[c].pc = "request" /\ call[c].retry = 0 =>
            call[c].token >= call[c].now + (Lifetime - Renew)

\* As long as calls keep coming, every host is asked or shut out again and
\* again: the turns of concurrent calls, retries and skipped hosts never make
\* the round robin leave one aside (CircuitBreakLoadBalancer.next_host).
EveryHostGetsItsTurn ==
    ([]<><<\E c \in Callers : Call(c) /\ client = "started">>_vars) =>
        \A h \in Hosts :
            []<>(\/ cb_open_ttl[h] >= clock
                 \/ \E c \in Callers : call[c].pc = "request" /\ call[c].host = h)
=============================================================================
