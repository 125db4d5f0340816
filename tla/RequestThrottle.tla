--------------------------- MODULE RequestThrottle ---------------------------
(***************************************************************************)
(* The throttle that all requests of one source share (sources/mod.rs): a  *)
(* least interval between requests, and a backoff that doubles with every  *)
(* failure and that any good answer lifts.  Callers sleep without a lock   *)
(* and look again when they wake.                                          *)
(***************************************************************************)
EXTENDS Integers

CONSTANTS
    Callers,            \* tasks of the source
    MinInterval,        \* min_request_interval
    BackoffInitial,
    BackoffMax,         \* backoff_max, as configured
    LastMoment          \* bound on the clock

ASSUME ThrottleAssumption ==
    /\ MinInterval \in Nat /\ BackoffInitial \in Nat /\ BackoffMax \in Nat
    /\ LastMoment \in Nat

Never == -1

VARIABLES
    moment,             \* the clock
    next_request_at,
    backoff_until,      \* Never: None
    failures,           \* consecutive_failures
    callers,            \* callers[c]: "idle", "waiting" or "sent", and until when
    last_sent,          \* history: when a request was last sent, or Never
    last_failure        \* history: the last failure and its delay, while it counts

throttleState == <<next_request_at, backoff_until, failures>>
throttleVars == <<moment, throttleState, callers, last_sent, last_failure>>

Later(a, b) == IF a >= b THEN a ELSE b
Sooner(a, b) == IF a <= b THEN a ELSE b

\* 1u32 << n, for n from 0 to 8.
Multiplier == <<1, 2, 4, 8, 16, 32, 64, 128, 256>>

\* The delay after so many failures before this one.
BackoffDelay(count) ==
    Sooner(BackoffInitial * Multiplier[Sooner(count, 8) + 1], Later(BackoffMax, BackoffInitial))

NoFailure == [at |-> Never, delay |-> 0]

ThrottleInit ==
    /\ moment = 0
    /\ next_request_at = 0 /\ backoff_until = Never /\ failures = 0
    /\ callers = [c \in Callers |-> [pc |-> "idle", until |-> 0]]
    /\ last_sent = Never /\ last_failure = NoFailure

ThrottleTick ==
    /\ moment < LastMoment
    /\ moment' = moment + 1
    /\ UNCHANGED <<throttleState, callers, last_sent, last_failure>>

ReadyAt ==
    IF backoff_until = Never THEN next_request_at ELSE Later(backoff_until, next_request_at)

\* Callers that may look at the throttle: new ones, and those whose sleep is
\* over (and maybe long over).
MayLook(c) ==
    \/ callers[c].pc = "idle"
    \/ callers[c].pc = "waiting" /\ callers[c].until <= moment

\* wait_turn: send, or sleep and look again.
\* Mutant: a caller that has slept is sent without another look.
SendAfterSleep(c) ==
    /\ MayLook(c)
    /\ IF ReadyAt <= moment \/ callers[c].pc = "waiting"
       THEN /\ next_request_at' = moment + MinInterval
            /\ callers' = [callers EXCEPT ![c].pc = "sent"]
            /\ last_sent' = moment
       ELSE /\ callers' = [callers EXCEPT ![c] = [pc |-> "waiting", until |-> ReadyAt]]
            /\ UNCHANGED <<next_request_at, last_sent>>
    /\ UNCHANGED <<moment, backoff_until, failures, last_failure>>

WaitTurn(c) ==
    /\ MayLook(c)
    /\ IF ReadyAt <= moment
       THEN /\ next_request_at' = moment + MinInterval
            /\ callers' = [callers EXCEPT ![c].pc = "sent"]
            /\ last_sent' = moment
       ELSE /\ callers' = [callers EXCEPT ![c] = [pc |-> "waiting", until |-> ReadyAt]]
            /\ UNCHANGED <<next_request_at, last_sent>>
    /\ UNCHANGED <<moment, backoff_until, failures, last_failure>>

\* A shutdown ends the sleep, and the request is never made.
GiveUp(c) ==
    /\ callers[c].pc = "waiting"
    /\ callers' = [callers EXCEPT ![c] = [pc |-> "idle", until |-> 0]]
    /\ UNCHANGED <<moment, throttleState, last_sent, last_failure>>

\* note_response of a status that asks for no backoff: reset_failures, even if
\* another request failed after this one was sent.
NoteSuccess(c) ==
    /\ callers[c].pc = "sent"
    /\ callers' = [callers EXCEPT ![c] = [pc |-> "idle", until |-> 0]]
    /\ failures' = 0 /\ backoff_until' = Never
    /\ last_failure' = NoFailure
    /\ UNCHANGED <<moment, next_request_at, last_sent>>

\* 408, 429, a 5xx or no answer at all.
NoteFailure(c) ==
    /\ callers[c].pc = "sent"
    /\ callers' = [callers EXCEPT ![c] = [pc |-> "idle", until |-> 0]]
    /\ backoff_until' = moment + BackoffDelay(failures)
    /\ failures' = failures + 1
    /\ last_failure' = [at |-> moment, delay |-> BackoffDelay(failures)]
    /\ UNCHANGED <<moment, next_request_at, last_sent>>

ThrottleNext ==
    \/ ThrottleTick
    \/ \E c \in Callers : WaitTurn(c) \/ GiveUp(c) \/ NoteSuccess(c) \/ NoteFailure(c)

ThrottleSpec == ThrottleInit /\ [][ThrottleNext]_throttleVars

-----------------------------------------------------------------------------

ThrottleTypeOK ==
    /\ moment \in 0..LastMoment
    /\ next_request_at \in Nat /\ failures \in Nat
    /\ backoff_until \in {Never} \cup Nat
    /\ callers \in [Callers -> [pc : {"idle", "waiting", "sent"}, until : Nat]]

\* Whoever slept and for however long: two requests are the interval apart, and
\* after a failure none is sent before its delay is over, unless some request
\* has since been answered well.
RequestsSpaced ==
    [][\A c \in Callers : callers[c].pc # "sent" /\ callers'[c].pc = "sent" =>
          /\ last_sent = Never \/ moment - last_sent >= MinInterval
          /\ last_failure.at = Never \/ moment - last_failure.at >= last_failure.delay
      ]_throttleVars

=============================================================================
