--------------------------- MODULE RequestTimeouts ---------------------------
(***************************************************************************)
(* How long one request may wait for other services, and how long the HTTP *)
(* server lets it: the timeouts read at startup, their defaults, and the   *)
(* check that refuses to start a server whose write timeout is too short.  *)
(* Durations saturate at the largest one an integer holds.                 *)
(***************************************************************************)
EXTENDS Integers

CONSTANTS
    Second,            \* time.Second
    MaxDuration,       \* the largest time.Duration
    DefaultProvider,   \* DefaultProviderHTTPTimeoutSeconds
    DefaultWrite,      \* DefaultServerWriteTimeout, in seconds
    DefaultPermission, \* DefaultIdentityPermissionTimeoutMs, as a duration
    AcademicTimeout    \* academic.RequestTimeout

ASSUME TimeoutsAssumption ==
    /\ {Second, DefaultProvider, DefaultWrite, DefaultPermission} \subseteq Nat \ {0}
    /\ AcademicTimeout \in Nat
    /\ MaxDuration \in Nat
    /\ AcademicTimeout <= MaxDuration

\* What the environment may set: seconds for the providers and the server, a
\* duration for the permission check.
Settings == [duitku : Int, resend : Int, permission : Int, write : Int]

MaxSeconds == MaxDuration \div Second

\* An unset, zero or negative value becomes the default.
Positive(value, fallback) == IF value <= 0 THEN fallback ELSE value

LoadConfig(e) ==
    [duitku     |-> Positive(e.duitku, DefaultProvider),
     resend     |-> Positive(e.resend, DefaultProvider),
     permission |-> Positive(e.permission, DefaultPermission),
     write      |-> Positive(e.write, DefaultWrite)]

SecondsDuration(n) == IF n > MaxSeconds THEN MaxDuration ELSE n * Second

\* Mutant: a sum too large for a duration turns negative.
WrappingAdd(a, b) == IF a + b > MaxDuration THEN a + b - 2 * (MaxDuration + 1) ELSE a + b

SaturatingAdd(a, b) == IF a > MaxDuration - b THEN MaxDuration ELSE a + b

\* The callback waits for Duitku, the mail provider and Academic in turn.
WebhookWait(c) ==
    SaturatingAdd(SaturatingAdd(SecondsDuration(c.duitku), SecondsDuration(c.resend)),
                  AcademicTimeout)

LongestWait(c) ==
    IF c.permission > WebhookWait(c) THEN c.permission ELSE WebhookWait(c)

\* The process starts.
Accepted(c) ==
    /\ c.write <= MaxSeconds
    /\ c.write * Second > LongestWait(c)

\* What the client of a service gives up after.
Timeout(c, service) ==
    CASE service = "duitku"   -> c.duitku * Second
      [] service = "resend"   -> c.resend * Second
      [] service = "academic" -> AcademicTimeout
      [] service = "identity" -> c.permission

=============================================================================
