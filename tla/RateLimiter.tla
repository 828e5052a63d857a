----------------------------- MODULE RateLimiter -----------------------------
(***************************************************************************)
(* The in-memory limiter of middleware/ratelimit.go: a counter per IP over *)
(* a window that opens with the first request and closes a fixed time      *)
(* later.  allow and one round of cleanup run under the mutex: one step    *)
(* each.  One instance is the login limiter, another the limiter of public *)
(* writes, another that of analytics events.                               *)
(***************************************************************************)
EXTENDS Naturals, Sequences

CONSTANTS
  Ip,
  Limit, Window,  \* newRateLimiter(limit, window)
  MaxTime         \* bound: the clock stops there

ASSUME LimiterAssumption ==
  Limit \in Nat \ {0} /\ Window \in Nat /\ MaxTime \in Nat

VARIABLES
  now,      \* time.Now()
  entries,  \* rl.entries: what is counted for an IP, or nothing
  log,      \* history: the times at which requests of an IP were admitted
  first,    \* history: the index in log of the last window's first request
  refused   \* history: when the IP was last refused and told to come back

vars == <<now, entries, log, first, refused>>

NoEntry == [count |-> 0, windowEnd |-> 0]
Entry(n, end) == [count |-> n, windowEnd |-> end]
Never == MaxTime + 1

Init ==
  /\ now = 0
  /\ entries = [ip \in Ip |-> NoEntry]
  /\ log = [ip \in Ip |-> <<>>]
  /\ first = [ip \in Ip |-> 0]
  /\ refused = [ip \in Ip |-> Never]

(* !ok || now.After(e.windowEnd)                                           *)
Expired(ip) == entries[ip] = NoEntry \/ now > entries[ip].windowEnd

Admit(ip) == log' = [log EXCEPT ![ip] = Append(@, now)]

(* Mutant: a limiter whose window is longer than its Retry-After.          *)
OpenWindowLonger(ip) ==
  /\ Expired(ip)
  /\ entries' = [entries EXCEPT ![ip] = Entry(1, now + Window + 1)]
  /\ Admit(ip)
  /\ first' = [first EXCEPT ![ip] = Len(log[ip]) + 1]
  /\ UNCHANGED <<now, refused>>

OpenWindow(ip) ==
  /\ Expired(ip)
  /\ entries' = [entries EXCEPT ![ip] = Entry(1, now + Window)]
  /\ Admit(ip)
  /\ first' = [first EXCEPT ![ip] = Len(log[ip]) + 1]
  /\ UNCHANGED <<now, refused>>

CountUp(ip) ==
  /\ ~ Expired(ip) /\ entries[ip].count < Limit
  /\ entries' = [entries EXCEPT ![ip] = Entry(entries[ip].count + 1, entries[ip].windowEnd)]
  /\ Admit(ip)
  /\ UNCHANGED <<now, first, refused>>

(* Mutant: a refusal at the request that reaches the limit.                *)
RefuseEarly(ip) ==
  /\ ~ Expired(ip) /\ entries[ip].count + 1 >= Limit
  /\ refused' = [refused EXCEPT ![ip] = now]
  /\ UNCHANGED <<now, entries, log, first>>

(* 429, with a Retry-After of one window.                                  *)
Refuse(ip) ==
  /\ ~ Expired(ip) /\ entries[ip].count >= Limit
  /\ refused' = [refused EXCEPT ![ip] = now]
  /\ UNCHANGED <<now, entries, log, first>>

(* Mutant: cleanup does not look at windowEnd.                             *)
CleanupAll ==
  /\ entries' = [ip \in Ip |-> NoEntry]
  /\ UNCHANGED <<now, log, first, refused>>

(* A round of cleanup comes every five minutes, whatever the window is.    *)
Cleanup ==
  /\ entries' = [ip \in Ip |-> IF Expired(ip) THEN NoEntry ELSE entries[ip]]
  /\ UNCHANGED <<now, log, first, refused>>

Tick == now < MaxTime /\ now' = now + 1 /\ UNCHANGED <<entries, log, first, refused>>

Next == \/ \E ip \in Ip : OpenWindow(ip) \/ CountUp(ip) \/ Refuse(ip)
        \/ Cleanup
        \/ Tick

Spec == Init /\ [][Next]_vars

-----------------------------------------------------------------------------
TypeOK ==
  /\ now \in 0..MaxTime
  /\ entries \in [Ip -> [count : 0..Limit, windowEnd : Nat]]
  /\ log \in [Ip -> Seq(0..MaxTime)]
  /\ first \in [Ip -> Nat]
  /\ refused \in [Ip -> 0..Never]

(* Whatever the requests and the cleanups, an IP gets less than twice the  *)
(* limit in any stretch as long as the window, wherever it begins.         *)
LessThanTwice ==
  \A ip \in Ip : \A i, j \in 1..Len(log[ip]) :
    j >= i + Limit + Limit - 1 => log[ip][j] > log[ip][i] + Window

(* An IP that waits out the Retry-After of a refusal is not refused for    *)
(* what it did before: the window it meets, if any, is a new one.          *)
RetryAfterSuffices ==
  \A ip \in Ip :
    now > refused[ip] + Window /\ ~ Expired(ip) =>
      log[ip][first[ip]] > refused[ip]

(* An IP is refused only after a full limit of its own requests within the *)
(* last window, whatever the other IPs do.                                 *)
RefusedOnlyWhenFull ==
  [][\A ip \in Ip : refused'[ip] # refused[ip] =>
       /\ Len(log[ip]) >= Limit
       /\ log[ip][Len(log[ip]) - Limit + 1] + Window >= now]_vars

-----------------------------------------------------------------------------
(* The inductive invariant: an entry counts the requests since its window  *)
(* opened, and windows do not overlap.                                     *)
Ordered(ip) ==
  \A i, j \in 1..Len(log[ip]) :
    log[ip][i] <= now /\ (i <= j => log[ip][i] <= log[ip][j])
Counted(ip) ==
  /\ first[ip] <= Len(log[ip]) /\ Len(log[ip]) < first[ip] + Limit
  /\ first[ip] = 0 => Len(log[ip]) = 0 /\ entries[ip] = NoEntry
  /\ first[ip] > 0 =>
       IF entries[ip] = NoEntry
       THEN now > log[ip][first[ip]] + Window
       ELSE /\ entries[ip].windowEnd = log[ip][first[ip]] + Window
            /\ entries[ip].count = Len(log[ip]) - first[ip] + 1
Disjoint(ip) ==
  first[ip] > 1 =>
    \E p \in 1..(first[ip] - 1) :
      p + Limit >= first[ip] /\ log[ip][first[ip]] > log[ip][p] + Window
LimiterInv == /\ TypeOK /\ LessThanTwice
              /\ \A ip \in Ip : Ordered(ip) /\ Counted(ip) /\ Disjoint(ip)
=============================================================================
