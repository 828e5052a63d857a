-------------------------- MODULE RateLimiterProofs --------------------------
(***************************************************************************)
(* Proofs about the limiter, for every limit, window and set of IPs.  The  *)
(* last window of an IP is log[first..]; it holds at most Limit requests,  *)
(* and the one before it had at most Limit more, the last of them over a   *)
(* window before it began (Disjoint).                                      *)
(***************************************************************************)
EXTENDS RateLimiter, TLAPS

USE LimiterAssumption

Times(ip) == Ordered(ip) /\ Counted(ip) /\ Disjoint(ip)

LEMMA AdmitEffect ==
  ASSUME TypeOK, NEW ip \in Ip, Admit(ip)
  PROVE  /\ log' \in [Ip -> Seq(0..MaxTime)]
         /\ Len(log[ip]) \in Nat
         /\ Len(log'[ip]) = Len(log[ip]) + 1
         /\ \A i \in 1..Len(log[ip]) : log'[ip][i] = log[ip][i]
         /\ log'[ip][Len(log[ip]) + 1] = now
         /\ \A k \in Ip \ {ip} : log'[k] = log[k]
<1>1. log[ip] \in Seq(0..MaxTime) /\ now \in 0..MaxTime
  BY DEF TypeOK
<1>2. log'[ip] = Append(log[ip], now)
  BY DEF TypeOK, Admit
<1>3. \A k \in Ip \ {ip} : log'[k] = log[k]
  BY DEF TypeOK, Admit
<1>4. Append(log[ip], now) \in Seq(0..MaxTime)
  BY <1>1
<1>5. log' \in [Ip -> Seq(0..MaxTime)]
  BY <1>4 DEF TypeOK, Admit
<1> QED
  BY <1>1, <1>2, <1>3, <1>5

(* A log entry is a time. *)
LEMMA LogTimes ==
  ASSUME TypeOK, NEW ip \in Ip
  PROVE  /\ Len(log[ip]) \in Nat
         /\ \A i \in 1..Len(log[ip]) : log[ip][i] \in 0..MaxTime
  BY DEF TypeOK

LEMMA InitInv == Init => LimiterInv
<1> SUFFICES ASSUME Init PROVE LimiterInv
  OBVIOUS
<1>1. \A ip \in Ip : log[ip] = <<>> /\ Len(log[ip]) = 0 /\ first[ip] = 0 /\ entries[ip] = NoEntry
  BY DEF Init
<1>2. log \in [Ip -> Seq(0..MaxTime)]
  BY DEF Init
<1>3. NoEntry \in [count : 0..Limit, windowEnd : Nat]
  BY DEF NoEntry
<1>4. TypeOK
  BY <1>2, <1>3 DEF Init, TypeOK, Never
<1>5. LessThanTwice
  BY <1>1 DEF LessThanTwice
<1>6. ASSUME NEW ip \in Ip PROVE Ordered(ip) /\ Counted(ip) /\ Disjoint(ip)
  BY <1>1 DEF Ordered, Counted, Disjoint
<1> QED
  BY <1>4, <1>5, <1>6 DEF LimiterInv

(* What an IP's conjuncts say is unchanged by the steps of another IP. *)
LEMMA Frame ==
  ASSUME NEW ip \in Ip, Times(ip), UNCHANGED now,
         log'[ip] = log[ip], first'[ip] = first[ip], entries'[ip] = entries[ip]
  PROVE  Times(ip)'
  BY DEF Times, Ordered, Counted, Disjoint

(* The invariant after a request of one IP, from what the step does to it. *)
LEMMA Assemble ==
  ASSUME TypeOK', LessThanTwice, \A k \in Ip : Times(k), now' = now,
         NEW ip \in Ip, NEW n \in Nat, Len(log'[ip]) = n + 1,
         \A k \in Ip \ {ip} : log'[k] = log[k],
         \A k \in Ip \ {ip} : first'[k] = first[k],
         \A k \in Ip \ {ip} : entries'[k] = entries[k],
         Ordered(ip)', Counted(ip)', Disjoint(ip)',
         \A i, j \in 1..(n + 1) : j >= i + Limit + Limit - 1 =>
           log'[ip][j] > log'[ip][i] + Window
  PROVE  LimiterInv'
<1>1. LessThanTwice'
  <2> SUFFICES ASSUME NEW k \in Ip
               PROVE  \A i, j \in 1..Len(log'[k]) : j >= i + Limit + Limit - 1 =>
                        log'[k][j] > log'[k][i] + Window
    BY DEF LessThanTwice
  <2>1. CASE k = ip
    BY <2>1
  <2>2. CASE k # ip
    <3>1. log'[k] = log[k]
      BY <2>2
    <3> QED
      BY <3>1 DEF LessThanTwice
  <2> QED
    BY <2>1, <2>2
<1>2. ASSUME NEW k \in Ip PROVE Ordered(k)' /\ Counted(k)' /\ Disjoint(k)'
  <2>1. CASE k = ip
    BY <2>1
  <2>2. CASE k # ip
    BY <2>2, Frame DEF Times
  <2> QED
    BY <2>1, <2>2
<1> QED
  BY <1>1, <1>2 DEF LimiterInv

LEMMA OpenWindowInv ==
  ASSUME LimiterInv, NEW ip \in Ip, OpenWindow(ip)
  PROVE  LimiterInv'
<1>type. TypeOK
  BY DEF LimiterInv
<1>twice. LessThanTwice
  BY DEF LimiterInv
<1>times. \A k \in Ip : Times(k)
  BY DEF LimiterInv, Times
<1>step. /\ Admit(ip) /\ now' = now /\ refused' = refused
         /\ entries' = [entries EXCEPT ![ip] = Entry(1, now + Window)]
         /\ first' = [first EXCEPT ![ip] = Len(log[ip]) + 1]
  BY DEF OpenWindow
<1>1. PICK n \in Nat : n = Len(log[ip])
  BY <1>type, LogTimes
<1>len. Len(log'[ip]) = n + 1
  BY <1>1, <1>type, <1>step, AdmitEffect
<1>old. \A i \in 1..n : log'[ip][i] = log[ip][i]
  BY <1>1, <1>type, <1>step, AdmitEffect
<1>new. log'[ip][n + 1] = now
  BY <1>1, <1>type, <1>step, AdmitEffect
<1>others. /\ \A k \in Ip \ {ip} : log'[k] = log[k]
           /\ \A k \in Ip \ {ip} : first'[k] = first[k]
           /\ \A k \in Ip \ {ip} : entries'[k] = entries[k]
  BY <1>type, <1>step, AdmitEffect DEF TypeOK
<1>first. first'[ip] = n + 1
  BY <1>1, <1>type, <1>step DEF TypeOK
<1>entry. entries'[ip] = Entry(1, now + Window)
  BY <1>type, <1>step DEF TypeOK
<1>now. now \in Nat /\ now' = now
  BY <1>type, <1>step DEF TypeOK
<1>past. \A i \in 1..n : log[ip][i] \in Nat /\ log[ip][i] <= now
  <2>1. Ordered(ip)
    BY <1>times DEF Times
  <2>2. \A i \in 1..n : log[ip][i] <= now
    BY <1>1, <2>1 DEF Ordered
  <2>3. \A i \in 1..n : log[ip][i] \in 0..MaxTime
    BY <1>1, <1>type, LogTimes
  <2> QED
    BY <2>2, <2>3
<1>order. \A i, j \in 1..n : i <= j => log[ip][i] <= log[ip][j]
  BY <1>1, <1>times DEF Times, Ordered
<1>2. TypeOK'
  <2>1. Entry(1, now + Window) \in [count : 0..Limit, windowEnd : Nat]
    BY <1>now DEF Entry
  <2>2. entries' \in [Ip -> [count : 0..Limit, windowEnd : Nat]]
    BY <1>type, <1>step, <2>1 DEF TypeOK
  <2>3. first' \in [Ip -> Nat]
    <3>1. n + 1 \in Nat
      OBVIOUS
    <3> QED
      BY <1>1, <1>type, <1>step, <3>1 DEF TypeOK
  <2>4. log' \in [Ip -> Seq(0..MaxTime)]
    BY <1>type, <1>step, AdmitEffect
  <2>5. now' \in 0..MaxTime /\ refused' \in [Ip -> 0..Never]
    BY <1>type, <1>step DEF TypeOK
  <2> QED
    BY <2>2, <2>3, <2>4, <2>5 DEF TypeOK, Never
<1>3. Ordered(ip)'
  <2> SUFFICES ASSUME NEW i \in 1..(n + 1), NEW j \in 1..(n + 1)
               PROVE  log'[ip][i] <= now /\ (i <= j => log'[ip][i] <= log'[ip][j])
    BY <1>len, <1>now DEF Ordered
  <2>1. \A k \in 1..(n + 1) : k \in 1..n \/ k = n + 1
    OBVIOUS
  <2>2. log'[ip][i] <= now
    BY <1>old, <1>new, <1>now, <1>past, <2>1
  <2>3. CASE i \in 1..n /\ j \in 1..n
    BY <1>old, <1>order, <2>2, <2>3
  <2>4. CASE j = n + 1
    BY <1>new, <2>2, <2>4
  <2>5. CASE i = n + 1 /\ j \in 1..n
    BY <2>2, <2>5
  <2> QED
    BY <2>1, <2>3, <2>4, <2>5
<1>4. Counted(ip)'
  <2>1. entries'[ip] # NoEntry'
    BY <1>entry DEF Entry, NoEntry
  <2>2. entries'[ip].count = 1 /\ entries'[ip].windowEnd = now + Window
    BY <1>entry DEF Entry
  <2>3. 1 = n + 1 - (n + 1) + 1 /\ n + 1 > 0 /\ n + 1 < n + 1 + Limit
    OBVIOUS
  <2>4. log'[ip][first'[ip]] = now
    BY <1>first, <1>new
  <2> QED
    BY <1>len, <1>first, <2>1, <2>2, <2>3, <2>4 DEF Counted
(* Every request of the last window but one is over a window old.          *)
<1>5. ASSUME n > 0
      PROVE  /\ \E p \in 1..n : p + Limit >= n + 1 /\ now > log[ip][p] + Window
             /\ \A i \in 1..n : i + Limit <= n + 1 => now > log[ip][i] + Window
  <2>1. Counted(ip)
    BY <1>times DEF Times
  <2>2. PICK m \in Nat : m = first[ip]
    BY <1>type DEF TypeOK
  <2>3. m \in 1..n /\ n < m + Limit
    BY <1>1, <1>5, <2>1, <2>2 DEF Counted
  <2>4. now > log[ip][m] + Window
    <3>1. m > 0 /\ Expired(ip)
      BY <2>3 DEF OpenWindow
    <3>2. CASE entries[ip] = NoEntry
      BY <2>1, <2>2, <3>1, <3>2 DEF Counted
    <3>3. CASE entries[ip] # NoEntry
      BY <2>1, <2>2, <3>1, <3>3 DEF Counted, Expired
    <3> QED
      BY <3>2, <3>3
  <2>5. ASSUME NEW i \in 1..n, i + Limit <= n + 1
        PROVE  now > log[ip][i] + Window
    <3>1. i <= m
      BY <2>3, <2>5
    <3>2. log[ip][i] <= log[ip][m]
      BY <1>order, <2>3, <3>1
    <3> QED
      BY <1>past, <1>now, <2>3, <2>4, <3>2
  <2>6. m + Limit >= n + 1
    BY <2>3
  <2> QED
    BY <2>3, <2>4, <2>5, <2>6
<1>6. Disjoint(ip)'
  <2> SUFFICES ASSUME n + 1 > 1
               PROVE  \E p \in 1..n : p + Limit >= n + 1
                                      /\ log'[ip][n + 1] > log'[ip][p] + Window
    BY <1>first DEF Disjoint
  <2>1. n > 0
    OBVIOUS
  <2>2. PICK p \in 1..n : p + Limit >= n + 1 /\ now > log[ip][p] + Window
    BY <1>5, <2>1
  <2>3. log'[ip][p] = log[ip][p]
    BY <1>old
  <2> QED
    BY <1>new, <2>2, <2>3
<1>7. ASSUME NEW i \in 1..(n + 1), NEW j \in 1..(n + 1), j >= i + Limit + Limit - 1
      PROVE  log'[ip][j] > log'[ip][i] + Window
  <2>1. i \in 1..n
    BY <1>7
  <2>2. CASE j \in 1..n
    <3>1. log[ip][j] > log[ip][i] + Window
      BY <1>1, <1>7, <1>twice, <2>1, <2>2 DEF LessThanTwice
    <3> QED
      BY <1>old, <2>1, <2>2, <3>1
  <2>3. CASE j = n + 1
    <3>1. i + Limit <= n + 1 /\ n > 0
      BY <1>7, <2>1, <2>3
    <3>2. now > log[ip][i] + Window
      BY <1>5, <2>1, <3>1
    <3> QED
      BY <1>old, <1>new, <2>1, <2>3, <3>2
  <2> QED
    BY <2>2, <2>3
<1> QED
  BY <1>type, <1>twice, <1>times, <1>len, <1>others, <1>now, <1>2, <1>3, <1>4, <1>6, <1>7, Assemble

LEMMA CountUpInv ==
  ASSUME LimiterInv, NEW ip \in Ip, CountUp(ip)
  PROVE  LimiterInv'
<1>type. TypeOK
  BY DEF LimiterInv
<1>twice. LessThanTwice
  BY DEF LimiterInv
<1>times. \A k \in Ip : Times(k)
  BY DEF LimiterInv, Times
<1>step. /\ Admit(ip) /\ now' = now /\ refused' = refused /\ first' = first
         /\ entries' = [entries EXCEPT ![ip] =
                          Entry(entries[ip].count + 1, entries[ip].windowEnd)]
  BY DEF CountUp
<1>1. PICK n \in Nat : n = Len(log[ip])
  BY <1>type, LogTimes
<1>2. PICK m \in Nat : m = first[ip]
  BY <1>type DEF TypeOK
<1>3. PICK c \in Nat, w \in Nat : c = entries[ip].count /\ w = entries[ip].windowEnd
  <2>1. entries[ip] \in [count : 0..Limit, windowEnd : Nat]
    BY <1>type DEF TypeOK
  <2>2. entries[ip].count \in Nat /\ entries[ip].windowEnd \in Nat
    BY <2>1
  <2> QED
    BY <2>2
<1>len. Len(log'[ip]) = n + 1
  BY <1>1, <1>type, <1>step, AdmitEffect
<1>old. \A i \in 1..n : log'[ip][i] = log[ip][i]
  BY <1>1, <1>type, <1>step, AdmitEffect
<1>new. log'[ip][n + 1] = now
  BY <1>1, <1>type, <1>step, AdmitEffect
<1>others. /\ \A k \in Ip \ {ip} : log'[k] = log[k]
           /\ \A k \in Ip \ {ip} : first'[k] = first[k]
           /\ \A k \in Ip \ {ip} : entries'[k] = entries[k]
  BY <1>type, <1>step, AdmitEffect DEF TypeOK
<1>first. first'[ip] = m
  BY <1>2, <1>step
<1>entry. entries'[ip] = Entry(c + 1, w)
  BY <1>3, <1>type, <1>step DEF TypeOK
<1>now. now \in Nat /\ now' = now
  BY <1>type, <1>step DEF TypeOK
<1>past. \A i \in 1..n : log[ip][i] \in Nat /\ log[ip][i] <= now
  <2>1. Ordered(ip)
    BY <1>times DEF Times
  <2>2. \A i \in 1..n : log[ip][i] <= now
    BY <1>1, <2>1 DEF Ordered
  <2>3. \A i \in 1..n : log[ip][i] \in 0..MaxTime
    BY <1>1, <1>type, LogTimes
  <2> QED
    BY <2>2, <2>3
<1>order. \A i, j \in 1..n : i <= j => log[ip][i] <= log[ip][j]
  BY <1>1, <1>times DEF Times, Ordered
(* The window that is open began at m and has counted n - m + 1 requests.  *)
<1>open. m \in 1..n /\ w = log[ip][m] + Window /\ c = n - m + 1 /\ c < Limit
  <2>1. Counted(ip)
    BY <1>times DEF Times
  <2>2. entries[ip] # NoEntry /\ c < Limit
    BY <1>3 DEF CountUp, Expired
  <2>3. m > 0 /\ m <= n
    BY <1>1, <1>2, <2>1, <2>2 DEF Counted
  <2>4. w = log[ip][m] + Window
    BY <1>2, <1>3, <2>1, <2>2, <2>3 DEF Counted
  <2>5. c = n - m + 1
    BY <1>1, <1>2, <1>3, <2>1, <2>2, <2>3 DEF Counted
  <2> QED
    BY <2>2, <2>3, <2>4, <2>5
<1>4. TypeOK'
  <2>1. Entry(c + 1, w) \in [count : 0..Limit, windowEnd : Nat]
    BY <1>open DEF Entry
  <2>2. entries' \in [Ip -> [count : 0..Limit, windowEnd : Nat]]
    BY <1>3, <1>type, <1>step, <2>1 DEF TypeOK
  <2>4. log' \in [Ip -> Seq(0..MaxTime)]
    BY <1>type, <1>step, AdmitEffect
  <2>5. now' \in 0..MaxTime /\ refused' \in [Ip -> 0..Never] /\ first' \in [Ip -> Nat]
    BY <1>type, <1>step DEF TypeOK
  <2> QED
    BY <2>2, <2>4, <2>5 DEF TypeOK, Never
<1>5. Ordered(ip)'
  <2> SUFFICES ASSUME NEW i \in 1..(n + 1), NEW j \in 1..(n + 1)
               PROVE  log'[ip][i] <= now /\ (i <= j => log'[ip][i] <= log'[ip][j])
    BY <1>len, <1>now DEF Ordered
  <2>1. \A k \in 1..(n + 1) : k \in 1..n \/ k = n + 1
    OBVIOUS
  <2>2. log'[ip][i] <= now
    BY <1>old, <1>new, <1>now, <1>past, <2>1
  <2>3. CASE i \in 1..n /\ j \in 1..n
    BY <1>old, <1>order, <2>2, <2>3
  <2>4. CASE j = n + 1
    BY <1>new, <2>2, <2>4
  <2>5. CASE i = n + 1 /\ j \in 1..n
    BY <2>2, <2>5
  <2> QED
    BY <2>1, <2>3, <2>4, <2>5
<1>6. Counted(ip)'
  <2>1. entries'[ip] # NoEntry'
    BY <1>entry DEF Entry, NoEntry
  <2>2. entries'[ip].count = c + 1 /\ entries'[ip].windowEnd = w
    BY <1>entry DEF Entry
  <2>3. c + 1 = n + 1 - m + 1 /\ m > 0 /\ m <= n + 1 /\ n + 1 < m + Limit
    BY <1>open
  <2>4. log'[ip][m] = log[ip][m]
    BY <1>old, <1>open
  <2> QED
    BY <1>len, <1>first, <1>open, <2>1, <2>2, <2>3, <2>4 DEF Counted
<1>7. ASSUME m > 1
      PROVE  \E p \in 1..(m - 1) : p + Limit >= m /\ log[ip][m] > log[ip][p] + Window
  BY <1>2, <1>7, <1>times DEF Times, Disjoint
<1>8. Disjoint(ip)'
  <2> SUFFICES ASSUME m > 1
               PROVE  \E p \in 1..(m - 1) : p + Limit >= m
                                            /\ log'[ip][m] > log'[ip][p] + Window
    BY <1>first DEF Disjoint
  <2>1. PICK p \in 1..(m - 1) : p + Limit >= m /\ log[ip][m] > log[ip][p] + Window
    BY <1>7
  <2>2. p \in 1..n
    BY <1>open
  <2> QED
    BY <1>old, <1>open, <2>1, <2>2
<1>9. ASSUME NEW i \in 1..(n + 1), NEW j \in 1..(n + 1), j >= i + Limit + Limit - 1
      PROVE  log'[ip][j] > log'[ip][i] + Window
  <2>1. i \in 1..n
    BY <1>9
  <2>2. CASE j \in 1..n
    <3>1. log[ip][j] > log[ip][i] + Window
      BY <1>1, <1>9, <1>twice, <2>1, <2>2 DEF LessThanTwice
    <3> QED
      BY <1>old, <2>1, <2>2, <3>1
  <2>3. CASE j = n + 1
    <3>1. m > 1 /\ i + Limit <= m
      BY <1>9, <1>open, <2>1, <2>3
    <3>2. PICK p \in 1..(m - 1) : p + Limit >= m /\ log[ip][m] > log[ip][p] + Window
      BY <1>7, <3>1
    <3>3. i <= p /\ p \in 1..n
      BY <1>open, <3>1, <3>2
    <3>4. log[ip][i] <= log[ip][p]
      BY <1>order, <2>1, <3>3
    <3>5. now > log[ip][i] + Window
      BY <1>past, <1>now, <1>open, <2>1, <3>2, <3>3, <3>4
    <3> QED
      BY <1>old, <1>new, <2>1, <2>3, <3>5
  <2> QED
    BY <2>2, <2>3
<1> QED
  BY <1>type, <1>twice, <1>times, <1>len, <1>others, <1>now, <1>4, <1>5, <1>6, <1>8, <1>9, Assemble

(* A refusal, a round of cleanup and the clock leave the logs alone.       *)
LEMMA QuietInv ==
  ASSUME LimiterInv,
         \/ \E ip \in Ip : Refuse(ip)
         \/ Cleanup
         \/ Tick
         \/ UNCHANGED vars
  PROVE  LimiterInv'
<1>1. TypeOK /\ LessThanTwice /\ \A k \in Ip : Times(k)
  BY DEF LimiterInv, Times
<1>2. log' = log /\ first' = first
  BY DEF Refuse, Cleanup, Tick, vars
<1>now. now \in Nat /\ now' \in 0..MaxTime /\ now' >= now
  <2>1. now \in 0..MaxTime
    BY <1>1 DEF TypeOK
  <2>2. now' = now \/ (now < MaxTime /\ now' = now + 1)
    BY DEF Refuse, Cleanup, Tick, vars
  <2> QED
    BY <2>1, <2>2
<1>refused. refused' \in [Ip -> 0..Never]
  <2>1. now \in 0..Never
    BY <1>1 DEF TypeOK, Never
  <2> QED
    BY <1>1, <2>1 DEF Refuse, Cleanup, Tick, vars, TypeOK
<1>3. \A k \in Ip : entries'[k] = entries[k] \/ (Expired(k) /\ entries'[k] = NoEntry)
  BY <1>1 DEF Refuse, Cleanup, Tick, vars, TypeOK
<1>4. entries' \in [Ip -> [count : 0..Limit, windowEnd : Nat]]
  <2>1. NoEntry \in [count : 0..Limit, windowEnd : Nat]
    BY DEF NoEntry
  <2>2. CASE Cleanup
    BY <1>1, <2>1, <2>2 DEF Cleanup, TypeOK
  <2>3. CASE ~ Cleanup
    BY <1>1, <2>3 DEF Refuse, Tick, vars, TypeOK
  <2> QED
    BY <2>2, <2>3
<1>5. TypeOK'
  BY <1>1, <1>2, <1>now, <1>refused, <1>4 DEF TypeOK, Never
<1>6. LessThanTwice'
  BY <1>1, <1>2 DEF LessThanTwice
<1>7. ASSUME NEW k \in Ip PROVE Times(k)'
  <2>1. Ordered(k) /\ Counted(k) /\ Disjoint(k)
    BY <1>1 DEF Times
  <2>2. log'[k] = log[k] /\ first'[k] = first[k]
    BY <1>2
  <2>3. PICK n \in Nat, m \in Nat : n = Len(log[k]) /\ m = first[k]
    BY <1>1, LogTimes DEF TypeOK
  <2>4. \A i \in 1..n : log[k][i] \in Nat
    BY <1>1, <2>3, LogTimes
  <2>5. Ordered(k)'
    <3> SUFFICES ASSUME NEW i \in 1..n, NEW j \in 1..n
                 PROVE  log[k][i] <= now' /\ (i <= j => log[k][i] <= log[k][j])
      BY <2>2, <2>3 DEF Ordered
    <3>1. log[k][i] <= now /\ (i <= j => log[k][i] <= log[k][j])
      BY <2>1, <2>3 DEF Ordered
    <3> QED
      BY <1>now, <2>4, <3>1
  <2>6. Disjoint(k)'
    BY <2>1, <2>2 DEF Disjoint
  <2>7. m <= n /\ n < m + Limit /\ (m = 0 => n = 0 /\ entries[k] = NoEntry)
    BY <2>1, <2>3 DEF Counted
  <2>8. CASE entries'[k] = entries[k]
    <3>1. m > 0 /\ entries[k] = NoEntry => now > log[k][m] + Window
      BY <2>1, <2>3 DEF Counted
    <3>2. m > 0 /\ entries[k] = NoEntry => now' > log[k][m] + Window
      BY <1>now, <2>3, <2>4, <2>7, <3>1
    <3>3. Len(log[k]) = n /\ first[k] = m
      BY <2>3
    <3>4. Len(log'[k]) = n /\ first'[k] = m /\ log'[k][m] = log[k][m]
      BY <2>2, <3>3
    <3>5. m > 0 /\ entries[k] # NoEntry =>
            /\ entries[k].windowEnd = log[k][m] + Window
            /\ entries[k].count = n - m + 1
      BY <2>1, <3>3 DEF Counted
    <3>6. Counted(k)'
      BY <2>7, <2>8, <3>2, <3>4, <3>5 DEF Counted, NoEntry
    <3> QED
      BY <2>5, <2>6, <3>6 DEF Times
  <2>9. CASE Expired(k) /\ entries'[k] = NoEntry
    <3>1. m > 0 => now > log[k][m] + Window
      BY <2>1, <2>3, <2>9 DEF Counted, Expired
    <3>2. m > 0 => now' > log[k][m] + Window
      BY <1>now, <2>3, <2>4, <2>7, <3>1
    <3>3. Len(log'[k]) = n /\ first'[k] = m /\ log'[k][m] = log[k][m]
      BY <2>2, <2>3
    <3>4. Counted(k)'
      BY <2>7, <2>9, <3>2, <3>3 DEF Counted, NoEntry
    <3> QED
      BY <2>5, <2>6, <3>4 DEF Times
  <2> QED
    BY <1>3, <2>8, <2>9
<1> QED
  BY <1>5, <1>6, <1>7 DEF LimiterInv, Times

(* Logs, windows and counters always agree.                                *)
THEOREM Invariant == Spec => []LimiterInv
<1>1. LimiterInv /\ [Next]_vars => LimiterInv'
  BY OpenWindowInv, CountUpInv, QuietInv DEF Next
<1> QED
  BY <1>1, InitInv, PTL DEF Spec

(* ratelimit.go, allow: two windows of one IP can share a stretch as long  *)
(* as one of them, and then admit up to 2 * Limit - 1 requests, no more.   *)
THEOREM Doubled == Spec => []LessThanTwice
<1>1. LimiterInv => LessThanTwice
  BY DEF LimiterInv
<1> QED
  BY <1>1, Invariant, PTL

(* ratelimit.go, the Retry-After of a 429 is long enough.                  *)
THEOREM ComeBack == Spec => []RetryAfterSuffices
<1>1. LimiterInv => RetryAfterSuffices
  <2> SUFFICES ASSUME LimiterInv, NEW ip \in Ip,
                      now > refused[ip] + Window, ~ Expired(ip)
               PROVE  log[ip][first[ip]] > refused[ip]
    BY DEF RetryAfterSuffices
  <2>1. TypeOK /\ Counted(ip)
    BY DEF LimiterInv
  <2>2. now \in Nat /\ refused[ip] \in Nat /\ first[ip] \in Nat /\ Len(log[ip]) \in Nat
    BY <2>1, LogTimes DEF TypeOK, Never
  <2>3. entries[ip] # NoEntry /\ ~ (now > entries[ip].windowEnd)
    BY DEF Expired
  <2>4. first[ip] \in 1..Len(log[ip]) /\ entries[ip].windowEnd = log[ip][first[ip]] + Window
    BY <2>1, <2>2, <2>3 DEF Counted
  <2>5. log[ip][first[ip]] \in Nat
    BY <2>1, <2>4, LogTimes
  <2> QED
    BY <2>2, <2>3, <2>4, <2>5
<1> QED
  BY <1>1, Invariant, PTL

(* ratelimit.go, allow: a refusal answers a full limit of the IP's own     *)
(* requests, all of them within the last window.                           *)
THEOREM Full == Spec => RefusedOnlyWhenFull
<1> DEFINE Justified ==
      \A ip \in Ip : refused'[ip] # refused[ip] =>
        /\ Len(log[ip]) >= Limit
        /\ log[ip][Len(log[ip]) - Limit + 1] + Window >= now
<1>1. LimiterInv /\ [Next]_vars => [Justified]_vars
  <2> SUFFICES ASSUME LimiterInv, Next, NEW ip \in Ip, refused'[ip] # refused[ip]
               PROVE  /\ Len(log[ip]) >= Limit
                      /\ log[ip][Len(log[ip]) - Limit + 1] + Window >= now
    BY DEF vars
  <2>1. TypeOK /\ Counted(ip) /\ Ordered(ip)
    BY DEF LimiterInv
  <2>2. Refuse(ip)
    <3>1. PICK k \in Ip : Refuse(k)
      BY DEF Next, OpenWindow, CountUp, Cleanup, Tick
    <3>2. k = ip
      BY <2>1, <3>1 DEF Refuse, TypeOK
    <3> QED
      BY <3>1, <3>2
  <2>3. /\ entries[ip] # NoEntry /\ ~ (now > entries[ip].windowEnd)
        /\ entries[ip].count >= Limit
    BY <2>2 DEF Refuse, Expired
  <2>4. PICK n \in Nat, f \in Nat, c \in Nat :
          n = Len(log[ip]) /\ f = first[ip] /\ c = entries[ip].count
    <3>1. entries[ip] \in [count : 0..Limit, windowEnd : Nat]
      BY <2>1 DEF TypeOK
    <3>2. entries[ip].count \in Nat
      BY <3>1
    <3> QED
      BY <2>1, <3>2, LogTimes DEF TypeOK
  <2>5. f \in 1..n /\ entries[ip].windowEnd = log[ip][f] + Window
    BY <2>1, <2>3, <2>4 DEF Counted
  <2>6. c = n - f + 1 /\ c >= Limit
    BY <2>1, <2>3, <2>4, <2>5 DEF Counted
  <2>full. n >= Limit
    BY <2>5, <2>6
  <2>7. PICK m \in Nat : m = n - Limit + 1 /\ m \in 1..n /\ f <= m
    BY <2>5, <2>6, <2>full
  <2>8. log[ip][f] <= log[ip][m]
    <3>1. \A i, j \in 1..n : i <= j => log[ip][i] <= log[ip][j]
      BY <2>1, <2>4 DEF Ordered
    <3>2. f \in 1..n /\ m \in 1..n /\ f <= m
      BY <2>5, <2>7
    <3> QED
      BY <3>1, <3>2
  <2>9. log[ip][m] \in Nat /\ log[ip][f] \in Nat /\ now \in Nat
    <3>1. \A i \in 1..n : log[ip][i] \in 0..MaxTime
      BY <2>1, <2>4, LogTimes
    <3>2. now \in 0..MaxTime
      BY <2>1 DEF TypeOK
    <3> QED
      BY <2>5, <2>7, <3>1, <3>2
  <2>10. log[ip][m] + Window >= now
    BY <2>3, <2>5, <2>8, <2>9
  <2> QED
    BY <2>4, <2>7, <2>full, <2>10
<1> QED
  BY <1>1, Invariant, PTL DEF Spec, RefusedOnlyWhenFull
=============================================================================
