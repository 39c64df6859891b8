---------------------------- MODULE LeaseProofs -----------------------------
(***************************************************************************)
(* How long a lease must be, for every configuration: the assumptions      *)
(* ProcessingLeaseSuffices and DispatchLeaseSuffices of the other proofs.  *)
(* And what retryDelay computes, for every interval, cap and attempt.      *)
(***************************************************************************)
EXTENDS Timing, SequenceTheorems, WellFoundedInduction, TLAPS

Configs == ProcessingConfigs \cup DispatchConfigs

(* The number of phases, and the longest time of each.                      *)
PhaseCount ==
    IF config.kind = "processing" THEN 2 * config.retries + 4 ELSE 2 * config.batch + 1

PhaseTime(p) ==
    IF p = 1 THEN config.claim
    ELSE IF config.kind = "dispatch"
    THEN IF p % 2 = 0 THEN config.publish ELSE config.store
    ELSE IF p > 2 * config.retries + 2 THEN config.store
    ELSE IF p % 2 = 0 THEN config.attempt
    ELSE config.backoff * ((p - 1) \div 2)

(* Twice the longest time of m attempts and k pauses, which grow by the     *)
(* backoff each.                                                            *)
TwiceAttempts(m, k) == 2 * m * config.attempt + config.backoff * k * (k + 1)

(* Twice the longest time from the clock reading to the begin of phase p,   *)
(* the first being the claim and the last of a worker its second store call. *)
TwiceBefore(p) ==
    2 * config.claim +
        IF config.kind = "dispatch"
        THEN 2 * ((p - 1) \div 2) * config.publish + 2 * ((p - 2) \div 2) * config.store
        ELSE IF p > 2 * config.retries + 3
        THEN TwiceAttempts(config.retries + 1, config.retries) + 2 * (p - 2 * config.retries - 3) * config.store
        ELSE TwiceAttempts((p - 1) \div 2, (p - 2) \div 2)

(* What a configuration holds.                                              *)
LEMMA ConfigTypes ==
    ASSUME config \in Configs
    PROVE  /\ config.kind \in {"processing", "dispatch"}
           /\ config.lease \in Nat /\ config.claim \in Nat /\ config.store \in Nat
           /\ config.kind = "processing" =>
                config.retries \in Nat /\ config.backoff \in Nat /\ config.attempt \in Nat
           /\ config.kind = "dispatch" => config.batch \in Nat \ {0} /\ config.publish \in Nat
BY LeaseTimingAssumption
   DEF Configs, ProcessingConfigs, DispatchConfigs, LeaseTimingAssumption

(* Phases in terms of its length and its longest times.                     *)
LEMMA PhaseValues ==
    ASSUME config \in Configs
    PROVE  /\ Len(Phases) = PhaseCount /\ PhaseCount \in Nat /\ PhaseCount >= 2
           /\ \A p \in 1 .. PhaseCount : Phases[p].max = PhaseTime(p) /\ PhaseTime(p) \in Nat
<1> DEFINE Span == [min : Nat, max : Nat]
           first == <<[min |-> 0, max |-> config.claim]>>
           n == IF config.kind = "processing" THEN 2 * config.retries + 3 ELSE 2 * config.batch
           span(i) == IF config.kind = "processing"
                      THEN IF i > 2 * config.retries + 1 THEN [min |-> 0, max |-> config.store]
                           ELSE IF i % 2 = 1 THEN [min |-> 0, max |-> config.attempt]
                           ELSE [min |-> config.backoff * (i \div 2),
                                 max |-> config.backoff * (i \div 2)]
                      ELSE [min |-> 0, max |-> IF i % 2 = 1 THEN config.publish ELSE config.store]
           rest == [i \in 1 .. n |-> span(i)]
<1>1. n \in Nat /\ n >= 1 /\ PhaseCount = n + 1
  BY ConfigTypes DEF PhaseCount
<1>2. \A i \in 1 .. n : span(i) \in Span /\ span(i).max = PhaseTime(i + 1)
  BY ConfigTypes, <1>1 DEF PhaseTime
<1>3. Phases = first \o rest
  BY ConfigTypes DEF Phases, RetryBackoff
<1> HIDE DEF n, span
<1>4. rest \in Seq(Span) /\ Len(rest) = n /\ \A i \in 1 .. n : rest[i] = span(i)
  BY <1>1, <1>2
<1>5. first \in Seq(Span) /\ Len(first) = 1 /\ first[1].max = config.claim
  BY ConfigTypes
<1> HIDE DEF rest, first
<1> HIDE DEF Span
<1>6. /\ Len(first \o rest) = Len(first) + Len(rest)
      /\ \A i \in 1 .. Len(first) + Len(rest) : (first \o rest)[i] =
            IF i <= Len(first) THEN first[i] ELSE rest[i - Len(first)]
  BY <1>4, <1>5, ConcatProperties
<1>7. /\ Len(Phases) = n + 1 /\ Phases[1] = first[1]
      /\ \A p \in 2 .. n + 1 : Phases[p] = rest[p - 1]
  BY <1>1, <1>3, <1>4, <1>5, <1>6
<1>8. \A p \in 2 .. n + 1 : Phases[p].max = PhaseTime(p) /\ PhaseTime(p) \in Nat
  <2> TAKE p \in 2 .. n + 1
  <2>1. p - 1 \in 1 .. n /\ (p - 1) + 1 = p
    BY <1>1
  <2>2. Phases[p] = span(p - 1) /\ span(p - 1) \in Span /\ span(p - 1).max = PhaseTime(p)
    BY <1>2, <1>4, <1>7, <2>1
  <2> QED
    BY <2>2 DEF Span
<1>9. Phases[1].max = PhaseTime(1) /\ PhaseTime(1) \in Nat
  BY <1>5, <1>7, ConfigTypes DEF PhaseTime
<1> QED
  BY <1>1, <1>7, <1>8, <1>9

(* More attempts and pauses take longer.                                    *)
LEMMA AttemptsGrow ==
    ASSUME config \in Configs, config.kind = "processing",
           NEW m \in Nat, NEW k \in Nat, NEW n \in Nat, m <= n + 1, k <= n
    PROVE  /\ TwiceAttempts(m, k) \in Nat /\ TwiceAttempts(n + 1, n) \in Nat
           /\ TwiceAttempts(m, k) <= TwiceAttempts(n + 1, n)
<1>1. ASSUME NEW x \in Nat, NEW y \in Nat
      PROVE  /\ 2 * m * x + y * k * (k + 1) \in Nat /\ 2 * (n + 1) * x + y * n * (n + 1) \in Nat
             /\ 2 * m * x + y * k * (k + 1) <= 2 * (n + 1) * x + y * n * (n + 1)
  <2> DEFINE u == m * x
             v == (n + 1) * x
             f == y * k * (k + 1)
             g == y * n * (n + 1)
  <2>1. u \in Nat /\ v \in Nat /\ u <= v
    OBVIOUS
  <2>2. f \in Nat /\ g \in Nat /\ f <= g
    <3>1. y * k <= y * n /\ y * k \in Nat /\ y * n \in Nat
      OBVIOUS
    <3>2. ASSUME NEW i \in Nat, NEW j \in Nat, i <= j PROVE i * (k + 1) <= j * (n + 1)
      BY <3>2
    <3> QED
      BY <3>1, <3>2
  <2>3. 2 * m * x = 2 * u /\ 2 * (n + 1) * x = 2 * v
    OBVIOUS
  <2> HIDE DEF u, v, f, g
  <2>4. 2 * u + f \in Nat /\ 2 * v + g \in Nat /\ 2 * u + f <= 2 * v + g
    BY <2>1, <2>2
  <2> QED
    BY <2>3, <2>4 DEF f, g
<1> QED
  BY <1>1, ConfigTypes DEF TwiceAttempts

(* One attempt more, and one pause more.                                    *)
LEMMA AttemptsStep ==
    ASSUME config \in Configs, config.kind = "processing", NEW k \in Nat
    PROVE  /\ TwiceAttempts(0, 0) = 0
           /\ TwiceAttempts(k, k) \in Nat /\ TwiceAttempts(k + 1, k) \in Nat
           /\ TwiceAttempts(k + 1, k) = TwiceAttempts(k, k) + 2 * config.attempt
           /\ TwiceAttempts(k + 1, k + 1)
                = TwiceAttempts(k + 1, k) + 2 * (config.backoff * (k + 1))
<1>1. config.attempt \in Nat /\ config.backoff \in Nat
  BY ConfigTypes
<1>2. ASSUME NEW x \in Nat, NEW y \in Nat
      PROVE  /\ 2 * 0 * x + y * 0 * (0 + 1) = 0
             /\ 2 * k * x + y * k * (k + 1) \in Nat
             /\ 2 * (k + 1) * x + y * k * (k + 1) \in Nat
  OBVIOUS
<1>3. ASSUME NEW x \in Nat, NEW y \in Nat
      PROVE  2 * (k + 1) * x + y * k * (k + 1) = 2 * k * x + y * k * (k + 1) + 2 * x
  OBVIOUS
<1>4. ASSUME NEW x \in Nat, NEW y \in Nat
      PROVE  2 * (k + 1) * x + y * (k + 1) * (k + 1 + 1)
                  = 2 * (k + 1) * x + y * k * (k + 1) + 2 * (y * (k + 1))
  OBVIOUS
<1>5. /\ TwiceAttempts(0, 0) = 0
      /\ TwiceAttempts(k, k) \in Nat /\ TwiceAttempts(k + 1, k) \in Nat
  BY <1>1, <1>2 DEF TwiceAttempts
<1>6. TwiceAttempts(k + 1, k) = TwiceAttempts(k, k) + 2 * config.attempt
  BY <1>1, <1>3, Zenon DEF TwiceAttempts
<1>7. TwiceAttempts(k + 1, k + 1) = TwiceAttempts(k + 1, k) + 2 * (config.backoff * (k + 1))
  BY <1>1, <1>4, Zenon DEF TwiceAttempts
<1> QED
  BY <1>5, <1>6, <1>7

(* The longest time before the second store call of a worker.               *)
LEMMA BeforeStoreCall ==
    ASSUME config.kind = "processing", NEW q \in Nat, q > 2 * config.retries + 3
    PROVE  TwiceBefore(q) = 2 * config.claim
                + (TwiceAttempts(config.retries + 1, config.retries)
                   + 2 * (q - 2 * config.retries - 3) * config.store)
BY DEF TwiceBefore

(* The longest time before a phase, from that before the previous one.      *)
LEMMA BeforeNext ==
    ASSUME config \in Configs, NEW p \in Nat, p >= 2
    PROVE  /\ TwiceBefore(p) \in Nat
           /\ TwiceBefore(p + 1) = TwiceBefore(p) + 2 * PhaseTime(p)
           /\ TwiceBefore(2) = 2 * config.claim
<1> DEFINE k == (p - 2) \div 2
           r == config.retries
           c == config.claim
           s == config.store
<1>t. c \in Nat /\ s \in Nat /\ k \in Nat /\ p \in Int
  BY ConfigTypes
<1>1. CASE config.kind = "dispatch" /\ p % 2 = 0
  <2>1. (p - 1) \div 2 = k /\ (p + 1 - 1) \div 2 = k + 1 /\ (p + 1 - 2) \div 2 = k
    BY <1>1
  <2>2. /\ config.publish \in Nat /\ PhaseTime(p) = config.publish
        /\ TwiceBefore(p) = 2 * c + (2 * k * config.publish + 2 * k * s)
        /\ TwiceBefore(p + 1) = 2 * c + (2 * (k + 1) * config.publish + 2 * k * s)
        /\ TwiceBefore(2) = 2 * c + (2 * 0 * config.publish + 2 * 0 * s)
    BY <1>1, <2>1, ConfigTypes DEF TwiceBefore, PhaseTime
  <2>3. ASSUME NEW m \in Nat, NEW d \in Nat, NEW t \in Nat, NEW u \in Nat
        PROVE  /\ 2 * d + (2 * m * t + 2 * m * u) \in Nat
               /\ 2 * d + (2 * (m + 1) * t + 2 * m * u) = 2 * d + (2 * m * t + 2 * m * u) + 2 * t
               /\ 2 * d + (2 * 0 * t + 2 * 0 * u) = 2 * d
    OBVIOUS
  <2> HIDE DEF c, s, k
  <2> QED
    BY <1>t, <2>2, <2>3 DEF c
<1>2. CASE config.kind = "dispatch" /\ p % 2 = 1
  <2>1. (p - 1) \div 2 = k + 1 /\ (p + 1 - 1) \div 2 = k + 1 /\ (p + 1 - 2) \div 2 = k + 1
    BY <1>2
  <2>2. /\ config.publish \in Nat /\ PhaseTime(p) = s
        /\ TwiceBefore(p) = 2 * c + (2 * (k + 1) * config.publish + 2 * k * s)
        /\ TwiceBefore(p + 1) = 2 * c + (2 * (k + 1) * config.publish + 2 * (k + 1) * s)
        /\ TwiceBefore(2) = 2 * c + (2 * 0 * config.publish + 2 * 0 * s)
    BY <1>2, <2>1, ConfigTypes DEF TwiceBefore, PhaseTime
  <2>3. ASSUME NEW m \in Nat, NEW d \in Nat, NEW t \in Nat, NEW u \in Nat
        PROVE  /\ 2 * d + (2 * (m + 1) * t + 2 * m * u) \in Nat
               /\ 2 * d + (2 * (m + 1) * t + 2 * (m + 1) * u)
                    = 2 * d + (2 * (m + 1) * t + 2 * m * u) + 2 * u
               /\ 2 * d + (2 * 0 * t + 2 * 0 * u) = 2 * d
    OBVIOUS
  <2> HIDE DEF c, s, k
  <2> QED
    BY <1>t, <2>2, <2>3 DEF c
<1>3. CASE config.kind = "processing"
  <2>1. r \in Nat /\ config.backoff \in Nat /\ config.attempt \in Nat
    BY <1>3, ConfigTypes
  <2>2. TwiceBefore(2) = 2 * c
    <3>1. (2 - 1) \div 2 = 0 /\ (2 - 2) \div 2 = 0 /\ ~(2 > 2 * r + 3)
      BY <2>1
    <3> QED
      BY <1>t, <1>3, <3>1, AttemptsStep DEF TwiceBefore
  <2>3. ASSUME p % 2 = 0, p <= 2 * r + 2
        PROVE  TwiceBefore(p) \in Nat /\ TwiceBefore(p + 1) = TwiceBefore(p) + 2 * PhaseTime(p)
    <3>1. /\ (p - 1) \div 2 = k /\ (p + 1 - 1) \div 2 = k + 1 /\ (p + 1 - 2) \div 2 = k
          /\ ~(p > 2 * r + 3) /\ ~(p + 1 > 2 * r + 3) /\ ~(p > 2 * r + 2) /\ p # 1
      BY <2>1, <2>3
    <3>2. /\ TwiceBefore(p) = 2 * c + TwiceAttempts(k, k)
          /\ TwiceBefore(p + 1) = 2 * c + TwiceAttempts(k + 1, k)
          /\ PhaseTime(p) = config.attempt
      BY <1>3, <2>3, <3>1 DEF TwiceBefore, PhaseTime
    <3> HIDE DEF k, c
    <3>3. /\ TwiceAttempts(k, k) \in Nat
          /\ TwiceAttempts(k + 1, k) = TwiceAttempts(k, k) + 2 * config.attempt
      BY <1>t, <1>3, AttemptsStep
    <3> QED
      BY <1>t, <2>1, <3>2, <3>3
  <2>4. ASSUME p % 2 = 1, p <= 2 * r + 2
        PROVE  TwiceBefore(p) \in Nat /\ TwiceBefore(p + 1) = TwiceBefore(p) + 2 * PhaseTime(p)
    <3>1. /\ (p - 1) \div 2 = k + 1 /\ (p + 1 - 1) \div 2 = k + 1 /\ (p + 1 - 2) \div 2 = k + 1
          /\ ~(p > 2 * r + 3) /\ ~(p + 1 > 2 * r + 3) /\ ~(p > 2 * r + 2) /\ p # 1
      BY <2>1, <2>4
    <3>2. /\ TwiceBefore(p) = 2 * c + TwiceAttempts(k + 1, k)
          /\ TwiceBefore(p + 1) = 2 * c + TwiceAttempts(k + 1, k + 1)
          /\ PhaseTime(p) = config.backoff * (k + 1)
      BY <1>3, <2>4, <3>1 DEF TwiceBefore, PhaseTime
    <3> DEFINE pause == config.backoff * (k + 1)
    <3>3. pause \in Nat
      BY <1>t, <2>1
    <3> HIDE DEF k, c
    <3>4. /\ TwiceAttempts(k + 1, k) \in Nat
          /\ TwiceAttempts(k + 1, k + 1) = TwiceAttempts(k + 1, k) + 2 * pause
      BY <1>t, <1>3, AttemptsStep
    <3> HIDE DEF pause
    <3> QED
      BY <1>t, <3>2, <3>3, <3>4 DEF pause
  <2>5. ASSUME p = 2 * r + 3
        PROVE  TwiceBefore(p) \in Nat /\ TwiceBefore(p + 1) = TwiceBefore(p) + 2 * PhaseTime(p)
    <3>1. /\ (p - 1) \div 2 = r + 1 /\ (p - 2) \div 2 = r
          /\ ~(p > 2 * r + 3) /\ p + 1 > 2 * r + 3 /\ p > 2 * r + 2 /\ p # 1
          /\ p + 1 - 2 * r - 3 = 1
      BY <2>1, <2>5
    <3>2. /\ TwiceBefore(p) = 2 * c + TwiceAttempts(r + 1, r)
          /\ TwiceBefore(p + 1) = 2 * c + (TwiceAttempts(r + 1, r) + 2 * 1 * s)
          /\ PhaseTime(p) = s
      BY <1>3, <3>1 DEF TwiceBefore, PhaseTime
    <3>3. TwiceAttempts(r + 1, r) \in Nat
      BY <1>3, <2>1, AttemptsStep
    <3> HIDE DEF r, c, s
    <3> QED
      BY <1>t, <3>2, <3>3
  <2>6. ASSUME p > 2 * r + 3
        PROVE  TwiceBefore(p) \in Nat /\ TwiceBefore(p + 1) = TwiceBefore(p) + 2 * PhaseTime(p)
    <3> DEFINE i == p - 2 * r - 3
    <3>1. /\ p + 1 > 2 * r + 3 /\ p > 2 * r + 2 /\ p # 1
          /\ i \in Nat /\ p + 1 - 2 * r - 3 = i + 1
      BY <2>1, <2>6
    <3>a. TwiceBefore(p) = 2 * c + (TwiceAttempts(r + 1, r) + 2 * i * s)
      BY <1>3, <2>6 DEF TwiceBefore
    <3>b. TwiceBefore(p + 1) = 2 * c + (TwiceAttempts(r + 1, r) + 2 * (i + 1) * s)
      <4>1. PICK q \in Nat : q = p + 1
        OBVIOUS
      <4>2. q > 2 * r + 3 /\ q - 2 * r - 3 = i + 1
        BY <2>1, <3>1, <4>1
      <4>3. TwiceBefore(q) = 2 * c + (TwiceAttempts(r + 1, r) + 2 * (q - 2 * r - 3) * s)
        BY <1>3, <4>2, BeforeStoreCall
      <4> HIDE DEF r, c, s, i
      <4> QED
        BY <4>1, <4>2, <4>3
    <3>c. PhaseTime(p) = s
      BY <1>3, <3>1 DEF PhaseTime
    <3>2. /\ TwiceBefore(p) = 2 * c + (TwiceAttempts(r + 1, r) + 2 * i * s)
          /\ TwiceBefore(p + 1) = 2 * c + (TwiceAttempts(r + 1, r) + 2 * (i + 1) * s)
          /\ PhaseTime(p) = s
      BY <3>a, <3>b, <3>c
    <3>3. TwiceAttempts(r + 1, r) \in Nat
      BY <1>3, <2>1, AttemptsStep
    <3>4. ASSUME NEW d \in Nat, NEW t \in Nat, NEW x \in Nat, NEW y \in Nat
          PROVE  /\ 2 * d + (t + 2 * x * y) \in Nat
                 /\ 2 * d + (t + 2 * (x + 1) * y) = 2 * d + (t + 2 * x * y) + 2 * y
      OBVIOUS
    <3> HIDE DEF r, c, s, i
    <3> QED
      BY <1>t, <3>1, <3>2, <3>3, <3>4
  <2>7. p % 2 \in {0, 1} /\ (p <= 2 * r + 2 \/ p = 2 * r + 3 \/ p > 2 * r + 3)
    BY <2>1
  <2> QED
    BY <2>2, <2>3, <2>4, <2>5, <2>6, <2>7
<1>4. p % 2 \in {0, 1}
  OBVIOUS
<1> QED
  BY <1>1, <1>2, <1>3, <1>4, ConfigTypes

(* Work that keeps within its phases ends within the worst case.            *)
LEMMA WithinWorstCase ==
    ASSUME config \in Configs, NEW p \in 2 .. PhaseCount, NEW age \in Nat,
           2 * age <= TwiceBefore(p) + 2 * PhaseTime(p)
    PROVE  WorstCase \in Nat /\ age <= WorstCase
<1> DEFINE r == config.retries
           c == config.claim
           s == config.store
<1>1. /\ p \in Nat /\ p >= 2 /\ p <= PhaseCount /\ c \in Nat /\ s \in Nat
      /\ 2 * age <= TwiceBefore(p + 1)
  BY PhaseValues, BeforeNext, ConfigTypes
<1>2. CASE config.kind = "dispatch"
  <2>1. /\ config.publish \in Nat /\ config.batch \in Nat
        /\ p \div 2 \in Nat /\ p \div 2 <= config.batch
        /\ (p - 1) \div 2 \in Nat /\ (p - 1) \div 2 <= config.batch
    BY <1>1, <1>2, ConfigTypes DEF PhaseCount
  <2>2. /\ 2 * age <= 2 * c + (2 * (p \div 2) * config.publish + 2 * ((p - 1) \div 2) * s)
        /\ WorstCase = c + config.batch * (config.publish + s)
    BY <1>1, <1>2, ConfigTypes DEF TwiceBefore, WorstCase
  <2>3. ASSUME NEW d \in Nat, NEW m \in Nat, NEW k \in Nat, NEW n \in Nat,
               NEW t \in Nat, NEW u \in Nat, m <= n, k <= n,
               2 * age <= 2 * d + (2 * m * t + 2 * k * u)
        PROVE  d + n * (t + u) \in Nat /\ age <= d + n * (t + u)
    <3>1. m * t <= n * t /\ m * t \in Nat /\ n * t \in Nat
      BY <2>3
    <3>2. k * u <= n * u /\ k * u \in Nat /\ n * u \in Nat
      BY <2>3
    <3>3. n * (t + u) = n * t + n * u /\ 2 * m * t = 2 * (m * t) /\ 2 * k * u = 2 * (k * u)
      OBVIOUS
    <3> QED
      BY <2>3, <3>1, <3>2, <3>3
  <2> HIDE DEF c, s
  <2> QED
    BY <1>1, <2>1, <2>2, <2>3
<1>3. CASE config.kind = "processing"
  <2>1. r \in Nat /\ config.attempt \in Nat /\ config.backoff \in Nat /\ p <= 2 * r + 4
    BY <1>1, <1>3, ConfigTypes DEF PhaseCount
  <2>2. TwiceAttempts(r + 1, r) \in Nat
    BY <1>3, <2>1, AttemptsStep
  <2>3. 2 * age <= 2 * c + (TwiceAttempts(r + 1, r) + 4 * s)
    <3>1. CASE p <= 2 * r + 2
      <4>1. /\ p \div 2 \in Nat /\ p \div 2 <= r + 1
            /\ (p - 1) \div 2 \in Nat /\ (p - 1) \div 2 <= r
            /\ ~(p + 1 > 2 * r + 3) /\ p + 1 - 1 = p /\ p + 1 - 2 = p - 1
        BY <1>1, <2>1, <3>1
      <4>2. TwiceBefore(p + 1) = 2 * c + TwiceAttempts(p \div 2, (p - 1) \div 2)
        BY <1>3, <4>1 DEF TwiceBefore
      <4>3. /\ TwiceAttempts(p \div 2, (p - 1) \div 2) \in Nat
            /\ TwiceAttempts(p \div 2, (p - 1) \div 2) <= TwiceAttempts(r + 1, r)
        BY <1>3, <2>1, <4>1, AttemptsGrow
      <4> HIDE DEF c, s, r
      <4> QED
        BY <1>1, <2>2, <4>2, <4>3
    <3>2. CASE p > 2 * r + 2
      <4>1. p + 1 > 2 * r + 3 /\ p + 1 - 2 * r - 3 \in {1, 2}
        <5>1. p \in Nat /\ r \in Nat /\ p > 2 * r + 2 /\ p <= 2 * r + 4
          BY <1>1, <2>1, <3>2
        <5>2. ASSUME NEW i \in Nat, NEW j \in Nat, i > 2 * j + 2, i <= 2 * j + 4
              PROVE  i + 1 > 2 * j + 3 /\ (i + 1 - 2 * j - 3 = 1 \/ i + 1 - 2 * j - 3 = 2)
          BY <5>2
        <5> HIDE DEF r
        <5> QED
          BY <5>1, <5>2
      <4>2. PICK q \in Nat : q = p + 1
        BY <1>1
      <4>3. q > 2 * r + 3 /\ q - 2 * r - 3 \in {1, 2}
        BY <1>1, <2>1, <4>1, <4>2
      <4>4. TwiceBefore(q) = 2 * c + (TwiceAttempts(r + 1, r) + 2 * (q - 2 * r - 3) * s)
        BY <1>3, <4>3, BeforeStoreCall
      <4> HIDE DEF c, s, r
      <4>5. 2 * (q - 2 * r - 3) * s \in {2 * s, 4 * s}
        BY <1>1, <4>3
      <4> QED
        BY <1>1, <2>2, <4>2, <4>4, <4>5
    <3> QED
      BY <1>1, <2>1, <3>1, <3>2
  <2>4. /\ TwiceAttempts(r + 1, r) = 2 * (r + 1) * config.attempt
                                     + config.backoff * r * (r + 1)
        /\ WorstCase = c + ((r + 1) * config.attempt
                             + (config.backoff * r * (r + 1)) \div 2 + 2 * s)
    BY <1>3 DEF TwiceAttempts, WorstCase
  <2>5. ASSUME NEW d \in Nat, NEW t \in Nat, NEW n \in Nat, NEW x \in Nat, NEW y \in Nat,
               2 * age <= 2 * d + (2 * (n + 1) * x + y * n * (n + 1) + 4 * t)
        PROVE  /\ d + ((n + 1) * x + (y * n * (n + 1)) \div 2 + 2 * t) \in Nat
               /\ age <= d + ((n + 1) * x + (y * n * (n + 1)) \div 2 + 2 * t)
    <3> DEFINE v == (n + 1) * x
               g == y * n * (n + 1)
    <3>1. v \in Nat /\ g \in Nat /\ 2 * (n + 1) * x = 2 * v
      OBVIOUS
    <3>2. 2 * age <= 2 * d + (2 * v + g + 4 * t)
      BY <2>5, <3>1
    <3> HIDE DEF v, g
    <3>3. d + (v + g \div 2 + 2 * t) \in Nat /\ age <= d + (v + g \div 2 + 2 * t)
      BY <3>1, <3>2
    <3> QED
      BY <3>3 DEF v, g
  <2> HIDE DEF r, c, s
  <2> QED
    BY <1>1, <2>1, <2>3, <2>4, <2>5
<1> QED
  BY <1>2, <1>3, ConfigTypes

-----------------------------------------------------------------------------
HolderState == [phase : Nat, elapsed : Nat, clock : Nat]

(* A holder keeps to its phase: no phase takes longer than its longest time *)
(* and the claim's time since the reading is the time it has taken.         *)
InPhase(h) ==
    /\ holder[h].phase <= PhaseCount
    /\ holder[h].phase > 0 => holder[h].elapsed <= PhaseTime(holder[h].phase)
    /\ holder[h].phase = 1 => holder[h].clock = holder[h].elapsed

(* The worker h owns the row and the claim is no older than its phases.     *)
Owns(h) ==
    /\ row.state = "reserved" /\ row.owner = h
    /\ 2 * row.age <= TwiceBefore(holder[h].phase) + 2 * holder[h].elapsed

LeaseTypes ==
    /\ config \in Configs
    /\ row \in [state : {"free", "reserved", "final"}, owner : Holders \cup {NoHolder}, age : Nat]
    /\ holder \in [Holders -> HolderState]

LInv ==
    config # NoConfig =>
        /\ LeaseTypes
        /\ \A h \in Holders : InPhase(h)
        /\ config.lease > WorstCase => \A h \in Holders : Working(h) => Owns(h)

(* What LInv says of one holder while a configuration was read.             *)
LEMMA HolderFacts ==
    ASSUME LInv, config # NoConfig, NEW h \in Holders
    PROVE  /\ holder[h] \in HolderState
           /\ holder[h].phase \in Nat /\ holder[h].elapsed \in Nat /\ holder[h].clock \in Nat
           /\ InPhase(h)
           /\ row.age \in Nat
BY DEF LInv, LeaseTypes, HolderState

(* Nobody claims a row under work: a claimant sees no expired lease.        *)
LEMMA NotExpired ==
    ASSUME LInv, config # NoConfig, config.lease > WorstCase,
           NEW h \in Holders, Working(h)
    PROVE  row.age <= WorstCase /\ row.age < config.lease /\ \A g \in Holders : ~Expired(g)
<1>1. config \in Configs /\ Owns(h) /\ row.age \in Nat
  BY DEF LInv, LeaseTypes
<1>2. /\ holder[h].phase \in 2 .. PhaseCount /\ holder[h].elapsed \in Nat
      /\ holder[h].elapsed <= PhaseTime(holder[h].phase)
  BY HolderFacts, PhaseValues, <1>1 DEF InPhase, Working
<1>3. TwiceBefore(holder[h].phase) \in Nat /\ PhaseTime(holder[h].phase) \in Nat
  <2>1. PhaseCount \in Nat
    BY PhaseValues, <1>1
  <2>2. /\ holder[h].phase \in Nat /\ holder[h].phase >= 2
        /\ holder[h].phase \in 1 .. PhaseCount
    BY <1>2, <2>1
  <2>3. TwiceBefore(holder[h].phase) \in Nat
    BY BeforeNext, <1>1, <2>2
  <2>4. PhaseTime(holder[h].phase) \in Nat
    BY PhaseValues, <1>1, <2>2
  <2> QED
    BY <2>3, <2>4
<1>4. 2 * row.age <= TwiceBefore(holder[h].phase) + 2 * PhaseTime(holder[h].phase)
  BY <1>1, <1>2, <1>3 DEF Owns
<1>5. WorstCase \in Nat /\ row.age <= WorstCase
  BY WithinWorstCase, <1>1, <1>2, <1>4
<1>6. config.lease \in Nat
  BY ConfigTypes, <1>1
<1>7. ASSUME NEW g \in Holders PROVE ~Expired(g)
  BY HolderFacts, <1>1, <1>5, <1>6 DEF Expired
<1> QED
  BY <1>1, <1>5, <1>6, <1>7

(* The start.                                                               *)
LEMMA InitLInv == Init => LInv
<1> SUFFICES ASSUME LeaseInit, config # NoConfig
             PROVE  LInv
  BY DEF Init, LInv
<1>1. LeaseTypes
  BY LeaseTimingAssumption
     DEF LeaseInit, LeaseTypes, Configs, HolderState, Idle, LeaseTimingAssumption
<1>2. \A h \in Holders : holder[h] = Idle
  BY DEF LeaseInit
<1>3. PhaseCount \in Nat
  BY PhaseValues, <1>1 DEF LeaseTypes
<1> QED
  BY <1>1, <1>2, <1>3 DEF LInv, InPhase, Working, Idle

(* A holder that leaves, or is about to claim, and a row that stays.        *)
LEMMA RestOrRead ==
    ASSUME LInv, config # NoConfig, NEW h \in Holders,
           ReadClock(h) \/ NoClaim(h) \/ Abandon(h)
    PROVE  LInv'
<1>1. /\ config' = config /\ row' = row
      /\ \E p \in {0, 1} : holder' = [holder EXCEPT ![h] = [phase |-> p, elapsed |-> 0, clock |-> 0]]
  BY DEF ReadClock, NoClaim, Abandon, Idle
<1>2. PICK p \in {0, 1} :
        holder' = [holder EXCEPT ![h] = [phase |-> p, elapsed |-> 0, clock |-> 0]]
  BY <1>1
<1>3. /\ LeaseTypes'
      /\ holder'[h] = [phase |-> p, elapsed |-> 0, clock |-> 0]
      /\ \A g \in Holders \ {h} : holder'[g] = holder[g]
  BY <1>1, <1>2 DEF LInv, LeaseTypes, HolderState, Configs, ProcessingConfigs, DispatchConfigs
<1>4. PhaseCount \in Nat /\ PhaseCount >= 2 /\ PhaseTime(1) \in Nat
  BY PhaseValues DEF LInv, LeaseTypes
<1>5. InPhase(h)'
  BY <1>1, <1>3, <1>4 DEF InPhase, PhaseCount, PhaseTime
<1>6. ASSUME NEW g \in Holders \ {h} PROVE InPhase(g)' /\ (Owns(g) => Owns(g)')
                                           /\ (Working(g)' => Working(g))
  BY <1>1, <1>3 DEF LInv, InPhase, PhaseCount, PhaseTime, Owns, TwiceBefore, TwiceAttempts, Working
<1>7. ~Working(h)'
  BY <1>3 DEF Working
<1>8. WorstCase' = WorstCase
  BY <1>1 DEF WorstCase
<1> QED
  BY <1>1, <1>3, <1>5, <1>6, <1>7, <1>8 DEF LInv

(* A configuration does not change, and nothing computed from it does.      *)
LEMMA SameConfig ==
    ASSUME config' = config
    PROVE  /\ PhaseCount' = PhaseCount /\ WorstCase' = WorstCase
           /\ \A p : PhaseTime(p)' = PhaseTime(p) /\ TwiceBefore(p)' = TwiceBefore(p)
BY DEF PhaseCount, WorstCase, PhaseTime, TwiceBefore, TwiceAttempts

(* ClaimProcessing, or the claim of an outbox message.                      *)
LEMMA ClaimKeeps ==
    ASSUME LInv, config # NoConfig, NEW h \in Holders, Claim(h)
    PROVE  LInv'
<1>0. LeaseTypes /\ config \in Configs
  BY DEF LInv, LeaseTypes
<1>1. /\ config' = config
      /\ row' = [state |-> "reserved", owner |-> h, age |-> holder[h].clock]
      /\ holder[h].phase = 1
      /\ row.state = "free" \/ Expired(h)
  BY DEF Claim
<1>2. /\ holder' \in [Holders -> HolderState]
      /\ holder'[h].phase = 2 /\ holder'[h].elapsed = 0
      /\ \A g \in Holders \ {h} : holder'[g] = holder[g]
  <2> DEFINE claimed == [holder[h] EXCEPT !.phase = 2, !.elapsed = 0]
  <2>1. claimed \in HolderState /\ claimed.phase = 2 /\ claimed.elapsed = 0
    BY HolderFacts DEF HolderState
  <2>2. holder' = [holder EXCEPT ![h] = claimed]
    BY <1>0 DEF Claim, LeaseTypes
  <2> HIDE DEF claimed
  <2> QED
    BY <1>0, <2>1, <2>2 DEF LeaseTypes
<1>3. LeaseTypes'
  BY <1>0, <1>1, <1>2, HolderFacts
     DEF LeaseTypes, Configs, ProcessingConfigs, DispatchConfigs
<1>4. PhaseCount >= 2 /\ PhaseCount \in Nat /\ PhaseTime(2) \in Nat
      /\ config.claim \in Nat /\ PhaseTime(1) = config.claim
      /\ TwiceBefore(2) = 2 * config.claim
  BY <1>0, PhaseValues, BeforeNext, ConfigTypes DEF PhaseTime
<1>5. holder[h].clock \in Nat /\ holder[h].clock <= config.claim
  BY <1>1, <1>4, HolderFacts DEF InPhase
<1>6. InPhase(h)' /\ Owns(h)'
  BY <1>1, <1>2, <1>4, <1>5, SameConfig DEF InPhase, Owns
<1>7. ASSUME NEW g \in Holders \ {h} PROVE InPhase(g)'
  BY <1>1, <1>2, HolderFacts, SameConfig DEF InPhase
<1>8. ASSUME config.lease > WorstCase, NEW g \in Holders \ {h} PROVE ~Working(g)'
  <2> SUFFICES ASSUME Working(g) PROVE FALSE
    BY <1>2 DEF Working
  <2>1. Owns(g) /\ ~Expired(h)
    BY <1>8, NotExpired DEF LInv
  <2> QED
    BY <1>1, <2>1 DEF Owns
<1> QED
  BY <1>1, <1>3, <1>6, <1>7, <1>8, SameConfig DEF LInv

(* The next attempt, pause, publication or store call.                      *)
LEMMA NextPhaseKeeps ==
    ASSUME LInv, config # NoConfig, NEW h \in Holders, NextPhase(h)
    PROVE  LInv'
<1>0. LeaseTypes /\ config \in Configs
  BY DEF LInv, LeaseTypes
<1> DEFINE p == holder[h].phase
<1>1. /\ config' = config /\ row' = row
      /\ p \in Nat /\ p >= 2 /\ p + 1 <= PhaseCount /\ PhaseCount \in Nat
  BY <1>0, PhaseValues, HolderFacts DEF NextPhase, Working
<1>2. /\ holder' \in [Holders -> HolderState]
      /\ holder'[h].phase = p + 1 /\ holder'[h].elapsed = 0
      /\ \A g \in Holders \ {h} : holder'[g] = holder[g]
  <2> DEFINE next == [holder[h] EXCEPT !.phase = @ + 1, !.elapsed = 0]
  <2>1. next \in HolderState /\ next.phase = p + 1 /\ next.elapsed = 0
    <3>1. holder[h] \in HolderState /\ p + 1 \in Nat
      BY <1>1, HolderFacts
    <3> QED
      BY <3>1 DEF HolderState
  <2>2. holder' = [holder EXCEPT ![h] = next]
    BY <1>0 DEF NextPhase, LeaseTypes
  <2> HIDE DEF next, p
  <2> QED
    BY <1>0, <2>1, <2>2 DEF LeaseTypes
<1> HIDE DEF p
<1>3. LeaseTypes'
  BY <1>0, <1>1, <1>2 DEF LeaseTypes, Configs, ProcessingConfigs, DispatchConfigs
<1>4. p \in 1 .. PhaseCount /\ p + 1 \in 1 .. PhaseCount
  BY <1>1
<1>5. /\ PhaseTime(p) \in Nat /\ PhaseTime(p + 1) \in Nat
      /\ TwiceBefore(p) \in Nat /\ TwiceBefore(p + 1) = TwiceBefore(p) + 2 * PhaseTime(p)
  BY <1>0, <1>1, <1>4, PhaseValues, BeforeNext
<1>6. holder[h].elapsed \in Nat /\ holder[h].elapsed <= PhaseTime(p) /\ row.age \in Nat
  BY <1>1, HolderFacts DEF InPhase, p
<1>7. InPhase(h)'
  BY <1>1, <1>2, <1>5, SameConfig DEF InPhase
<1>8. Owns(h) => Owns(h)'
  BY <1>1, <1>2, <1>5, <1>6, SameConfig DEF Owns, p
<1>9. ASSUME NEW g \in Holders \ {h}
      PROVE  InPhase(g)' /\ (Owns(g) => Owns(g)') /\ (Working(g)' => Working(g))
  BY <1>1, <1>2, HolderFacts, SameConfig DEF InPhase, Owns, Working
<1>10. Working(h)
  BY DEF NextPhase
<1> QED
  BY <1>1, <1>3, <1>7, <1>8, <1>9, <1>10, SameConfig DEF LInv

(* An attempt succeeds: what is left is the last store call, which failing  *)
(* attempts would reach no sooner.                                          *)
LEMMA SucceedKeeps ==
    ASSUME LInv, config # NoConfig, NEW h \in Holders, Succeed(h)
    PROVE  LInv'
<1>0. LeaseTypes /\ config \in Configs /\ config.kind = "processing" /\ Working(h)
  BY DEF LInv, LeaseTypes, Succeed
<1> DEFINE p == holder[h].phase
           r == config.retries
           last == Len(Phases)
<1>1. /\ config' = config /\ row' = row
      /\ r \in Nat /\ config.claim \in Nat /\ config.store \in Nat
      /\ last = PhaseCount /\ last = 2 * r + 4 /\ p \in Nat /\ p >= 2 /\ p <= 2 * r + 2
  <2>1. config' = config /\ row' = row /\ p > 1 /\ p <= last - 2
    BY DEF Succeed, Working
  <2>2. r \in Nat /\ config.claim \in Nat /\ config.store \in Nat
    BY <1>0, ConfigTypes
  <2>3. last = PhaseCount /\ PhaseCount = 2 * r + 4
    BY <1>0, PhaseValues DEF PhaseCount
  <2>4. p \in Nat
    BY HolderFacts
  <2> HIDE DEF p, r, last
  <2> QED
    BY <2>1, <2>2, <2>3, <2>4
<1>2. /\ holder' \in [Holders -> HolderState]
      /\ holder'[h].phase = last /\ holder'[h].elapsed = 0
      /\ \A g \in Holders \ {h} : holder'[g] = holder[g]
  <2> DEFINE next == [holder[h] EXCEPT !.phase = last, !.elapsed = 0]
  <2>1. last \in Nat /\ holder[h] \in HolderState
    BY <1>1, HolderFacts
  <2>2. holder' = [holder EXCEPT ![h] = next]
    BY <1>0 DEF Succeed, LeaseTypes
  <2> HIDE DEF last
  <2>3. next \in HolderState /\ next.phase = last /\ next.elapsed = 0
    BY <2>1 DEF HolderState
  <2> HIDE DEF next
  <2> QED
    BY <1>0, <2>2, <2>3 DEF LeaseTypes
<1>3. LeaseTypes'
  BY <1>0, <1>1, <1>2 DEF LeaseTypes, Configs, ProcessingConfigs, DispatchConfigs
<1>4. holder[h].elapsed \in Nat /\ holder[h].elapsed <= PhaseTime(p) /\ row.age \in Nat
  BY <1>1, HolderFacts DEF InPhase
<1> HIDE DEF p, last
<1>5. PhaseTime(last) \in Nat /\ PhaseCount \in Nat
  <2>1. last \in 1 .. PhaseCount /\ PhaseCount \in Nat
    BY <1>1
  <2> QED
    BY <1>0, <2>1, PhaseValues
<1>6. /\ PhaseTime(p) \in Nat /\ TwiceBefore(p) \in Nat /\ TwiceBefore(last) \in Nat
      /\ TwiceBefore(p) + 2 * PhaseTime(p) <= TwiceBefore(last)
  <2>1. /\ p \div 2 \in Nat /\ p \div 2 <= r + 1
        /\ (p - 1) \div 2 \in Nat /\ (p - 1) \div 2 <= r
        /\ ~(p + 1 > 2 * r + 3) /\ p + 1 - 1 = p /\ p + 1 - 2 = p - 1
        /\ last > 2 * r + 3 /\ last - 2 * r - 3 = 1 /\ p \in 1 .. PhaseCount
    BY <1>1
  <2>2. /\ TwiceBefore(p + 1) = 2 * config.claim + TwiceAttempts(p \div 2, (p - 1) \div 2)
        /\ TwiceBefore(last) = 2 * config.claim + (TwiceAttempts(r + 1, r) + 2 * 1 * config.store)
    BY <1>0, <2>1 DEF TwiceBefore
  <2>3. /\ TwiceAttempts(p \div 2, (p - 1) \div 2) \in Nat /\ TwiceAttempts(r + 1, r) \in Nat
        /\ TwiceAttempts(p \div 2, (p - 1) \div 2) <= TwiceAttempts(r + 1, r)
    BY <1>0, <1>1, <2>1, AttemptsGrow
  <2>4. PhaseTime(p) \in Nat /\ TwiceBefore(p) \in Nat
        /\ TwiceBefore(p + 1) = TwiceBefore(p) + 2 * PhaseTime(p)
    BY <1>0, <1>1, <2>1, PhaseValues, BeforeNext
  <2> HIDE DEF r
  <2> QED
    BY <1>1, <2>2, <2>3, <2>4
<1>7. InPhase(h)'
  BY <1>1, <1>2, <1>5, SameConfig DEF InPhase
<1>8. Owns(h) => Owns(h)'
  BY <1>1, <1>2, <1>4, <1>6, SameConfig DEF Owns, p
<1>9. ASSUME NEW g \in Holders \ {h}
      PROVE  InPhase(g)' /\ (Owns(g) => Owns(g)') /\ (Working(g)' => Working(g))
  BY <1>1, <1>2, HolderFacts, SameConfig DEF InPhase, Owns, Working
<1> QED
  BY <1>0, <1>1, <1>3, <1>7, <1>8, <1>9, SameConfig DEF LInv

(* The status is stored, or the message marked or released.                 *)
LEMMA FinishKeeps ==
    ASSUME LInv, config # NoConfig, NEW h \in Holders, Finish(h)
    PROVE  LInv'
<1>0. LeaseTypes /\ config \in Configs /\ Working(h)
  BY DEF LInv, LeaseTypes, Finish
<1>1. config' = config /\ holder' = [holder EXCEPT ![h] = Idle]
  BY DEF Finish
<1>2. /\ row'.age = row.age /\ row'.owner = row.owner
      /\ row' \in [state : {"free", "reserved", "final"}, owner : Holders \cup {NoHolder}, age : Nat]
  BY <1>0 DEF Finish, LeaseTypes
<1>3. /\ holder' \in [Holders -> HolderState] /\ holder'[h] = Idle
      /\ \A g \in Holders \ {h} : holder'[g] = holder[g]
  BY <1>0, <1>1 DEF LeaseTypes, HolderState, Idle
<1>4. LeaseTypes'
  BY <1>0, <1>1, <1>2, <1>3
     DEF LeaseTypes, Configs, ProcessingConfigs, DispatchConfigs
<1>5. PhaseCount \in Nat
  BY <1>0, PhaseValues
<1>6. InPhase(h)'
  BY <1>1, <1>3, <1>5, SameConfig DEF InPhase, Idle
<1>7. ASSUME NEW g \in Holders \ {h} PROVE InPhase(g)'
  BY <1>1, <1>3, HolderFacts, SameConfig DEF InPhase
<1>8. ASSUME config.lease > WorstCase, NEW g \in Holders PROVE ~Working(g)'
  <2>1. ~Working(g) \/ g = h
    BY <1>0, <1>8 DEF LInv, Owns
  <2> QED
    BY <1>3, <2>1 DEF Working, Idle
<1> QED
  BY <1>1, <1>4, <1>6, <1>7, <1>8, SameConfig DEF LInv

(* Time passes for the row and for every holder alike.                      *)
LEMMA TickKeeps ==
    ASSUME LInv, config # NoConfig, Tick
    PROVE  LInv'
<1>0. LeaseTypes /\ config \in Configs
  BY DEF LInv, LeaseTypes
<1>1. /\ config' = config
      /\ row' \in [state : {"free", "reserved", "final"}, owner : Holders \cup {NoHolder}, age : Nat]
      /\ row'.state = row.state /\ row'.owner = row.owner
      /\ row.age \in Nat /\ row'.age \in Nat /\ row'.age <= row.age + 1
  <2> DEFINE age == IF row.age < config.lease + config.claim THEN row.age + 1 ELSE row.age
  <2>1. row.age \in Nat /\ age \in Nat /\ age <= row.age + 1
    BY <1>0, ConfigTypes DEF LeaseTypes
  <2>2. config' = config /\ row' = [row EXCEPT !.age = age]
    BY DEF Tick
  <2> HIDE DEF age
  <2>3. row'.age = age /\ row'.state = row.state /\ row'.owner = row.owner
    BY <1>0, <2>2 DEF LeaseTypes
  <2>4. row' \in [state : {"free", "reserved", "final"}, owner : Holders \cup {NoHolder},
                  age : Nat]
    BY <1>0, <2>1, <2>2 DEF LeaseTypes
  <2> QED
    BY <2>1, <2>2, <2>3, <2>4
<1> DEFINE next(h) ==
      CASE holder[h].phase = 0 -> holder[h]
        [] holder[h].phase = 1 -> [holder[h] EXCEPT !.elapsed = @ + 1, !.clock = @ + 1]
        [] OTHER -> [holder[h] EXCEPT !.elapsed = @ + 1]
<1>2. ASSUME NEW h \in Holders
      PROVE  /\ next(h) \in HolderState /\ next(h).phase = holder[h].phase
             /\ holder[h].phase > 0 => next(h).elapsed = holder[h].elapsed + 1
             /\ holder[h].phase = 1 => next(h).clock = holder[h].clock + 1
  <2>1. /\ holder[h] \in HolderState /\ holder[h].phase \in Nat
        /\ holder[h].elapsed + 1 \in Nat /\ holder[h].clock + 1 \in Nat
    BY HolderFacts
  <2>2. CASE holder[h].phase = 0
    BY <2>1, <2>2
  <2>3. CASE holder[h].phase = 1
    <3> DEFINE e == holder[h].elapsed + 1
               c == holder[h].clock + 1
    <3>1. next(h) = [holder[h] EXCEPT !.elapsed = e, !.clock = c] /\ e \in Nat /\ c \in Nat
      BY <2>1, <2>3
    <3> HIDE DEF e, c, next
    <3>2. /\ next(h) \in HolderState /\ next(h).phase = holder[h].phase
          /\ next(h).elapsed = e /\ next(h).clock = c
      BY <2>1, <3>1 DEF HolderState
    <3> QED
      BY <3>2 DEF e, c
  <2>4. CASE holder[h].phase # 0 /\ holder[h].phase # 1
    BY <2>1, <2>4 DEF HolderState
  <2> QED
    BY <2>2, <2>3, <2>4
<1>3. holder' = [h \in Holders |-> next(h)]
  BY DEF Tick
<1> HIDE DEF next
<1>4. holder' \in [Holders -> HolderState] /\ \A h \in Holders : holder'[h] = next(h)
  BY <1>2, <1>3
<1>5. LeaseTypes'
  BY <1>0, <1>1, <1>4 DEF LeaseTypes, Configs, ProcessingConfigs, DispatchConfigs
<1>6. ASSUME NEW h \in Holders
      PROVE  InPhase(h)' /\ (Owns(h) => (Working(h) => Owns(h)')) /\ (Working(h)' => Working(h))
  <2>1. /\ holder[h].phase \in Nat /\ holder[h].elapsed \in Nat /\ holder[h].clock \in Nat
        /\ InPhase(h) /\ PhaseCount \in Nat
    BY HolderFacts, PhaseValues, <1>0
  <2>2. /\ holder'[h].phase = holder[h].phase
        /\ holder[h].phase > 0 => holder'[h].elapsed = holder[h].elapsed + 1
        /\ holder[h].phase = 1 => holder'[h].clock = holder[h].clock + 1
    BY <1>2, <1>4
  <2>3. ASSUME holder[h].phase > 0
        PROVE  /\ holder[h].elapsed < PhaseTime(holder[h].phase)
               /\ PhaseTime(holder[h].phase) \in Nat
    <3>1. holder[h].phase \in 1 .. PhaseCount
      BY <2>1, <2>3 DEF InPhase
    <3>2. Phases[holder[h].phase].max = PhaseTime(holder[h].phase)
          /\ PhaseTime(holder[h].phase) \in Nat
      BY <1>0, <3>1, PhaseValues
    <3> QED
      BY <2>3, <3>2 DEF Tick
  <2>4. InPhase(h)'
    BY <1>1, <2>1, <2>2, <2>3, SameConfig DEF InPhase
  <2>5. ASSUME Owns(h), Working(h) PROVE Owns(h)'
    <3>1. holder[h].phase >= 2 /\ TwiceBefore(holder[h].phase) \in Nat
      BY <1>0, <2>1, <2>5, BeforeNext DEF Working
    <3>2. holder'[h].elapsed = holder[h].elapsed + 1
      BY <2>1, <2>2, <3>1
    <3> QED
      BY <1>1, <2>1, <2>2, <2>5, <3>1, <3>2, SameConfig DEF Owns
  <2>6. Working(h)' => Working(h)
    BY <2>2 DEF Working
  <2> QED
    BY <2>4, <2>5, <2>6
<1> QED
  BY <1>1, <1>5, <1>6, SameConfig DEF LInv

(* Every step.                                                              *)
LEMMA NextLInv == LInv /\ [Next]_vars => LInv'
<1> SUFFICES ASSUME LInv, [Next]_vars PROVE LInv'
  OBVIOUS
<1>1. CASE config # NoConfig /\ LeaseNext
  <2>1. CASE Tick
    BY <1>1, <2>1, TickKeeps
  <2>2. ASSUME NEW h \in Holders, LeaseStep(h) PROVE LInv'
    BY <1>1, <2>2, RestOrRead, ClaimKeeps, NextPhaseKeeps, SucceedKeeps, FinishKeeps DEF LeaseStep
  <2> QED
    BY <1>1, <2>1, <2>2 DEF LeaseNext
<1>2. CASE config' = config /\ row' = row /\ holder' = holder
  BY <1>2, SameConfig
     DEF LInv, LeaseTypes, InPhase, Owns, Working, Configs, ProcessingConfigs, DispatchConfigs
<1> QED
  BY <1>1, <1>2 DEF Next, vars, leaseVars

(***************************************************************************)
(* For every configuration, every number of workers or dispatchers and     *)
(* every bound on the time of a call: a lease longer than the claim, the   *)
(* attempts and the pauses of the retry loop and the store calls after     *)
(* them (or the publications and markings of a batch) never passes under   *)
(* running work, and whoever works on a row owns it.                       *)
(***************************************************************************)
THEOREM LeaseLongEnough == Spec => []LeasesCover
<1>1. LInv => LeasesCover
  <2> SUFFICES ASSUME LInv, config # NoConfig, config.lease > WorstCase,
                      NEW h \in Holders, Working(h)
               PROVE  row.state = "reserved" /\ row.owner = h /\ row.age < config.lease
    BY DEF LeasesCover, LeaseCovers
  <2> QED
    BY NotExpired DEF LInv, Owns
<1> QED
  BY <1>1, InitLInv, NextLInv, PTL DEF Spec
-----------------------------------------------------------------------------
(* The retry delay.  The provers know no induction over the naturals that   *)
(* takes a predicate; they know a least element of a set of naturals.       *)
LEMMA NatSetInduction ==
    ASSUME NEW T, 0 \in T, \A n \in Nat : n \in T => n + 1 \in T
    PROVE  \A n \in Nat : n \in T
<1> DEFINE Missing == {n \in Nat : n \notin T}
<1>1. SUFFICES ASSUME Missing # {} PROVE FALSE
  OBVIOUS
<1>2. \E x \in Missing : \A y \in Missing : ~ (<<y, x>> \in OpToRel(<, Nat))
  BY <1>1, WFMin, NatLessThanWellFounded
<1>3. PICK x \in Missing : \A y \in Missing : ~ (y < x)
  BY <1>2 DEF OpToRel
<1>4. x - 1 \in Nat /\ x - 1 \notin Missing
  BY <1>3
<1> QED
  BY <1>3, <1>4

(* f iterates step from start over 0 .. n, the first places left alone.     *)
Iterates(f, n, first, start, step) ==
    \A i \in 0 .. n : f[i] = IF i <= first THEN start ELSE step[f[i - 1]]

(* Two iterations agree where both are defined.                             *)
LEMMA IteratesAgree ==
    ASSUME NEW first \in Nat, NEW start, NEW step,
           NEW n \in Nat, NEW f, Iterates(f, n, first, start, step),
           NEW m \in Nat, NEW g, Iterates(g, m, first, start, step)
    PROVE  \A i \in Nat : i <= n /\ i <= m => f[i] = g[i]
<1> DEFINE T == {i \in Nat : i <= n /\ i <= m => f[i] = g[i]}
<1>1. 0 \in T
  BY DEF Iterates
<1>2. ASSUME NEW i \in Nat, i \in T PROVE i + 1 \in T
  <2> SUFFICES ASSUME i + 1 <= n, i + 1 <= m PROVE f[i + 1] = g[i + 1]
    OBVIOUS
  <2>1. f[i] = g[i] /\ i + 1 \in 0 .. n /\ i + 1 \in 0 .. m /\ (i + 1) - 1 = i
    BY <1>2
  <2> QED
    BY <2>1 DEF Iterates
<1> HIDE DEF T
<1>3. \A i \in Nat : i \in T
  BY <1>1, <1>2, NatSetInduction
<1> QED
  BY <1>3 DEF T

Iteration(g, first, start, step) ==
    \A i \in Nat : g[i] = IF i <= first THEN start ELSE step[g[i - 1]]

(* An iteration over all the naturals exists: what a recursive function of  *)
(* the model chooses.                                                       *)
LEMMA IterationExists ==
    ASSUME NEW S, NEW first \in Nat, NEW start \in S, NEW step \in [S -> S]
    PROVE  \E g \in [Nat -> S] : Iteration(g, first, start, step)
<1> DEFINE Part(n) == {f \in [0 .. n -> S] : Iterates(f, n, first, start, step)}
           T == {n \in Nat : Part(n) # {}}
<1>1. 0 \in T
  <2>1. [i \in 0 .. 0 |-> start] \in Part(0)
    BY DEF Iterates
  <2> QED
    BY <2>1
<1>2. ASSUME NEW n \in Nat, n \in T PROVE n + 1 \in T
  <2>1. PICK f \in [0 .. n -> S] : Iterates(f, n, first, start, step)
    BY <1>2
  <2> DEFINE last == IF n + 1 <= first THEN start ELSE step[f[n]]
             h == [i \in 0 .. n + 1 |-> IF i <= n THEN f[i] ELSE last]
  <2>2. last \in S
    BY <2>1
  <2>3. h \in [0 .. n + 1 -> S]
    BY <2>1, <2>2
  <2>4. ASSUME NEW i \in 0 .. n + 1
        PROVE  h[i] = IF i <= first THEN start ELSE step[h[i - 1]]
    <3>1. CASE i <= n
      <4>1. i \in 0 .. n /\ h[i] = f[i]
        BY <3>1
      <4>2. i > first => h[i - 1] = f[i - 1]
        BY <3>1
      <4> QED
        BY <2>1, <4>1, <4>2 DEF Iterates
    <3>2. CASE i = n + 1
      <4>1. h[i] = last /\ i - 1 = n /\ h[n] = f[n]
        BY <3>2
      <4> QED
        BY <3>2, <4>1
    <3> QED
      BY <3>1, <3>2
  <2>5. h \in Part(n + 1)
    BY <2>3, <2>4 DEF Iterates
  <2> QED
    BY <2>5
<1> HIDE DEF T
<1>3. \A n \in Nat : n \in T
  BY <1>1, <1>2, NatSetInduction
<1> DEFINE part(n) == CHOOSE f : f \in Part(n)
           g == [n \in Nat |-> part(n)[n]]
<1>4. \A n \in Nat : part(n) \in Part(n)
  BY <1>3 DEF T
<1> HIDE DEF part
<1>5. \A n \in Nat : part(n) \in [0 .. n -> S] /\ Iterates(part(n), n, first, start, step)
  BY <1>4
<1>6. g \in [Nat -> S]
  <2>1. ASSUME NEW n \in Nat PROVE part(n)[n] \in S
    BY <1>5
  <2> QED
    BY <2>1
<1>7. ASSUME NEW i \in Nat PROVE g[i] = IF i <= first THEN start ELSE step[g[i - 1]]
  <2>1. part(i)[i] = IF i <= first THEN start ELSE step[part(i)[i - 1]]
    <3>1. i \in 0 .. i /\ Iterates(part(i), i, first, start, step)
      BY <1>5
    <3> QED
      BY <3>1 DEF Iterates
  <2>2. ASSUME i > first PROVE part(i)[i - 1] = part(i - 1)[i - 1]
    <3>1. i - 1 \in Nat /\ i - 1 <= i
      BY <2>2
    <3> QED
      BY <1>5, <3>1, IteratesAgree
  <2>3. i > first => i - 1 \in Nat
    OBVIOUS
  <2> QED
    BY <2>1, <2>2, <2>3
<1> HIDE DEF g
<1> QED
  BY <1>6, <1>7 DEF Iteration

(* The powers of two.                                                       *)
LEMMA TwoToValues ==
    /\ TwoTo[0] = 1
    /\ \A n \in Nat : TwoTo[n] \in Nat \ {0} /\ TwoTo[n + 1] = 2 * TwoTo[n]
<1> DEFINE step == [x \in Nat |-> 2 * x]
<1>1. step \in [Nat -> Nat]
  OBVIOUS
<1>2. PICK g \in [Nat -> Nat] : Iteration(g, 0, 1, step)
  <2>1. 0 \in Nat /\ 1 \in Nat
    OBVIOUS
  <2> HIDE DEF step
  <2> QED
    BY <1>1, <2>1, IterationExists
<1>3. g = [n \in Nat |-> IF n = 0 THEN 1 ELSE 2 * g[n - 1]]
  <2>1. ASSUME NEW n \in Nat PROVE g[n] = IF n = 0 THEN 1 ELSE 2 * g[n - 1]
    <3>1. n # 0 => n - 1 \in Nat
      OBVIOUS
    <3>2. n # 0 => g[n - 1] \in Nat
      BY <3>1
    <3>3. n # 0 => step[g[n - 1]] = 2 * g[n - 1]
      BY <3>2
    <3>4. (n <= 0) <=> (n = 0)
      OBVIOUS
    <3> HIDE DEF step
    <3> QED
      BY <1>2, <3>3, <3>4 DEF Iteration
  <2> QED
    BY <2>1
<1>4. TwoTo = [n \in Nat |-> IF n = 0 THEN 1 ELSE 2 * TwoTo[n - 1]]
  BY <1>3 DEF TwoTo
<1>5. TwoTo[0] = 1
  BY <1>4
<1>6. ASSUME NEW n \in Nat PROVE TwoTo[n + 1] = 2 * TwoTo[n]
  BY <1>4
<1> DEFINE T == {n \in Nat : TwoTo[n] \in Nat \ {0}}
<1>7. 0 \in T /\ \A n \in Nat : n \in T => n + 1 \in T
  BY <1>5, <1>6
<1> HIDE DEF T
<1>8. \A n \in Nat : n \in T
  BY <1>7, NatSetInduction
<1> QED
  BY <1>5, <1>6, <1>8 DEF T

(* The loop of retryDelay, step by step.                                    *)
LEMMA RetryLoopSteps ==
    ASSUME interval \in Nat
    PROVE  /\ RetryLoop[1] = [base |-> interval, capped |-> FALSE]
           /\ \A n \in Nat : RetryLoop[n + 2] =
                IF RetryLoop[n + 1].capped \/ 2 * RetryLoop[n + 1].base >= Cap
                THEN [base |-> Cap, capped |-> TRUE]
                ELSE [base |-> 2 * RetryLoop[n + 1].base, capped |-> FALSE]
<1> DEFINE Loop == [base : Nat, capped : BOOLEAN]
           start == [base |-> interval, capped |-> FALSE]
           after(b) == IF b.capped \/ 2 * b.base >= Cap THEN [base |-> Cap, capped |-> TRUE]
                       ELSE [base |-> 2 * b.base, capped |-> FALSE]
           step == [b \in Loop |-> after(b)]
<1>1. start \in Loop
  OBVIOUS
<1>2. step \in [Loop -> Loop]
  BY RetryDelayAssumption DEF RetryDelayAssumption
<1> HIDE DEF Loop, start
<1>3. PICK g \in [Nat -> Loop] : Iteration(g, 1, start, step)
  <2>1. 1 \in Nat
    OBVIOUS
  <2> HIDE DEF step
  <2> QED
    BY <1>1, <1>2, <2>1, IterationExists
<1>4. g = [n \in Nat |-> IF n <= 1 THEN start ELSE after(g[n - 1])]
  <2>1. ASSUME NEW n \in Nat PROVE g[n] = IF n <= 1 THEN start ELSE after(g[n - 1])
    <3>1. ~ (n <= 1) => g[n - 1] \in Loop
      BY <1>3
    <3>2. ~ (n <= 1) => step[g[n - 1]] = after(g[n - 1])
      BY <3>1
    <3> HIDE DEF step, after
    <3> QED
      BY <1>3, <3>2 DEF Iteration
  <2> HIDE DEF after
  <2> QED
    BY <2>1
<1>5. RetryLoop = [n \in Nat |-> IF n <= 1 THEN start ELSE after(RetryLoop[n - 1])]
  BY <1>4 DEF RetryLoop, start
<1> HIDE DEF after
<1>6. RetryLoop[1] = start
  BY <1>5
<1>7. ASSUME NEW n \in Nat PROVE RetryLoop[n + 2] = after(RetryLoop[n + 1])
  BY <1>5
<1> QED
  BY <1>6, <1>7 DEF start, after

(* The base of an attempt in closed form, and whether it is capped.         *)
Doubled(n) == interval * TwoTo[n - 1]

Capped(n) == n > 1 /\ Doubled(n) >= Cap

(* A doubling is a natural number, and the next one twice as much.          *)
LEMMA DoubledValues ==
    ASSUME interval \in Nat
    PROVE  /\ Doubled(1) = interval
           /\ \A n \in Nat : Doubled(n + 1) \in Nat /\ Doubled(n + 2) = 2 * Doubled(n + 1)
<1>1. ASSUME NEW n \in Nat
      PROVE  /\ TwoTo[(n + 1) - 1] \in Nat
             /\ TwoTo[(n + 2) - 1] = 2 * TwoTo[(n + 1) - 1]
  <2>1. (n + 1) - 1 = n /\ (n + 2) - 1 = n + 1
    OBVIOUS
  <2> QED
    BY <2>1, TwoToValues
<1>2. ASSUME NEW a \in Nat, NEW b \in Nat PROVE a * b \in Nat /\ a * (2 * b) = 2 * (a * b)
  OBVIOUS
<1>3. TwoTo[1 - 1] = 1 /\ interval * 1 = interval
  BY TwoToValues
<1> QED
  BY <1>1, <1>2, <1>3 DEF Doubled

(* retryDelay's loop computes the closed form: once capped it stays so.     *)
LEMMA RetryLoopMatches ==
    ASSUME interval \in Nat
    PROVE  \A n \in Nat : /\ RetryLoop[n + 1].capped <=> Capped(n + 1)
                          /\ RetryLoop[n + 1].base =
                                IF Capped(n + 1) THEN Cap ELSE Doubled(n + 1)
<1> DEFINE P(n) == /\ RetryLoop[n + 1].capped <=> Capped(n + 1)
                   /\ RetryLoop[n + 1].base = IF Capped(n + 1) THEN Cap ELSE Doubled(n + 1)
           T == {n \in Nat : P(n)}
<1>0. Cap \in Nat
  BY RetryDelayAssumption DEF RetryDelayAssumption
<1>1. P(0)
  <2>1. 0 + 1 = 1 /\ ~ Capped(1)
    BY DEF Capped
  <2> QED
    BY <2>1, RetryLoopSteps, DoubledValues
<1>2. ASSUME NEW n \in Nat, P(n) PROVE P(n + 1)
  <2>1. (n + 1) + 1 = n + 2
    OBVIOUS
  <2>2. /\ Doubled(n + 1) \in Nat /\ Doubled(n + 2) = 2 * Doubled(n + 1)
        /\ RetryLoop[n + 2] =
                IF RetryLoop[n + 1].capped \/ 2 * RetryLoop[n + 1].base >= Cap
                THEN [base |-> Cap, capped |-> TRUE]
                ELSE [base |-> 2 * RetryLoop[n + 1].base, capped |-> FALSE]
    BY DoubledValues, RetryLoopSteps
  <2>3. Capped(n + 2) <=> Doubled(n + 2) >= Cap
    BY <2>2, <1>0 DEF Capped
  <2>4. CASE Capped(n + 1)
    <3>1. Capped(n + 2)
      BY <1>0, <2>2, <2>3, <2>4 DEF Capped
    <3>2. RetryLoop[n + 1].capped
      BY <1>2, <2>4
    <3> QED
      BY <2>1, <2>2, <3>1, <3>2
  <2>5. CASE ~ Capped(n + 1)
    <3>1. ~ RetryLoop[n + 1].capped /\ RetryLoop[n + 1].base = Doubled(n + 1)
      BY <1>2, <2>5 DEF Capped
    <3>2. CASE Doubled(n + 2) >= Cap
      BY <2>1, <2>2, <2>3, <3>1, <3>2
    <3>3. CASE ~ (Doubled(n + 2) >= Cap)
      BY <2>1, <2>2, <2>3, <3>1, <3>3
    <3> QED
      BY <3>2, <3>3
  <2> QED
    BY <2>4, <2>5
<1> HIDE DEF P
<1>3. 0 \in T /\ \A n \in Nat : n \in T => n + 1 \in T
  BY <1>1, <1>2
<1> HIDE DEF T
<1>4. \A n \in Nat : n \in T
  BY <1>3, NatSetInduction
<1> QED
  BY <1>4 DEF T, P

(* The inductive invariant of the delay.                                    *)
DInv ==
    /\ interval \in Nat /\ attempt \in Nat /\ delay \in Nat
    /\ attempt = 0 => delay = 0
    /\ DelayMatches

(* DelayMatches in terms of the attempt's doubling.                         *)
LEMMA DelayMatchesAt ==
    DelayMatches <=> (attempt > 0 =>
                        IF Capped(attempt) THEN delay = Cap
                        ELSE /\ Doubled(attempt) <= delay
                             /\ delay <= Doubled(attempt) + Doubled(attempt) \div 4)
BY DEF DelayMatches, Capped, Doubled

(* What ReplayFails makes of the delay.                                     *)
LEMMA ReplayFailsDelay ==
    ASSUME DInv, ReplayFails
    PROVE  /\ interval' = interval /\ attempt' = attempt + 1 /\ delay' \in Nat
           /\ IF Capped(attempt + 1) THEN delay' = Cap
              ELSE /\ Doubled(attempt + 1) <= delay'
                   /\ delay' <= Doubled(attempt + 1) + Doubled(attempt + 1) \div 4
<1>1. interval \in Nat /\ attempt \in Nat /\ Cap \in Nat
  BY RetryDelayAssumption DEF DInv, RetryDelayAssumption
<1>2. PICK jitter \in Jitter(RetryLoop[attempt + 1]) :
            delay' = RetryLoop[attempt + 1].base + jitter
  BY DEF ReplayFails
<1>3. /\ RetryLoop[attempt + 1].capped <=> Capped(attempt + 1)
      /\ RetryLoop[attempt + 1].base =
            IF Capped(attempt + 1) THEN Cap ELSE Doubled(attempt + 1)
      /\ Doubled(attempt + 1) \in Nat
  BY <1>1, RetryLoopMatches, DoubledValues
<1>4. CASE Capped(attempt + 1)
  <2>1. jitter = 0
    BY <1>2, <1>3, <1>4 DEF Jitter
  <2> QED
    BY <1>1, <1>2, <1>3, <1>4, <2>1 DEF ReplayFails
<1>5. CASE ~ Capped(attempt + 1)
  <2>1. jitter \in 0 .. Doubled(attempt + 1) \div 4
    BY <1>2, <1>3, <1>5 DEF Jitter
  <2> QED
    BY <1>1, <1>2, <1>3, <1>5, <2>1 DEF ReplayFails
<1> QED
  BY <1>4, <1>5

(* Initially; a behaviour of the leases has no attempt.                     *)
LEMMA InitDInv == Init => DInv
<1> SUFFICES ASSUME Init PROVE DInv
  OBVIOUS
<1>1. (interval = 0 \/ interval \in Intervals) /\ attempt = 0 /\ delay = 0
  BY Zenon DEF Init, DelayInit
<1>2. interval \in Nat
  <2>1. \A i \in Intervals : i \in Nat
    BY RetryDelayAssumption DEF RetryDelayAssumption
  <2> QED
    BY <1>1, <2>1
<1> QED
  BY <1>1, <1>2 DEF DInv, DelayMatches

(* Every step.                                                              *)
LEMMA NextDInv == DInv /\ [Next]_vars => DInv'
<1> SUFFICES ASSUME DInv, [Next]_vars PROVE DInv'
  OBVIOUS
<1>1. CASE ReplayFails
  <2>1. /\ interval' = interval /\ attempt' = attempt + 1 /\ delay' \in Nat
        /\ attempt \in Nat /\ interval \in Nat
    BY <1>1, ReplayFailsDelay DEF DInv
  <2>2. Doubled(attempt)' = Doubled(attempt + 1) /\ (Capped(attempt)' <=> Capped(attempt + 1))
    BY <2>1 DEF Doubled, Capped
  <2>3. DelayMatches'
    <3>1. IF Capped(attempt)' THEN delay' = Cap
          ELSE /\ Doubled(attempt)' <= delay'
               /\ delay' <= Doubled(attempt)' + Doubled(attempt)' \div 4
      BY <1>1, <2>2, ReplayFailsDelay
    <3> QED
      BY <3>1 DEF DelayMatches, Capped, Doubled
  <2> QED
    BY <2>1, <2>3 DEF DInv
<1>2. CASE UNCHANGED delayVars
  <2>1. interval' = interval /\ attempt' = attempt /\ delay' = delay
    BY <1>2 DEF delayVars
  <2>2. DelayMatches' <=> DelayMatches
    BY <2>1, Zenon DEF DelayMatches
  <2> QED
    BY <2>1, <2>2 DEF DInv
<1> QED
  BY <1>1, <1>2 DEF Next, DelayNext, vars

(***************************************************************************)
(* For every interval, cap and number of attempts: retryDelay's loop gives *)
(* the interval doubled for every attempt before this one and at most a    *)
(* quarter more, or exactly the cap once a doubling reaches it.            *)
(***************************************************************************)
THEOREM DelayIsClosedForm == Spec => []DelayMatches
<1>1. DInv => DelayMatches
  BY DEF DInv
<1> QED
  BY <1>1, InitDInv, NextDInv, PTL DEF Spec

(***************************************************************************)
(* For every interval, cap and number of attempts: the delay of a dead     *)
(* letter that keeps failing to be replayed never shrinks, whatever jitter *)
(* is drawn, but for the step onto the cap.                                *)
(***************************************************************************)
THEOREM BackoffNeverShrinks == Spec => BackoffGrows
<1>1. ASSUME DInv, [Next]_vars PROVE [delay' >= delay \/ delay' = Cap]_delayVars
  <2>1. CASE ReplayFails
    <3>1. /\ attempt \in Nat /\ interval \in Nat /\ delay \in Nat /\ delay' \in Nat
          /\ Cap \in Nat
      BY <1>1, <2>1, ReplayFailsDelay, RetryDelayAssumption DEF DInv, RetryDelayAssumption
    <3>2. CASE attempt = 0
      BY <1>1, <3>1, <3>2 DEF DInv
    <3>3. CASE attempt > 0
      <4>1. Doubled(attempt) \in Nat /\ Doubled(attempt + 1) = 2 * Doubled(attempt)
        <5>1. attempt - 1 \in Nat /\ (attempt - 1) + 1 = attempt /\ (attempt - 1) + 2 = attempt + 1
          BY <3>1, <3>3
        <5> QED
          BY <3>1, <5>1, DoubledValues
      <4>2. CASE Capped(attempt)
        <5>1. Capped(attempt + 1)
          BY <3>1, <4>1, <4>2 DEF Capped
        <5> QED
          BY <1>1, <2>1, <5>1, ReplayFailsDelay
      <4>3. CASE ~ Capped(attempt)
        <5>1. delay <= Doubled(attempt) + Doubled(attempt) \div 4
          BY <1>1, <3>3, <4>3, DelayMatchesAt DEF DInv
        <5>2. Capped(attempt + 1) => delay' = Cap
          BY <1>1, <2>1, ReplayFailsDelay
        <5>3. ~ Capped(attempt + 1) => delay' >= 2 * Doubled(attempt)
          BY <1>1, <2>1, <4>1, ReplayFailsDelay
        <5> QED
          BY <3>1, <4>1, <5>1, <5>2, <5>3
      <4> QED
        BY <4>2, <4>3
    <3> QED
      BY <3>1, <3>2, <3>3
  <2>2. CASE UNCHANGED delayVars
    BY <2>2
  <2> QED
    BY <1>1, <2>1, <2>2 DEF Next, DelayNext, vars
<1> QED
  BY <1>1, InitDInv, NextDInv, PTL DEF Spec, BackoffGrows
=============================================================================
