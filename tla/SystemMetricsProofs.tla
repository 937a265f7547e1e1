------------------------ MODULE SystemMetricsProofs -------------------------
(***************************************************************************)
(* The metrics loop loses and doubles no growth of a counter and ends its  *)
(* retries, for any frequency and timeout, any limit on the duration and   *)
(* any number of failed measurements; where a measurement fits in its      *)
(* period, it understates no duration by more than the cut to seconds.     *)
(***************************************************************************)
EXTENDS SystemMetrics, TLAPS

Windows == acked \cup tooLong

\* The windows that contain time t.
Over(t) == {w \in Windows : w[1] < t /\ t <= w[2]}

\* Nothing is reported before the first sample, no window reaches beyond the
\* stored sample, and no sample lies in the future.
Ordered ==
    /\ ~skippedInitialReport => base = 0 /\ stored = 0 /\ Windows = {}
    /\ stored <= clock
    /\ \A w \in Windows : w[2] <= stored

\* Each time up to the stored sample is in one window, no later time is in one.
Tiled == \A t \in base + 1 .. clock :
            IF t <= stored THEN \E w \in Over(t) : Over(t) = {w} ELSE Over(t) = {}

\* What is sent starts at the stored sample; only the first measurement has none.
Sent ==
    /\ pc = "start" => ~skippedInitialReport /\ ~late /\ ~tick
    /\ pc = "send" => /\ skippedInitialReport /\ shortEnough
                      /\ stored <= sample /\ sample <= clock

\* A tick that the loop has not taken may have moved the clock by one.
pending == IF tick THEN 1 ELSE 0

\* No tick comes during a measurement that fits in its period, and up to a
\* window that is too long the loop counts an interval for every period since
\* the stored sample.
Punctual ==
    /\ ~late
    /\ pc = "send" => ~tick /\ clock = sample /\ sample - stored <= intervals
    /\ pc = "select" /\ skippedInitialReport /\ intervals <= MaxDuration
          => clock - stored <= intervals - 1 + pending

Recent == Sent /\ (measurementFits => Punctual)

\* The sleeps so far add up to a second times the sum of the multipliers, or more.
Slept ==
    /\ multiplier * SecondInMillis <= waited + SecondInMillis
    /\ SendGivesUp

IInv == TypeOK /\ Ordered /\ Tiled /\ Recent /\ Slept

-----------------------------------------------------------------------------
(***************************************************************************)
(* The frequency                                                           *)
(***************************************************************************)

\* The frequency, its whole seconds and the limit are numbers.
LEMMA Rates ==
    ASSUME TypeOK
    PROVE  /\ measurementFrequency \in Nat \ {0} /\ limit \in Nat \ {0}
           /\ wholeSeconds \in Nat
           /\ measurementFits => wholeSeconds >= 1
<1>1. measurementFrequency \in Nat \ {0} /\ limit \in Nat \ {0}
      BY MetricsAssumption DEF TypeOK, limit
<1>2. wholeSeconds \in Nat
      BY <1>1, MetricsAssumption DEF wholeSeconds
<1>3. ASSUME measurementFits
      PROVE  wholeSeconds >= 1
      BY <1>1, <1>3, MetricsAssumption DEF measurementFits, wholeSeconds
<1> QED
    BY <1>1, <1>2, <1>3

\* They stay as they are.
LEMMA Frozen ==
    ASSUME measurementFrequency' = measurementFrequency
    PROVE  limit' = limit /\ wholeSeconds' = wholeSeconds /\ measurementFits' = measurementFits
BY DEF limit, wholeSeconds, measurementFits

\* A window that is short enough has few intervals.
LEMMA FewIntervals ==
    ASSUME TypeOK, measurementFits, shortEnough
    PROVE  intervals <= MaxDuration
<1>1. PICK i \in Nat, q \in Nat : i = intervals /\ q = wholeSeconds /\ q >= 1
      BY Rates DEF TypeOK
<1>2. i * q <= MaxDuration
      BY <1>1 DEF shortEnough
<1>3. i * (q - 1) \in Nat /\ i * q = i * (q - 1) + i
      BY <1>1
<1>4. i <= i * q
      BY <1>1, <1>3
<1> QED
    BY <1>1, <1>2, <1>4, MetricsAssumption

-----------------------------------------------------------------------------
(***************************************************************************)
(* The windows                                                             *)
(***************************************************************************)

\* The next window starts where the last one ended.
LEMMA NextWindow ==
    ASSUME TypeOK, Ordered, Tiled, NEW c \in Times, stored <= c, c <= clock,
           Windows' = Windows \cup {<< stored, c >>},
           stored' = c, UNCHANGED << base, clock >>
    PROVE  /\ \A w \in Windows' : w[2] <= stored'
           /\ Tiled'
<1>0. /\ stored \in Nat /\ c \in Nat /\ base \in Nat /\ clock \in Nat
      /\ Windows \subseteq Times \X Times
      BY MetricsAssumption DEF TypeOK, Times, Windows
<1> DEFINE n == << stored, c >>
<1>1. n[1] = stored /\ n[2] = c
      OBVIOUS
<1> HIDE DEF n
<1>2. \A w \in Windows : w[1] \in Nat /\ w[2] \in Nat /\ w[2] <= stored
      BY <1>0, MetricsAssumption DEF Times, Ordered
<1>3. \A w \in Windows' : w[2] <= stored'
      BY <1>0, <1>1, <1>2 DEF n
<1>4. ASSUME NEW t \in base + 1 .. clock
      PROVE  IF t <= c THEN \E w \in Over(t)' : Over(t)' = {w} ELSE Over(t)' = {}
  <2>0. t \in Int
        BY <1>0
  <2>1. Over(t)' = IF stored < t /\ t <= c THEN Over(t) \cup {n} ELSE Over(t)
        BY <1>1 DEF Over, n
  <2>2. IF t <= stored THEN \E w \in Over(t) : Over(t) = {w} ELSE Over(t) = {}
        BY DEF Tiled
  <2>3. CASE t <= stored
        BY <1>0, <2>0, <2>1, <2>2, <2>3
  <2>4. CASE stored < t /\ t <= c
    <3>1. Over(t)' = {n}
          BY <1>0, <2>0, <2>1, <2>2, <2>4
    <3> QED
        BY <2>4, <3>1
  <2>5. CASE c < t
        BY <1>0, <2>0, <2>1, <2>2, <2>5
  <2> QED
      BY <1>0, <2>0, <2>3, <2>4, <2>5
<1>5. Tiled'
      BY <1>4 DEF Tiled
<1> QED
    BY <1>3, <1>5

\* When nothing is reported and nothing stored the windows stay as they are.
LEMMA SameWindows ==
    ASSUME Tiled, UNCHANGED << acked, tooLong, stored, base, clock >>
    PROVE  Windows' = Windows /\ Tiled'
BY DEF Tiled, Windows, Over

\* There is nothing to tile when the first sample is stored.
LEMMA FirstSample ==
    ASSUME TypeOK, base' = clock, clock' = clock
    PROVE  Tiled'
<1>1. clock \in Nat
      BY MetricsAssumption DEF TypeOK, Times
<1>2. base' + 1 .. clock' = {}
      BY <1>1
<1> QED
    BY <1>2 DEF Tiled

-----------------------------------------------------------------------------
(***************************************************************************)
(* The steps                                                               *)
(***************************************************************************)

\* A sample that is to be sent.
LEMMA SampleToSend ==
    ASSUME IInv, Sample, shortEnough,
           UNCHANGED << clock, late, measurementFrequency, disabled, closed >>,
           \/ pc = "start" /\ tick' = tick
           \/ pc = "select" /\ tick /\ tick' = FALSE
    PROVE  IInv'
<1>0. /\ clock \in Nat /\ stored \in Nat /\ base \in Nat /\ intervals \in Nat /\ intervals >= 1
      /\ clock \in Times /\ stored \in Times /\ tick \in BOOLEAN
      BY MetricsAssumption DEF IInv, TypeOK, Times
<1>1. /\ skippedInitialReport' = TRUE
      /\ sample' = clock /\ multiplier' = 1 /\ waited' = 0 /\ pc' = "send"
      /\ UNCHANGED << intervals, acked, tooLong >>
      /\ stored' = IF skippedInitialReport THEN stored ELSE clock
      /\ base' = IF skippedInitialReport THEN base ELSE clock
      BY DEF Sample
<1>b. tick' \in BOOLEAN
      BY <1>0, Zenon
<1>2. TypeOK'
      BY <1>0, <1>b, <1>1, MetricsAssumption DEF IInv, TypeOK
<1>3. shortEnough'
      BY <1>1 DEF shortEnough, wholeSeconds
<1>4. Slept'
  <2>1. PICK l \in Nat : l = limit /\ limit' = l
        BY Rates, Frozen DEF IInv
  <2>2. 1 * SecondInMillis <= 0 + SecondInMillis /\ 0 <= 3 * l + 2 * SecondInMillis
        BY MetricsAssumption
  <2> QED
      BY <1>1, <2>1, <2>2 DEF Slept, SendGivesUp
<1>5. measurementFits' => measurementFits
      BY Frozen
<1>6. CASE skippedInitialReport
  <2>1. stored' = stored /\ base' = base /\ Windows' = Windows
        BY <1>1, <1>6 DEF Windows
  <2>2. Tiled'
        BY <1>1, <2>1, SameWindows DEF IInv
  <2>3. Ordered'
        BY <1>1, <2>1 DEF IInv, Ordered
  <2>4. pc = "select" /\ tick /\ tick' = FALSE /\ stored <= clock
        BY <1>6 DEF IInv, Recent, Sent, Ordered
  <2>5. Sent'
        BY <1>0, <1>1, <1>3, <2>1, <2>4 DEF Sent
  <2>6. ASSUME measurementFits
        PROVE  Punctual'
    <3>1. intervals <= MaxDuration
          BY <2>6, FewIntervals DEF IInv
    <3>2. clock - stored <= intervals /\ ~late
          BY <1>0, <1>6, <2>4, <2>6, <3>1 DEF IInv, Recent, Punctual, pending
    <3> QED
        BY <1>0, <1>1, <2>1, <2>4, <3>2 DEF Punctual
  <2> QED
      BY <1>2, <1>4, <1>5, <2>2, <2>3, <2>5, <2>6 DEF IInv, Recent
<1>7. CASE ~skippedInitialReport
  <2>1. stored' = clock /\ base' = clock /\ Windows' = {}
        BY <1>1, <1>7 DEF Windows, IInv, Ordered
  <2>2. Tiled'
        BY <2>1, FirstSample DEF IInv
  <2>3. Ordered'
        BY <1>0, <1>1, <2>1 DEF Ordered
  <2>4. Sent'
        BY <1>0, <1>1, <1>3, <2>1 DEF Sent
  <2>5. ASSUME measurementFits
        PROVE  Punctual'
    <3>1. ~late /\ ~tick'
          BY <2>5 DEF IInv, Recent, Sent, Punctual
    <3> QED
        BY <1>0, <1>1, <2>1, <3>1 DEF Punctual
  <2> QED
      BY <1>2, <1>4, <1>5, <2>2, <2>3, <2>4, <2>5 DEF IInv, Recent
<1> QED
    BY <1>6, <1>7

\* A sample whose window is too long to be sent.
LEMMA SampleTooLong ==
    ASSUME IInv, Sample, ~shortEnough,
           UNCHANGED << clock, late, measurementFrequency, disabled, closed >>,
           \/ pc = "start" /\ tick' = tick
           \/ pc = "select" /\ tick /\ tick' = FALSE
    PROVE  IInv'
<1>0. /\ clock \in Nat /\ stored \in Nat /\ base \in Nat /\ MaxIntervals \in Nat
      /\ clock \in Times /\ stored \in Times /\ stored <= clock
      BY MetricsAssumption DEF IInv, TypeOK, Times, Ordered
<1>b. tick' \in BOOLEAN
      BY Zenon DEF IInv, TypeOK
<1> DEFINE from == IF skippedInitialReport THEN stored ELSE clock
<1>1. /\ skippedInitialReport' = TRUE
      /\ sample' = clock /\ pc' = "select" /\ intervals' = 1
      /\ UNCHANGED << multiplier, waited, acked >>
      /\ tooLong' = tooLong \cup {<< from, clock >>}
      /\ stored' = clock
      /\ base' = IF skippedInitialReport THEN base ELSE clock
      BY DEF Sample, measureSucceeded, newStored, sendVars
<1>2. Windows' = Windows \cup {<< from, clock >>}
      BY <1>1 DEF Windows
<1>3. TypeOK'
  <2>1. from \in Times
        BY <1>0
  <2>2. tooLong' \subseteq Times \X Times
        BY <1>0, <1>1, <2>1 DEF IInv, TypeOK
  <2>3. 1 \in 1 .. MaxIntervals
        BY <1>0, MetricsAssumption
  <2> QED
      BY <1>0, <1>b, <1>1, <2>2, <2>3 DEF IInv, TypeOK
<1>4. (\A w \in Windows' : w[2] <= stored') /\ Tiled'
  <2>1. CASE skippedInitialReport
        BY <1>0, <1>1, <1>2, <2>1, NextWindow DEF IInv
  <2>2. CASE ~skippedInitialReport
    <3>1. Windows' = {<< clock, clock >>}
          BY <1>2, <2>2 DEF IInv, Ordered
    <3>2. << clock, clock >>[2] = clock
          OBVIOUS
    <3>3. \A w \in Windows' : w[2] <= stored'
          BY <1>0, <1>1, <3>1, <3>2
    <3> QED
        BY <1>1, <2>2, <3>3, FirstSample DEF IInv
  <2> QED
      BY <2>1, <2>2
<1>5. Ordered'
      BY <1>0, <1>1, <1>4 DEF Ordered
<1>6. Recent'
  <2>1. clock' - stored' <= intervals' - 1 + pending'
        BY <1>0, <1>1 DEF pending
  <2>2. measurementFits' => ~late'
        BY Frozen DEF IInv, Recent, Punctual
  <2> QED
      BY <1>1, <2>1, <2>2 DEF Recent, Sent, Punctual
<1>7. Slept'
      BY <1>1, Frozen DEF IInv, Slept, SendGivesUp
<1> QED
    BY <1>3, <1>4, <1>5, <1>6, <1>7 DEF IInv

\* One more interval, unless there are too many already.
LEMMA MoreIntervals ==
    ASSUME IInv, intervals' = nextIntervals
    PROVE  /\ intervals' \in 1 .. MaxIntervals
           /\ intervals' <= MaxDuration => /\ intervals' = intervals + 1
                                           /\ intervals <= MaxDuration
BY MetricsAssumption DEF IInv, TypeOK, nextIntervals

\* A measurement that has no sample.
LEMMA FailToSample ==
    ASSUME IInv, NEW initial \in BOOLEAN, SampleFails(initial),
           UNCHANGED << clock, late, measurementFrequency, disabled, closed >>,
           \/ pc = "start" /\ tick' = tick
           \/ pc = "select" /\ tick /\ tick' = FALSE
    PROVE  IInv'
<1>0. /\ clock \in Nat /\ stored \in Nat /\ base \in Nat /\ MaxDuration \in Nat
      /\ clock \in Times /\ stored \in Times /\ stored <= clock
      /\ intervals \in Nat
      BY MetricsAssumption DEF IInv, TypeOK, Times, Ordered
<1>b. tick' \in BOOLEAN
      BY Zenon DEF IInv, TypeOK
<1>1. /\ intervals' = nextIntervals
      /\ pc' = "select"
      /\ UNCHANGED << sample, multiplier, waited, acked, tooLong >>
      BY DEF SampleFails, measureFailed, sendVars
<1>2. /\ intervals' \in 1 .. MaxIntervals
      /\ intervals' <= MaxDuration => intervals' = intervals + 1 /\ intervals <= MaxDuration
      BY <1>1, MoreIntervals
<1>3. Slept' /\ Windows' = Windows
      BY <1>1, Frozen DEF IInv, Slept, SendGivesUp, Windows
<1>4. measurementFits' => measurementFits /\ ~late'
      BY Frozen DEF IInv, Recent, Punctual
<1>5. CASE initial /\ ~skippedInitialReport
  <2>1. skippedInitialReport' = TRUE /\ stored' = clock /\ base' = clock
        BY <1>5 DEF SampleFails
  <2>2. TypeOK'
        BY <1>0, <1>b, <1>1, <1>2, <2>1 DEF IInv, TypeOK
  <2>3. Tiled' /\ Windows' = {}
        BY <1>3, <1>5, <2>1, FirstSample DEF IInv, Ordered
  <2>4. Ordered'
        BY <1>0, <2>1, <2>3 DEF Ordered
  <2>5. intervals' <= MaxDuration => clock' - stored' <= intervals' - 1 + pending'
        BY <1>0, <1>2, <2>1 DEF pending
  <2>6. Recent'
        BY <1>1, <1>4, <2>5 DEF Recent, Sent, Punctual
  <2> QED
      BY <1>3, <2>2, <2>3, <2>4, <2>6 DEF IInv
<1>6. CASE ~(initial /\ ~skippedInitialReport)
  <2>1. UNCHANGED << skippedInitialReport, stored, base >>
        BY <1>6 DEF SampleFails
  <2>2. TypeOK'
        BY <1>0, <1>b, <1>1, <1>2, <2>1 DEF IInv, TypeOK
  <2>3. Tiled'
        BY <1>1, <2>1, SameWindows DEF IInv
  <2>4. Ordered'
        BY <1>3, <2>1 DEF IInv, Ordered
  <2>5. ASSUME measurementFits, skippedInitialReport, intervals' <= MaxDuration
        PROVE  clock' - stored' <= intervals' - 1 + pending'
    <3>1. pc = "select" /\ tick /\ pending' = 0 /\ pending = 1
          BY <2>5 DEF IInv, Recent, Sent, pending
    <3>2. clock - stored <= intervals - 1 + pending
          BY <1>2, <2>5, <3>1 DEF IInv, Recent, Punctual
    <3> QED
        BY <1>0, <1>2, <2>1, <2>5, <3>1, <3>2
  <2>6. Recent'
        BY <1>1, <1>4, <2>1, <2>5 DEF Recent, Sent, Punctual
  <2> QED
      BY <1>3, <2>2, <2>3, <2>4, <2>6 DEF IInv
<1> QED
    BY <1>5, <1>6

\* The report was accepted: its window is acknowledged and its sample stored.
LEMMA StepSendOK ==
    ASSUME IInv, SendOK
    PROVE  IInv'
<1>0. /\ clock \in Nat /\ stored \in Nat /\ base \in Nat /\ MaxIntervals \in Nat
      /\ sample \in Nat /\ sample \in Times /\ stored \in Times
      /\ stored <= sample /\ sample <= clock
      /\ skippedInitialReport /\ pc = "send"
      BY MetricsAssumption DEF IInv, TypeOK, Times, Recent, Sent, SendOK
<1>1. /\ acked' = acked \cup {<< stored, sample >>}
      /\ stored' = sample /\ intervals' = 1 /\ pc' = "select"
      /\ UNCHANGED << clock, tick, late, measurementFrequency, skippedInitialReport,
                      sample, multiplier, waited, disabled, closed, base, tooLong >>
      BY DEF SendOK, measureSucceeded, newStored, sendVars, ticker
<1>2. Windows' = Windows \cup {<< stored, sample >>}
      BY <1>1 DEF Windows
<1>3. TypeOK'
  <2>1. acked' \subseteq Times \X Times
        BY <1>0, <1>1 DEF IInv, TypeOK
  <2>2. 1 \in 1 .. MaxIntervals
        BY <1>0, MetricsAssumption
  <2> QED
      BY <1>0, <1>1, <2>1, <2>2 DEF IInv, TypeOK
<1>4. (\A w \in Windows' : w[2] <= stored') /\ Tiled'
      BY <1>0, <1>1, <1>2, NextWindow DEF IInv
<1>5. Ordered'
      BY <1>0, <1>1, <1>4 DEF Ordered
<1>6. Recent'
  <2>1. ASSUME measurementFits'
        PROVE  ~late' /\ clock' - stored' <= intervals' - 1 + pending'
    <3>1. ~late /\ clock = sample
          BY <1>0, <1>1, <2>1, Frozen DEF IInv, Recent, Punctual
    <3> QED
        BY <1>0, <1>1, <3>1 DEF pending
  <2> QED
      BY <1>1, <2>1 DEF Recent, Sent, Punctual
<1>7. Slept'
      BY <1>1, Frozen DEF IInv, Slept, SendGivesUp
<1> QED
    BY <1>3, <1>4, <1>5, <1>6, <1>7 DEF IInv

\* The report was lost or refused: the next one covers its window, too, and has
\* one more interval.
LEMMA StepSendFails ==
    ASSUME IInv, SendFails
    PROVE  IInv'
<1>0. /\ clock \in Nat /\ stored \in Nat /\ intervals \in Nat /\ MaxDuration \in Nat
      /\ sample \in Nat /\ pc = "send"
      BY MetricsAssumption DEF IInv, TypeOK, Times, SendFails
<1>1. /\ intervals' = nextIntervals /\ pc' = "select"
      /\ UNCHANGED << clock, tick, late, measurementFrequency, stored,
                      skippedInitialReport, sample, multiplier, waited, disabled,
                      closed, base, acked, tooLong >>
      BY DEF SendFails, measureFailed, sendVars, ticker
<1>2. /\ intervals' \in 1 .. MaxIntervals
      /\ intervals' <= MaxDuration => intervals' = intervals + 1
      BY <1>1, MoreIntervals
<1>3. TypeOK'
      BY <1>1, <1>2 DEF IInv, TypeOK
<1>4. Windows' = Windows /\ Tiled'
      BY <1>1, SameWindows DEF IInv
<1>5. Ordered'
      BY <1>1, <1>4 DEF IInv, Ordered
<1>6. Recent'
  <2>1. ASSUME measurementFits'
        PROVE  ~late'
        BY <1>1, <2>1, Frozen DEF IInv, Recent, Punctual
  <2>2. ASSUME measurementFits', intervals' <= MaxDuration
        PROVE  clock' - stored' <= intervals' - 1 + pending'
    <3>1. ~tick /\ clock = sample /\ sample - stored <= intervals
          BY <1>0, <1>1, <2>2, Frozen DEF IInv, Recent, Punctual
    <3>2. pending' = 0
          BY <1>1, <3>1 DEF pending
    <3> QED
        BY <1>0, <1>1, <1>2, <2>2, <3>1, <3>2
  <2> QED
      BY <1>1, <2>1, <2>2 DEF Recent, Sent, Punctual
<1>7. Slept'
      BY <1>1, Frozen DEF IInv, Slept, SendGivesUp
<1> QED
    BY <1>3, <1>4, <1>5, <1>6, <1>7 DEF IInv

\* What a sleep adds, with m the multiplier and s a second.
LEMMA SleepBounds ==
    ASSUME NEW m \in Nat \ {0}, NEW s \in Nat \ {0}, NEW r \in 0 .. s - 1
    PROVE  /\ m * r \in Nat /\ m * s \in Nat
           /\ m * r + m * s <= 2 * (m * s)
           /\ m * s <= m * r + m * s
           /\ (2 * m) * s = 2 * (m * s)
<1>1. r \in Nat /\ s - r \in Nat
      OBVIOUS
<1>2. m * r \in Nat /\ m * s \in Nat /\ m * (s - r) \in Nat
      BY <1>1
<1>3. m * (s - r) = m * s - m * r
      BY <1>1
<1>4. m * r <= m * s
      BY <1>2, <1>3
<1>5. (2 * m) * s = 2 * (m * s)
      BY <1>1
<1> QED
    BY <1>2, <1>4, <1>5

\* A retry: the context was not done when the last sleep began, so that sleep
\* and the ones before are bounded by its limit.
LEMMA StepRetry ==
    ASSUME IInv, Retry
    PROVE  IInv'
<1> DEFINE x == multiplier * SecondInMillis
<1>l. PICK l \in Nat : l = limit
      BY Rates DEF IInv
<1>0. /\ waited \in Nat /\ multiplier \in Nat \ {0} /\ SecondInMillis \in Nat \ {0}
      /\ waited <= l /\ x <= waited + SecondInMillis
      BY <1>l, MetricsAssumption DEF IInv, TypeOK, Slept, Retry, contextDone
<1>1. PICK r \in 0 .. SecondInMillis - 1 : waited' = waited + (multiplier * r + x)
      BY DEF Retry, calculateBackoff
<1>2. /\ multiplier * r \in Nat /\ x \in Nat
      /\ multiplier * r + x <= 2 * x /\ x <= multiplier * r + x
      /\ (2 * multiplier) * SecondInMillis = 2 * x
      BY <1>0, SleepBounds
<1>3. multiplier' = 2 * multiplier
      BY DEF Retry
<1>8. UNCHANGED << pc, clock, tick, late, measurementFrequency, intervals, stored,
                   skippedInitialReport, sample, disabled, closed, base, acked, tooLong >>
      BY DEF Retry, history, ticker
<1> HIDE DEF x
<1>4. waited' \in Nat /\ multiplier' \in Nat \ {0}
      BY <1>0, <1>1, <1>2, <1>3
<1>5. 2 * x <= waited' + SecondInMillis
      BY <1>0, <1>1, <1>2
<1>6. waited' <= 3 * l + 2 * SecondInMillis
      BY <1>0, <1>1, <1>2
<1>7. Slept'
  <2>1. limit' = l
        BY <1>8, <1>l, Frozen
  <2> QED
      BY <1>2, <1>3, <1>5, <1>6, <2>1 DEF Slept, SendGivesUp
<1>9. TypeOK'
      BY <1>4, <1>8 DEF IInv, TypeOK
<1>10. Windows' = Windows /\ Tiled'
      BY <1>8, SameWindows DEF IInv
<1>11. Ordered'
      BY <1>8, <1>10 DEF IInv, Ordered
<1>12. Recent'
  <2>1. shortEnough' = shortEnough /\ pending' = pending
        BY <1>8 DEF shortEnough, wholeSeconds, pending
  <2> QED
      BY <1>8, <2>1, Frozen DEF IInv, Recent, Sent, Punctual
<1> QED
    BY <1>7, <1>9, <1>10, <1>11, <1>12 DEF IInv

\* A measurement that fits in its period does not overrun it.
LEMMA NoOverrun ==
    ASSUME IInv, measurementFits
    PROVE  ~mayOverrun
<1>1. PICK l \in Nat, f \in Nat, w \in Nat :
         l = limit /\ f = measurementFrequency /\ w = waited
      BY Rates DEF IInv, TypeOK
<1>2. w <= 3 * l + 2 * SecondInMillis /\ 4 * l + 2 * SecondInMillis < f
      BY <1>1 DEF IInv, Slept, SendGivesUp, measurementFits
<1>3. w + l < f
      BY <1>1, <1>2, MetricsAssumption
<1> QED
    BY <1>1, <1>3 DEF mayOverrun

\* Time passes; no window reaches the new time.
LEMMA StepTick ==
    ASSUME IInv, Tick
    PROVE  IInv'
<1>0. /\ clock \in Nat /\ stored \in Nat /\ base \in Nat /\ sample \in Nat /\ intervals \in Nat
      /\ stored <= clock /\ MaxClock \in Nat /\ clock <= MaxClock
      /\ pc # "start"
      BY MetricsAssumption DEF IInv, TypeOK, Times, Ordered, Tick
<1>1. /\ UNCHANGED << pc, measurementFrequency, intervals, stored, skippedInitialReport,
                      sample, multiplier, waited, disabled, closed, base, acked, tooLong >>
      /\ tick' = TRUE
      /\ late' = (pc = "send")
      /\ clock' = IF clock < MaxClock THEN clock + 1 ELSE clock
      BY DEF Tick, history, sendVars
<1>2. clock' \in Times /\ clock' \in Nat /\ clock <= clock' /\ clock' <= clock + 1
      BY <1>0, <1>1 DEF Times
<1>3. TypeOK'
      BY <1>1, <1>2 DEF IInv, TypeOK
<1>4. Windows' = Windows
      BY <1>1 DEF Windows
<1>5. Ordered'
      BY <1>0, <1>1, <1>2, <1>4 DEF IInv, Ordered
<1>6. Tiled'
  <2> SUFFICES ASSUME NEW t \in base + 1 .. clock'
               PROVE  IF t <= stored THEN \E w \in Over(t) : Over(t) = {w} ELSE Over(t) = {}
      BY <1>1, <1>4 DEF Tiled, Over
  <2>1. CASE t \in base + 1 .. clock
        BY <2>1 DEF IInv, Tiled
  <2>2. CASE t \notin base + 1 .. clock
    <3>1. t \in Int /\ clock < t
          BY <1>0, <1>2, <2>2
    <3>2. ~(t <= stored)
          BY <1>0, <3>1
    <3>3. \A w \in Windows : w[2] \in Nat /\ w[2] <= stored
          BY MetricsAssumption DEF IInv, TypeOK, Times, Windows, Ordered
    <3>4. Over(t) = {}
          BY <1>0, <3>1, <3>3 DEF Over
    <3> QED
        BY <3>2, <3>4
  <2> QED
      BY <2>1, <2>2
<1>7. Sent'
  <2>1. shortEnough' = shortEnough
        BY <1>1 DEF shortEnough, wholeSeconds
  <2> QED
      BY <1>0, <1>1, <1>2, <2>1 DEF IInv, Recent, Sent
<1>8. ASSUME measurementFits'
      PROVE  Punctual'
  <2>1. measurementFits /\ Punctual
        BY <1>1, <1>8, Frozen DEF IInv, Recent
  <2>2. pc # "send" /\ ~tick
        BY <2>1, NoOverrun DEF Tick, Punctual
  <2>3. pending = 0 /\ pending' = 1
        BY <1>1, <2>2 DEF pending
  <2>4. pc' # "send" /\ ~late'
        BY <1>1, <2>2
  <2> QED
      BY <1>0, <1>1, <1>2, <2>1, <2>3, <2>4 DEF Punctual
<1>9. Slept'
      BY <1>1, Frozen DEF IInv, Slept, SendGivesUp
<1> QED
    BY <1>3, <1>5, <1>6, <1>7, <1>8, <1>9 DEF IInv, Recent

\* The steps that leave the measurements alone, the end of the loop included.
LEMMA StepOther ==
    ASSUME IInv,
           UNCHANGED << clock, late, measurementFrequency, intervals, stored,
                        skippedInitialReport, sample, multiplier, waited, base, acked,
                        tooLong >>,
           pc' = "returned" \/ UNCHANGED << pc, tick >>,
           tick' \in BOOLEAN, disabled' \in BOOLEAN, closed' \in BOOLEAN
    PROVE  IInv'
<1>1. Windows' = Windows /\ Tiled'
      BY SameWindows DEF IInv
<1>2. TypeOK'
      BY DEF IInv, TypeOK
<1>3. Ordered'
      BY <1>1 DEF IInv, Ordered
<1>4. Recent'
  <2>1. shortEnough' = shortEnough
        BY DEF shortEnough, wholeSeconds
  <2>2. CASE pc' = "returned"
        BY <2>2, Frozen DEF IInv, Recent, Sent, Punctual
  <2>3. CASE UNCHANGED << pc, tick >>
        BY <2>1, <2>3, Frozen DEF IInv, Recent, Sent, Punctual, pending
  <2> QED
      BY <2>2, <2>3
<1>5. Slept'
      BY Frozen DEF IInv, Slept, SendGivesUp
<1> QED
    BY <1>1, <1>2, <1>3, <1>4, <1>5 DEF IInv

\* Every step preserves the invariant.
LEMMA StepInv ==
    ASSUME IInv, [Next]_vars
    PROVE  IInv'
<1>0. tick \in BOOLEAN /\ disabled \in BOOLEAN /\ closed \in BOOLEAN
      BY DEF IInv, TypeOK
<1>1. ASSUME measure, UNCHANGED << clock, late, measurementFrequency, disabled, closed >>,
             \/ pc = "start" /\ tick' = tick
             \/ pc = "select" /\ tick /\ tick' = FALSE
      PROVE  IInv'
      BY <1>1, SampleToSend, SampleTooLong, FailToSample DEF measure
<1>2. CASE Start
      BY <1>1, <1>2 DEF Start, ticker
<1>3. CASE LoopTick
  <2>1. CASE loopReturns
        BY <1>0, <1>3, <2>1, StepOther DEF LoopTick, sendVars, history
  <2>2. CASE ~loopReturns
    <3>1. /\ measure /\ UNCHANGED << clock, late, measurementFrequency, disabled, closed >>
          /\ pc = "select" /\ tick /\ tick' = FALSE
          BY <1>3, <2>2 DEF LoopTick
    <3> QED
        BY <1>1, <3>1
  <2> QED
      BY <2>1, <2>2
<1>4. CASE Disable \/ Close
      BY <1>0, <1>4, StepOther DEF Disable, Close, sendVars, history, ticker
<1>5. CASE UNCHANGED vars
      BY <1>0, <1>5, StepOther DEF vars, sendVars, history, ticker
<1> QED
    BY <1>2, <1>3, <1>4, <1>5, StepSendOK, StepSendFails, StepRetry, StepTick
    DEF Next, LoopStep

\* The loop starts without samples.
LEMMA InitInv ==
    ASSUME Init
    PROVE  IInv
<1> USE MetricsAssumption DEF Init, NoSample
<1>1. TypeOK
  <2>1. 0 \in Times /\ 1 \in Times /\ 1 \in 1 .. MaxIntervals
        BY DEF Times
  <2>2. /\ pc \in {"start", "send", "select", "returned"} /\ tick \in BOOLEAN
        /\ late \in BOOLEAN /\ measurementFrequency \in Frequencies
        /\ skippedInitialReport \in BOOLEAN /\ disabled \in BOOLEAN /\ closed \in BOOLEAN
        BY Zenon
  <2>3. /\ clock \in Times /\ intervals \in 1 .. MaxIntervals
        /\ stored \in Times /\ sample \in Times /\ base \in Times
        BY <2>1
  <2>4. multiplier \in Nat \ {0} /\ waited \in Nat
        OBVIOUS
  <2>5. acked \subseteq Times \X Times /\ tooLong \subseteq Times \X Times
        OBVIOUS
  <2> QED
      BY <2>2, <2>3, <2>4, <2>5 DEF TypeOK
<1>2. Windows = {}
      BY DEF Windows
<1>3. Ordered /\ Recent
      BY <1>2 DEF Ordered, Recent, Sent, Punctual
<1>4. Tiled
      BY <1>2 DEF Tiled, Over
<1>5. Slept
  <2>1. limit \in Nat
        BY <1>1, Rates
  <2> QED
      BY <2>1 DEF Slept, SendGivesUp
<1> QED
    BY <1>1, <1>3, <1>4, <1>5 DEF IInv

\* The invariant holds in every state of the metrics loop.
THEOREM MetricsInvariance == Spec => []IInv
BY InitInv, StepInv, PTL DEF Spec

\* Every variable keeps its type; the number of intervals is never zero.
THEOREM MetricsTyped == Spec => []TypeOK
<1>1. IInv => TypeOK
      BY DEF IInv
<1> QED
    BY <1>1, MetricsInvariance, PTL

\* Whatever measurements and reports fail, the reported windows of the counters
\* and those too long to be sent tile the time since the first sample: no growth
\* is lost and none is reported twice.
THEOREM MetricsTile == Spec => []WindowsTile
<1>1. IInv => WindowsTile
      BY DEF IInv, Tiled, Over, Windows, WindowsTile
<1> QED
    BY <1>1, MetricsInvariance, PTL

\* What w periods of f take is covered by i intervals of q seconds, each of s, and
\* i times the fraction that the division cut off.
LEMMA CutSeconds ==
    ASSUME NEW f \in Nat, NEW s \in Nat \ {0}, NEW w \in Int, NEW i \in Nat, w <= i
    PROVE  w * f <= ((f \div s) * i) * s + i * (f % s)
<1>1. PICK q \in Nat, r \in Nat : q = f \div s /\ r = f % s /\ f = s * q + r
      OBVIOUS
<1>2. (i - w) * f \in Nat
      OBVIOUS
<1>3. (i - w) * f = i * f - w * f
      OBVIOUS
<1>4. i * f \in Int /\ w * f \in Int
      OBVIOUS
<1>5. w * f <= i * f
      BY <1>2, <1>3, <1>4
<1>6. i * f = (q * i) * s + i * r
      BY <1>1
<1> QED
    BY <1>1, <1>5, <1>6

\* Where a measurement fits in its period, a report gives no duration shorter than
\* the time in which its counters grew by more than the fractions of a second that
\* were cut off, for every frequency, timeout and number of failed measurements.
THEOREM DurationsCover == Spec => []DurationCoversWindow
<1>1. IInv => DurationCoversWindow
  <2> SUFFICES ASSUME IInv, pc = "send", measurementFits
               PROVE  (sample - stored) * measurementFrequency
                         <= duration * SecondInMillis
                              + intervals * (measurementFrequency % SecondInMillis)
      BY DEF DurationCoversWindow
  <2>1. sample - stored <= intervals
        BY DEF IInv, Recent, Punctual
  <2>2. /\ measurementFrequency \in Nat /\ intervals \in Nat
        /\ sample - stored \in Int /\ SecondInMillis \in Nat \ {0}
        BY Rates, MetricsAssumption DEF IInv, TypeOK, Times
  <2> QED
      BY <2>1, <2>2, CutSeconds DEF duration, wholeSeconds
<1> QED
    BY <1>1, MetricsInvariance, PTL

\* send ends: its sleeps, which double, stay below three times the timeout, or
\* the period if that is shorter, and two seconds, for every timeout and period.
THEOREM RetriesBounded == Spec => []SendGivesUp
<1>1. IInv => SendGivesUp
      BY DEF IInv, Slept
<1> QED
    BY <1>1, MetricsInvariance, PTL
=============================================================================
