-------------------------- MODULE AnimatedFramesProofs --------------------------
(***************************************************************************)
(* Theorems about AnimatedFrames for any caps, clocks and durations: the   *)
(* two loops, which count frames, compute durations and take alpha in      *)
(* different ways, add exactly the frames the caps allow, in step with     *)
(* their alpha, at exact times.                                            *)
(***************************************************************************)
EXTENDS AnimatedFrames, SequenceTheorems, TLAPS

TypeOK ==
  /\ format \in {"avif", "jxl"}
  /\ pixels \in Nat \ {0}
  /\ clock \in [ticks : Nat \ {0}, per : Nat \ {0}]
  /\ format = "avif" => clock.per = 1
  /\ alpha \in BOOLEAN
  /\ pc \in {"color", "next", "image", "too_many", "too_long", "failed", "assembled"}
  /\ format = "avif" => pc \notin {"color", "image"}
  /\ format = "jxl" => ~alpha
  /\ frame_count \in Nat
  /\ durations \in Seq(Nat)
  /\ alphas \in Seq(Nat)
  /\ starts \in Seq(Nat)
  /\ Len(durations) = Len(starts)
  /\ timestamp_ms \in 0..MaxTimestamp

(* What was counted is what was added, and the caps are looked at in time. *)
CountInv ==
  /\ pc \in {"color", "next", "image"} => frame_count = Added
  /\ Added <= MaxFrames /\ Added <= MaxPixels \div pixels
  /\ pc = "image" => Added + 1 <= MaxFrames /\ Added + 1 <= MaxPixels \div pixels
  /\ pc = "too_many" => Added + 1 > MaxFrames \/ Added + 1 > MaxPixels \div pixels

(* The timeline stands where the last frame ends.                          *)
TimeInv ==
  /\ Added > 0 => starts[1] = 0
  /\ \A k \in 2..Added : starts[k] = starts[k - 1] + Exact(durations[k - 1])
  /\ pc # "too_long" => timestamp_ms = Finish
  /\ pc = "too_long" => Finish > MaxTimestamp

IInv == TypeOK /\ CountInv /\ AlphaInStep /\ TimeInv
-----------------------------------------------------------------------------
(* Division.                                                               *)
LEMMA QuotientAndRest ==
  ASSUME NEW x \in Nat, NEW t \in Nat \ {0}
  PROVE  /\ x \div t \in Nat /\ x % t \in 0..(t - 1) /\ x % t \in Nat
         /\ x = t * (x \div t) + (x % t)
OBVIOUS

LEMMA QuotientIs ==
  ASSUME NEW x \in Nat, NEW t \in Nat \ {0}, NEW y \in Nat, NEW u \in 0..(t - 1), x = t * y + u
  PROVE  x \div t = y
<1> DEFINE q == x \div t
           r == x % t
<1>1. q \in Nat /\ r \in 0..(t - 1) /\ x = t * q + r
  BY QuotientAndRest
<1> HIDE DEF q, r
<1>2. ASSUME q > y PROVE FALSE
  <2>1. q - y \in Nat /\ q - y >= 1
    BY <1>1, <1>2
  <2>2. t * (q - y) >= t
    BY <2>1
  <2>3. t * (q - y) = t * q - t * y
    BY <1>1
  <2>4. QED BY <1>1, <2>2, <2>3
<1>3. ASSUME q < y PROVE FALSE
  <2>1. y - q \in Nat /\ y - q >= 1
    BY <1>1, <1>3
  <2>2. t * (y - q) >= t
    BY <2>1
  <2>3. t * (y - q) = t * y - t * q
    BY <1>1
  <2>4. QED BY <1>1, <2>2, <2>3
<1>4. q = y
  BY <1>1, <1>2, <1>3
<1>5. QED BY <1>4 DEF q

(* As often as the smaller number goes into the larger.                    *)
LEMMA FitsByQuotient ==
  ASSUME NEW a \in Nat, NEW p \in Nat \ {0}, NEW m \in Nat
  PROVE  a * p <= m <=> a <= m \div p
<1> DEFINE q == m \div p
           r == m % p
<1>1. q \in Nat /\ r \in 0..(p - 1) /\ m = p * q + r
  BY QuotientAndRest
<1> HIDE DEF q, r
<1>2. ASSUME a <= q PROVE a * p <= m
  <2>1. p * (q - a) >= 0
    <3>1. q - a \in Nat
      BY <1>1, <1>2
    <3>2. QED BY <3>1
  <2>2. p * (q - a) = p * q - a * p
    BY <1>1
  <2>3. QED BY <1>1, <2>1, <2>2
<1>3. ASSUME a > q PROVE a * p > m
  <2>1. p * (a - q) >= p
    <3>1. a - q \in Nat /\ a - q >= 1
      BY <1>1, <1>3
    <3>2. QED BY <3>1
  <2>2. p * (a - q) = a * p - p * q
    BY <1>1
  <2>3. QED BY <1>1, <2>1, <2>2
<1>4. a * p <= m <=> a <= q
  BY <1>1, <1>2, <1>3
<1>5. QED BY <1>4 DEF q

(* Both ways of computing a frame's duration are the exact one: whole      *)
(* seconds and what is left of one are the milliseconds of it all.         *)
LEMMA DurationIsExact ==
  ASSUME TypeOK, NEW ticks \in Nat
  PROVE  DurationMs(ticks) = Exact(ticks) /\ Exact(ticks) \in Nat \ {0}
<1> DEFINE x == ticks * clock.per
           t == clock.ticks
           whole == x * 1000
           left == (x % t) * 1000
           ms == whole \div t
<1>1. x \in Nat /\ t \in Nat \ {0} /\ whole \in Nat
  <2>1. clock.per \in Nat \ {0} /\ clock.ticks \in Nat \ {0}
    BY DEF TypeOK
  <2>2. \A p \in Nat : ticks * p \in Nat /\ (ticks * p) * 1000 \in Nat
    OBVIOUS
  <2>3. QED BY <2>1, <2>2
<1>2. ms \in Nat /\ ms = (x \div t) * 1000 + left \div t
  <2> DEFINE q == x \div t
             r == x % t
             s == left \div t
             u == left % t
             y == q * 1000 + s
  <2>1. whole = x * 1000 /\ left = r * 1000
    OBVIOUS
  <2> HIDE DEF whole, x, t, left
  <2>2. q \in Nat /\ r \in Nat /\ x = t * q + r
    BY <1>1, QuotientAndRest
  <2>3. left \in Nat
    <3> HIDE DEF q, r
    <3>1. QED BY <2>1, <2>2
  <2>4. s \in Nat /\ u \in 0..(t - 1) /\ left = t * s + u
    <3>1. s \in Nat
      BY <1>1, <2>3, QuotientAndRest
    <3>2. u \in 0..(t - 1)
      BY <1>1, <2>3, QuotientAndRest
    <3>3. left = t * s + u
      BY <1>1, <2>3, QuotientAndRest
    <3>4. QED BY <3>1, <3>2, <3>3
  <2> HIDE DEF q, r, s, u
  <2>5. y \in Nat /\ whole = t * y + u
    <3>1. whole = t * (q * 1000) + r * 1000
      BY <1>1, <2>1, <2>2
    <3>2. QED BY <1>1, <2>1, <2>2, <2>4, <3>1
  <2>6. y = (x \div t) * 1000 + left \div t
    BY DEF q, s
  <2> HIDE DEF y
  <2>7. whole \div t = y
    BY <1>1, <2>4, <2>5, QuotientIs
  <2>8. QED BY <2>5, <2>6, <2>7
<1>3. Exact(ticks) = IF ms = 0 THEN 1 ELSE ms
  BY DEF Exact
<1>4. AtLeastOne(ms) = Exact(ticks)
  <2> HIDE DEF ms
  <2>1. QED BY <1>2, <1>3 DEF AtLeastOne
<1>5. ASSUME format = "avif" PROVE DurationMs(ticks) = Exact(ticks)
  <2>1. x = ticks
    BY <1>5 DEF TypeOK
  <2>2. DurationMs(ticks) = AtLeastOne((ticks * 1000) \div t)
    BY <1>5 DEF DurationMs
  <2>3. QED BY <1>4, <2>1, <2>2
<1>6. ASSUME format # "avif" PROVE DurationMs(ticks) = Exact(ticks)
  <2>1. DurationMs(ticks) = AtLeastOne((x \div t) * 1000 + left \div t)
    BY <1>6 DEF DurationMs
  <2>2. QED BY <1>2, <1>4, <2>1
<1>7. Exact(ticks) \in Nat \ {0}
  <2> HIDE DEF ms
  <2>1. QED BY <1>2, <1>3
<1>8. QED BY <1>5, <1>6, <1>7
-----------------------------------------------------------------------------
LEMMA SafetyInit == Init => IInv
<1> SUFFICES ASSUME Init PROVE IInv
  OBVIOUS
<1>1. clock \in [ticks : Nat \ {0}, per : Nat \ {0}] /\ pixels \in Nat \ {0}
  BY FramesAssumption DEF Init
<1>2. durations \in Seq(Nat) /\ alphas \in Seq(Nat) /\ starts \in Seq(Nat)
  BY DEF Init
<1>3. Added = 0 /\ Len(durations) = 0
  BY DEF Init, Added
<1>4. MaxPixels \div pixels \in Nat
  BY <1>1, FramesAssumption, QuotientAndRest
<1>5. TypeOK
  <2>1. timestamp_ms \in 0..MaxTimestamp
    BY FramesAssumption DEF Init
  <2>2. QED BY <1>1, <1>2, <1>3, <2>1 DEF Init, TypeOK, Added
<1>6. CountInv
  BY <1>3, <1>4, FramesAssumption DEF Init, CountInv
<1>7. AlphaInStep
  BY DEF Init, AlphaInStep
<1>8. TimeInv
  BY <1>3 DEF Init, TimeInv, Finish
<1>9. QED BY <1>5, <1>6, <1>7, <1>8 DEF IInv

(* A file given up as too long really is.                                  *)
LEMMA TooLongIsReal ==
  ASSUME TypeOK, NEW ticks \in Nat, TooLong(ticks)
  PROVE  timestamp_ms + Exact(ticks) > MaxTimestamp
<1>1. DurationMs(ticks) = Exact(ticks) /\ Exact(ticks) \in Nat \ {0}
  BY DurationIsExact
<1>2. timestamp_ms \in Nat /\ MaxTimestamp \in Nat
  BY FramesAssumption DEF TypeOK
<1>3. CASE DurationMs(ticks) > MaxTimestamp - timestamp_ms
  BY <1>1, <1>2, <1>3
<1>4. CASE format = "jxl" /\ (ticks * clock.per) \div clock.ticks > MaxTimestamp \div 1000
  <2> DEFINE x == ticks * clock.per
             t == clock.ticks
             q == x \div t
             left == (x % t) * 1000
             rest == left \div t
             y == q * 1000 + rest
  <2>1. x \in Nat /\ t \in Nat \ {0}
    <3>1. clock.per \in Nat /\ clock.ticks \in Nat \ {0}
      BY DEF TypeOK
    <3>2. QED BY <3>1
  <2>2. DurationMs(ticks) = AtLeastOne(y)
    BY <1>4 DEF DurationMs
  <2> HIDE DEF x, t
  <2>3. q \in Nat /\ x % t \in Nat
    BY <2>1, QuotientAndRest
  <2>4. left \in Nat
    BY <2>3
  <2> HIDE DEF left
  <2>5. rest \in Nat
    BY <2>1, <2>4, QuotientAndRest
  <2>6. q > MaxTimestamp \div 1000
    BY <1>4 DEF x, t
  <2> HIDE DEF q, rest
  <2>7. MaxTimestamp \div 1000 \in Nat
    BY <1>2, QuotientAndRest
  <2>8. q * 1000 > MaxTimestamp
    <3>1. ~(q <= MaxTimestamp \div 1000)
      BY <2>3, <2>6, <2>7
    <3>2. q * 1000 <= MaxTimestamp <=> q <= MaxTimestamp \div 1000
      BY <1>2, <2>3, FitsByQuotient
    <3>3. QED BY <1>2, <2>3, <3>1, <3>2
  <2>9. y > MaxTimestamp /\ y \in Nat
    BY <1>2, <2>3, <2>5, <2>8
  <2> HIDE DEF y
  <2>10. DurationMs(ticks) > MaxTimestamp
    BY <1>2, <2>2, <2>9 DEF AtLeastOne
  <2>11. QED BY <1>1, <1>2, <2>10
<1>5. QED BY <1>3, <1>4 DEF TooLong

LEMMA AddFrameKeeps ==
  ASSUME TypeOK, TimeInv, pc # "too_long", NEW ticks \in Nat,
         AddFrame(ticks, "next"), UNCHANGED fileVars
  PROVE  /\ durations' \in Seq(Nat) /\ starts' \in Seq(Nat)
         /\ Len(durations') = Len(starts') /\ Added' = Added + 1
         /\ timestamp_ms' \in 0..MaxTimestamp
         /\ pc' \in {"next", "too_long"}
         /\ TimeInv'
<1>1. /\ durations' = Append(durations, ticks) /\ starts' = Append(starts, timestamp_ms)
      /\ clock' = clock /\ format' = format
  BY DEF AddFrame, fileVars
<1>2. durations \in Seq(Nat) /\ starts \in Seq(Nat) /\ Len(durations) = Len(starts) /\ Added \in Nat
      /\ Added = Len(starts)
  BY DEF TypeOK, Added
<1>3. timestamp_ms \in Nat /\ MaxTimestamp \in Nat /\ timestamp_ms <= MaxTimestamp
  BY FramesAssumption DEF TypeOK
<1>4. DurationMs(ticks) = Exact(ticks) /\ Exact(ticks) \in Nat \ {0}
  BY DurationIsExact
<1>5. durations' \in Seq(Nat) /\ starts' \in Seq(Nat)
  BY <1>1, <1>2, <1>3, AppendProperties
<1>6. Len(durations') = Added + 1 /\ Len(starts') = Added + 1 /\ Added' = Added + 1
  BY <1>1, <1>2, <1>3, AppendProperties DEF Added
<1>7. /\ \A k \in 1..Added : starts'[k] = starts[k] /\ durations'[k] = durations[k]
      /\ starts'[Added + 1] = timestamp_ms /\ durations'[Added + 1] = ticks
  BY <1>1, <1>2, <1>3, AppendProperties
<1>8. \A k : Exact(durations[k - 1])' = Exact(durations'[k - 1])
  BY <1>1 DEF Exact
<1>9. Finish' = timestamp_ms + Exact(ticks)
  BY <1>2, <1>6, <1>7, <1>1 DEF Finish, Exact
<1>10. timestamp_ms' \in 0..MaxTimestamp /\ pc' \in {"next", "too_long"}
       /\ (pc' # "too_long" => timestamp_ms' = Finish')
       /\ (pc' = "too_long" => Finish' > MaxTimestamp)
  <2>1. CASE TooLong(ticks)
    <3>1. pc' = "too_long" /\ timestamp_ms' = timestamp_ms
      BY <2>1 DEF AddFrame
    <3>2. QED BY <1>3, <1>9, <2>1, <3>1, TooLongIsReal
  <2>2. CASE ~TooLong(ticks)
    <3>1. pc' = "next" /\ timestamp_ms' = timestamp_ms + DurationMs(ticks)
      BY <2>2 DEF AddFrame
    <3>2. ~(DurationMs(ticks) > MaxTimestamp - timestamp_ms)
      BY <2>2 DEF TooLong
    <3>3. QED BY <1>3, <1>4, <1>9, <3>1, <3>2
  <2>3. QED BY <2>1, <2>2
<1>11. Added' > 0 => starts'[1] = 0
  <2>1. CASE Added = 0
    BY <1>7, <2>1 DEF TimeInv, Finish
  <2>2. CASE Added > 0
    BY <1>2, <1>7, <2>2 DEF TimeInv
  <2>3. QED BY <1>2, <2>1, <2>2
<1>12. ASSUME NEW k \in 2..(Added + 1)
       PROVE  starts'[k] = starts'[k - 1] + Exact(durations'[k - 1])
  <2>1. CASE k = Added + 1
    <3>1. Added > 0 /\ k - 1 = Added /\ Added \in 1..Added
      BY <1>2, <2>1
    <3>2. timestamp_ms = starts[Added] + Exact(durations[Added])
      BY <3>1 DEF TimeInv, Finish
    <3>3. QED BY <1>7, <2>1, <3>1, <3>2
  <2>2. CASE k # Added + 1
    <3>1. k \in 2..Added /\ k \in 1..Added /\ k - 1 \in 1..Added
      BY <1>2, <2>2
    <3>2. starts[k] = starts[k - 1] + Exact(durations[k - 1])
      BY <3>1 DEF TimeInv
    <3>3. QED BY <1>7, <3>1, <3>2
  <2>3. QED BY <2>1, <2>2
<1>13. TimeInv'
  <2>1. \A k \in 2..(Added + 1) : (starts'[k] = starts'[k - 1] + Exact(durations[k - 1])')
    BY <1>8, <1>12
  <2>2. QED BY <1>6, <1>10, <1>11, <2>1 DEF TimeInv
<1>14. QED BY <1>5, <1>6, <1>10, <1>13

(* A loop that stops keeps everything but its count of frames.             *)
LEMMA StopKeeps ==
  ASSUME IInv, NEW why \in {"too_many", "failed", "next", "image"}, Stop(why),
         frame_count' \in Nat, pc # "too_long",
         format = "avif" => why # "image",
         alpha => why # "next",
         why \in {"next", "image"} => frame_count' = Added,
         why = "image" => Added + 1 <= MaxFrames /\ Added + 1 <= MaxPixels \div pixels,
         why = "too_many" => Added + 1 > MaxFrames \/ Added + 1 > MaxPixels \div pixels
  PROVE  IInv'
<1>1. /\ UNCHANGED <<format, pixels, clock, alpha, profile, durations, alphas, starts,
                     timestamp_ms, iccp>>
      /\ pc' = why
  BY DEF Stop, fileVars
<1>2. Added' = Added
  BY <1>1 DEF Added
<1>3. TypeOK'
  BY <1>1 DEF IInv, TypeOK
<1>4. CountInv'
  BY <1>1, <1>2 DEF IInv, CountInv
<1>5. AlphaInStep'
  BY <1>1 DEF IInv, AlphaInStep, TypeOK
<1>6. TimeInv'
  <2>1. Finish' = Finish
    BY <1>1, <1>2 DEF Finish, Exact
  <2>2. \A k : Exact(durations[k - 1])' = Exact(durations[k - 1])
    BY <1>1 DEF Exact
  <2>3. QED BY <1>1, <1>2, <2>1, <2>2 DEF IInv, TimeInv
<1>7. QED BY <1>3, <1>4, <1>5, <1>6 DEF IInv

LEMMA SafetyStep == IInv /\ [Next]_vars => IInv'
<1> SUFFICES ASSUME IInv, [Next]_vars PROVE IInv'
  OBVIOUS
<1>1. Added \in Nat /\ frame_count \in Nat /\ MaxFrames \in Nat /\ MaxPixels \div pixels \in Nat
  <2>1. pixels \in Nat \ {0} /\ MaxPixels \in Nat /\ MaxFrames \in Nat
    BY FramesAssumption DEF IInv, TypeOK
  <2>2. MaxPixels \div pixels \in Nat
    BY <2>1, QuotientAndRest
  <2>3. QED BY <2>1, <2>2 DEF IInv, TypeOK, Added
<1>2. ASSUME NEW ticks \in Durations, NEW alphaTicks \in Durations, AvifFrame(ticks, alphaTicks)
      PROVE  IInv'
  <2>1. pc = "next" /\ format = "avif" /\ frame_count' = frame_count + 1 /\ frame_count = Added
    BY <1>2 DEF AvifFrame, IInv, CountInv
  <2>2. ticks \in Nat /\ alphaTicks \in Nat
    BY FramesAssumption
  <2>3. CASE CountedTooMany(frame_count + 1)
    <3>1. Stop("too_many")
      BY <1>2, <2>3 DEF AvifFrame
    <3>2. Added + 1 > MaxFrames \/ Added + 1 > MaxPixels \div pixels
      BY <2>1, <2>3 DEF CountedTooMany
    <3>3. QED BY <1>1, <2>1, <3>1, <3>2, StopKeeps
  <2>4. CASE ~CountedTooMany(frame_count + 1) /\ alpha /\ ~SameDuration(ticks, alphaTicks)
    <3>1. Stop("failed")
      BY <1>2, <2>4 DEF AvifFrame
    <3>2. QED BY <1>1, <2>1, <3>1, StopKeeps
  <2>5. CASE ~CountedTooMany(frame_count + 1) /\ (alpha => SameDuration(ticks, alphaTicks))
    <3>1. /\ AddFrame(ticks, "next") /\ UNCHANGED fileVars
          /\ alphas' = IF alpha THEN Append(alphas, ticks) ELSE alphas
      BY <1>2, <2>5 DEF AvifFrame, SameDuration
    <3>2. UNCHANGED <<format, pixels, clock, alpha, profile>>
      BY <3>1 DEF fileVars
    <3>3. /\ durations' \in Seq(Nat) /\ starts' \in Seq(Nat)
          /\ Len(durations') = Len(starts') /\ Added' = Added + 1
          /\ timestamp_ms' \in 0..MaxTimestamp
          /\ pc' \in {"next", "too_long"}
          /\ TimeInv'
      BY <2>1, <2>2, <3>1, AddFrameKeeps DEF IInv
    <3>4. alphas' \in Seq(Nat)
      BY <2>2, <3>1, AppendProperties DEF IInv, TypeOK
    <3>5. TypeOK'
      BY <1>1, <2>1, <3>2, <3>3, <3>4 DEF IInv, TypeOK
    <3>6. CountInv'
      <4>1. Added + 1 <= MaxFrames /\ Added + 1 <= MaxPixels \div pixels
        BY <1>1, <2>1, <2>5 DEF CountedTooMany
      <4>2. QED BY <1>1, <2>1, <3>2, <3>3, <4>1 DEF CountInv
    <3>7. AlphaInStep'
      <4>1. durations' = Append(durations, ticks)
        BY <3>1 DEF AddFrame
      <4>2. QED BY <2>1, <3>1, <3>2, <4>1 DEF IInv, TypeOK, AlphaInStep
    <3>8. QED BY <3>3, <3>5, <3>6, <3>7 DEF IInv
  <2>6. QED BY <2>3, <2>4, <2>5
<1>3. ASSUME AvifAlphaFails PROVE IInv'
  BY <1>1, <1>3, StopKeeps DEF AvifAlphaFails
<1>4. ASSUME NEW extra \in BOOLEAN, AvifEnd(extra) PROVE IInv'
  <2>1. /\ UNCHANGED <<format, pixels, clock, alpha, profile, frame_count, durations, starts,
                       timestamp_ms, iccp>>
        /\ alphas' = IF extra THEN Append(alphas, 0) ELSE alphas
        /\ pc' \in {"assembled", "failed"} /\ format = "avif" /\ pc = "next"
        /\ pc' = "assembled" => (alpha => ~extra)
        /\ extra => alpha
    BY <1>4 DEF AvifEnd, AlphaOver, fileVars
  <2>2. Added' = Added
    BY <2>1 DEF Added
  <2>3. TypeOK'
    <3>1. alphas' \in Seq(Nat)
      BY <2>1, AppendProperties DEF IInv, TypeOK
    <3>2. QED BY <2>1, <3>1 DEF IInv, TypeOK
  <2>4. CountInv'
    BY <2>1, <2>2 DEF IInv, CountInv
  <2>5. AlphaInStep'
    BY <2>1 DEF IInv, AlphaInStep, TypeOK
  <2>6. TimeInv'
    <3>1. Finish' = Finish
      BY <2>1, <2>2 DEF Finish, Exact
    <3>2. \A k : Exact(durations[k - 1])' = Exact(durations[k - 1])
      BY <2>1 DEF Exact
    <3>3. QED BY <2>1, <2>2, <3>1, <3>2 DEF IInv, TimeInv
  <2>7. QED BY <2>3, <2>4, <2>5, <2>6 DEF IInv
<1>5. ASSUME JxlColor PROVE IInv'
  <2>1. pc = "color" /\ frame_count' = frame_count /\ frame_count = Added
    BY <1>5 DEF JxlColor, IInv, CountInv
  <2>2. ~alpha
    BY <2>1 DEF IInv, TypeOK
  <2>3. CASE Stop("failed")
    BY <1>1, <2>1, <2>3, StopKeeps
  <2>4. CASE Stop("next")
    BY <1>1, <2>1, <2>2, <2>4, StopKeeps
  <2>5. QED BY <1>5, <2>3, <2>4 DEF JxlColor
<1>6. ASSUME JxlBuffer PROVE IInv'
  <2>1. pc = "next" /\ format = "jxl" /\ frame_count' = frame_count /\ frame_count = Added
    BY <1>6 DEF JxlBuffer, IInv, CountInv
  <2>2. CASE LooksTooMany(frame_count)
    <3>1. Stop("too_many")
      BY <1>6, <2>2 DEF JxlBuffer
    <3>2. Added + 1 > MaxFrames \/ Added + 1 > MaxPixels \div pixels
      BY <1>1, <2>1, <2>2 DEF LooksTooMany
    <3>3. QED BY <1>1, <2>1, <3>1, <3>2, StopKeeps
  <2>3. CASE ~LooksTooMany(frame_count)
    <3>1. Stop("image")
      BY <1>6, <2>3 DEF JxlBuffer
    <3>2. Added + 1 <= MaxFrames /\ Added + 1 <= MaxPixels \div pixels
      BY <1>1, <2>1, <2>3 DEF LooksTooMany
    <3>3. QED BY <1>1, <2>1, <3>1, <3>2, StopKeeps
  <2>4. QED BY <2>2, <2>3
<1>7. ASSUME NEW ticks \in Durations, JxlImage(ticks) PROVE IInv'
  <2>1. /\ pc = "image" /\ frame_count' = frame_count + 1 /\ frame_count = Added
        /\ Added + 1 <= MaxFrames /\ Added + 1 <= MaxPixels \div pixels
        /\ AddFrame(ticks, "next") /\ UNCHANGED fileVars /\ alphas' = alphas
    BY <1>7 DEF JxlImage, IInv, CountInv
  <2>2. UNCHANGED <<format, pixels, clock, alpha, profile>>
    BY <2>1 DEF fileVars
  <2>3. ticks \in Nat
    BY FramesAssumption
  <2>4. format = "jxl" /\ ~alpha
    BY <2>1 DEF IInv, TypeOK
  <2>5. /\ durations' \in Seq(Nat) /\ starts' \in Seq(Nat)
        /\ Len(durations') = Len(starts') /\ Added' = Added + 1
        /\ timestamp_ms' \in 0..MaxTimestamp
        /\ pc' \in {"next", "too_long"}
        /\ TimeInv'
    BY <2>1, <2>3, AddFrameKeeps DEF IInv
  <2>6. TypeOK'
    BY <1>1, <2>1, <2>2, <2>4, <2>5 DEF IInv, TypeOK
  <2>7. CountInv'
    BY <1>1, <2>1, <2>2, <2>5 DEF CountInv
  <2>8. AlphaInStep'
    BY <2>1, <2>2, <2>4 DEF IInv, AlphaInStep
  <2>9. QED BY <2>5, <2>6, <2>7, <2>8 DEF IInv
<1>8. ASSUME JxlEnd PROVE IInv'
  <2>1. /\ UNCHANGED <<format, pixels, clock, alpha, profile, frame_count, durations, alphas,
                       starts, timestamp_ms>>
        /\ pc' \in {"assembled", "failed"} /\ format = "jxl" /\ pc = "next"
    BY <1>8 DEF JxlEnd, fileVars
  <2>2. Added' = Added
    BY <2>1 DEF Added
  <2>3. TypeOK'
    BY <2>1 DEF IInv, TypeOK
  <2>4. CountInv'
    BY <2>1, <2>2 DEF IInv, CountInv
  <2>5. AlphaInStep'
    BY <2>1 DEF IInv, AlphaInStep, TypeOK
  <2>6. TimeInv'
    <3>1. Finish' = Finish
      BY <2>1, <2>2 DEF Finish, Exact
    <3>2. \A k : Exact(durations[k - 1])' = Exact(durations[k - 1])
      BY <2>1 DEF Exact
    <3>3. QED BY <2>1, <2>2, <3>1, <3>2 DEF IInv, TimeInv
  <2>7. QED BY <2>3, <2>4, <2>5, <2>6 DEF IInv
<1>9. ASSUME Fail PROVE IInv'
  BY <1>1, <1>9, StopKeeps DEF Fail
<1>10. ASSUME UNCHANGED vars PROVE IInv'
  <2>1. UNCHANGED <<format, pixels, clock, alpha, profile, pc, frame_count, durations, alphas,
                    starts, timestamp_ms>>
    BY <1>10 DEF vars, fileVars
  <2>2. TypeOK'
    BY <2>1 DEF IInv, TypeOK
  <2>3. CountInv'
    BY <2>1 DEF IInv, CountInv, Added
  <2>4. AlphaInStep'
    BY <2>1 DEF IInv, AlphaInStep
  <2>5. TimeInv'
    BY <2>1 DEF IInv, TimeInv, Finish, Exact, Added
  <2>6. QED BY <2>2, <2>3, <2>4, <2>5 DEF IInv
<1>11. QED
  BY <1>2, <1>3, <1>4, <1>5, <1>6, <1>7, <1>8, <1>9, <1>10 DEF Next
-----------------------------------------------------------------------------
(* The inductive invariant holds in every state of both loops.             *)
THEOREM Safety == Spec => []IInv
<1>1. Init => IInv
  BY SafetyInit
<1>2. IInv /\ [Next]_vars => IInv'
  BY SafetyStep
<1>3. QED BY <1>1, <1>2, PTL DEF Spec

(* Every variable of the loops keeps its type, the timestamp its 32 bits.  *)
THEOREM TypeCorrect == Spec => []TypeOK
<1>1. IInv => TypeOK
  BY DEF IInv
<1>2. QED BY <1>1, Safety, PTL

(* Whatever the caps and the size of a frame, counting it before the look  *)
(* (convert_animated_avif) and looking before it is counted                *)
(* (convert_animated_jxl) add the same frames: all those that fit, and no  *)
(* other.                                                                  *)
THEOREM CapsHold == Spec => []CapsAreExact
<1>1. ASSUME IInv PROVE CapsAreExact
  <2>1. /\ Added \in Nat /\ Added + 1 \in Nat
        /\ pixels \in Nat \ {0} /\ MaxPixels \in Nat
    BY <1>1, FramesAssumption DEF IInv, TypeOK, Added
  <2>2. \A a \in Nat : a * pixels <= MaxPixels <=> a <= MaxPixels \div pixels
    BY <2>1, FitsByQuotient
  <2>3. /\ Added <= MaxFrames /\ Added <= MaxPixels \div pixels
        /\ pc = "too_many" => Added + 1 > MaxFrames \/ Added + 1 > MaxPixels \div pixels
    BY <1>1 DEF IInv, CountInv
  <2>4. Added * pixels <= MaxPixels
    BY <2>1, <2>2, <2>3
  <2>5. ASSUME Added + 1 > MaxPixels \div pixels PROVE (Added + 1) * pixels > MaxPixels
    <3> DEFINE next == Added + 1
    <3>1. next \in Nat /\ next > MaxPixels \div pixels
      BY <2>1, <2>5
    <3>2. MaxPixels \div pixels \in Nat
      BY <2>1, QuotientAndRest
    <3> HIDE DEF next
    <3>3. ~(next * pixels <= MaxPixels)
      BY <2>2, <3>1, <3>2
    <3>4. next * pixels > MaxPixels
      BY <2>1, <3>1, <3>3
    <3>5. QED BY <3>4 DEF next
  <2>6. QED BY <2>3, <2>4, <2>5 DEF CapsAreExact
<1>2. QED BY <1>1, Safety, PTL

(* The alpha taken from a track of its own is in step with the colour from *)
(* the first frame to the end of both (apply_avif_alpha_frame and the look *)
(* for an extra alpha frame at the end).                                   *)
THEOREM AlphaStaysInStep == Spec => []AlphaInStep
<1>1. IInv => AlphaInStep
  BY DEF IInv
<1>2. QED BY <1>1, Safety, PTL

(* For every clock and every sequence of durations each frame starts when  *)
(* the one before it has had its exact time, and a file is too long only   *)
(* if its timeline really leaves 32 bits.                                  *)
THEOREM TimelineIsExact == Spec => []StartTimes
<1>1. ASSUME IInv PROVE StartTimes
  BY <1>1 DEF IInv, TimeInv, StartTimes
<1>2. QED BY <1>1, Safety, PTL
=============================================================================
