-------------------------- MODULE AudioSink_proofs --------------------------
(***************************************************************************)
(* What the output frames hold, for any streams, rates and lengths of a    *)
(* frame, whatever the callbacks do with the sink.                         *)
(*                                                                         *)
(* A stream is in the sink's list once, so once in render's copy, and a    *)
(* sample heard is of a stream the copy holds no more: each stream comes   *)
(* to an output that has nothing of it.  What it then adds is in order     *)
(* because nearest-frame resampling is monotone, and whole, where the      *)
(* stream is no faster than the sink, because it then reaches every frame. *)
(***************************************************************************)
EXTENDS AudioSink, FiniteSetTheorems, SequenceTheorems, TLAPS

-----------------------------------------------------------------------------
(* Resampling.                                                             *)

LEMMA Quotient ==
  ASSUME NEW a \in Nat, NEW b \in Nat \ {0}
  PROVE  a \div b \in Nat /\ b * (a \div b) <= a /\ a < b * (a \div b) + b
  BY Z3

\* A quotient is known by its bounds.
LEMMA QuotientIs ==
  ASSUME NEW a \in Nat, NEW b \in Nat \ {0}, NEW q \in Nat, b * q <= a, a < b * q + b
  PROVE  a \div b = q
  BY Z3

LEMMA QuotientMonotone ==
  ASSUME NEW a \in Nat, NEW c \in Nat, NEW b \in Nat \ {0}, a <= c
  PROVE  a \div b <= c \div b
<1> DEFINE p == a \div b
           q == c \div b
<1>1. /\ p \in Nat /\ q \in Nat /\ b * p <= a /\ c < b * q + b
  BY Quotient
<1> HIDE DEF p, q
<1>2. b * p < b * (q + 1)
  BY <1>1, Z3
<1>3. p < q + 1
  BY <1>1, <1>2, Z3
<1> QED
  BY <1>1, <1>3 DEF p, q

LEMMA FramesNumber == FRAMES \in Nat \ {0} /\ OUT_RATE \in Nat \ {0}
  BY AudioAssumption

LEMMA WantType ==
  ASSUME NEW r \in Nat
  PROVE  Want(r) \in Nat
<1>1. FRAMES * r \in Nat
  BY FramesNumber
<1>2. FRAMES * r + OUT_RATE - 1 \in Nat
  BY <1>1, FramesNumber
<1> QED
  BY <1>2, FramesNumber, Quotient DEF Want

\* A stream no faster than the sink is asked for no more frames than there are.
LEMMA WantFits ==
  ASSUME NEW r \in Nat, r <= OUT_RATE
  PROVE  Want(r) <= FRAMES
<1> DEFINE a == FRAMES * r + OUT_RATE - 1
           w == Want(r)
<1>1. FRAMES * r \in Nat /\ FRAMES * r <= FRAMES * OUT_RATE /\ FRAMES * OUT_RATE \in Nat
  BY FramesNumber, Z3
<1>2. a \in Nat /\ a < FRAMES * OUT_RATE + OUT_RATE
  BY <1>1, FramesNumber
<1>3. w \in Nat /\ OUT_RATE * w <= a
  BY <1>2, FramesNumber, Quotient DEF Want
<1> HIDE DEF a, w
<1>4. OUT_RATE * w < OUT_RATE * (FRAMES + 1)
  BY <1>1, <1>2, <1>3, FramesNumber, Z3
<1>5. w < FRAMES + 1
  BY <1>3, <1>4, FramesNumber, Z3
<1> QED
  BY <1>3, <1>5, FramesNumber DEF w

LEMMA SourceType ==
  ASSUME NEW want \in Nat, NEW i \in OutFrames
  PROVE  Source(i, want) \in Nat
<1>1. i \in Nat /\ i * want \in Nat
  BY FramesNumber DEF OutFrames
<1> QED
  BY <1>1, FramesNumber, Quotient DEF Source

LEMMA SourceMonotone ==
  ASSUME NEW want \in Nat, NEW i \in OutFrames, NEW j \in OutFrames, i <= j
  PROVE  Source(i, want) <= Source(j, want)
<1>1. i \in Nat /\ j \in Nat
  BY FramesNumber DEF OutFrames
<1>2. i * want \in Nat /\ j * want \in Nat /\ i * want <= j * want
  BY <1>1, Z3
<1> QED
  BY <1>1, <1>2, FramesNumber, QuotientMonotone DEF Source

\* Each of no more frames than there are is the source of some output frame.
LEMMA SourceReachesAll ==
  ASSUME NEW want \in Nat, want <= FRAMES, NEW k \in 0 .. (want - 1)
  PROVE  \E i \in OutFrames : Source(i, want) = k
<1>1. CASE want = FRAMES
  <2>1. k \in OutFrames
    BY <1>1 DEF OutFrames
  <2> QED
    BY <1>1, <2>1 DEF Source
<1>2. CASE want # FRAMES
  <2> DEFINE F == FRAMES
             kf == k * F
             i == (kf + want - 1) \div want
  <2>1. want \in Nat \ {0} /\ F \in Nat \ {0} /\ want < F /\ k \in Nat /\ k <= want - 1
    BY <1>2, FramesNumber
  <2> HIDE DEF F
  <2>2. kf \in Nat
    BY <2>1
  <2> HIDE DEF kf
  <2>3. kf + want - 1 \in Nat
    BY <2>1, <2>2
  <2>4. i \in Nat /\ want * i <= kf + want - 1 /\ kf + want - 1 < want * i + want
    BY <2>1, <2>3, Quotient
  <2> HIDE DEF i
  <2> DEFINE iw == i * want
  <2>5. iw \in Nat /\ iw = want * i
    BY <2>1, <2>4, Z3
  <2> HIDE DEF iw
  <2>6. kf <= iw /\ iw < kf + F
    BY <2>1, <2>2, <2>4, <2>5
  <2>7. iw \div F = k
    <3>1. F * k <= iw /\ iw < F * k + F
      BY <2>1, <2>6, Z3 DEF kf
    <3> QED
      BY <2>1, <2>5, <3>1, QuotientIs
  <2>8. i < F
    <3>1. kf <= (want - 1) * F
      BY <2>1, Z3 DEF kf
    <3>2. (want - 1) * F = want * F - F
      BY <2>1, Z3
    <3>3. kf <= want * F - F /\ want * F \in Nat
      BY <2>1, <3>1, <3>2
    <3>4. want * i < want * F
      BY <2>1, <2>2, <2>4, <3>3
    <3> QED
      BY <2>1, <2>4, <3>4, Z3
  <2>9. i \in OutFrames
    BY <2>1, <2>4, <2>8 DEF OutFrames, F
  <2>10. Source(i, want) = k
    BY <1>2, <2>7 DEF Source, iw, F
  <2> QED
    BY <2>9, <2>10
<1> QED
  BY <1>1, <1>2

-----------------------------------------------------------------------------
(* The list of streams.                                                    *)

Distinct(s) == \A j, k \in 1 .. Len(s) : s[j] = s[k] => j = k

LEMMA Removed ==
  ASSUME NEW S, NEW s \in Seq(S), NEW k \in 1 .. Len(s)
  PROVE  /\ RemoveAt(s, k) \in Seq(S)
         /\ Len(RemoveAt(s, k)) = Len(s) - 1
         /\ \A j \in 1 .. Len(s) - 1 :
                RemoveAt(s, k)[j] = s[IF j < k THEN j ELSE j + 1]
<1> DEFINE before == SubSeq(s, 1, k - 1)
           after == SubSeq(s, k + 1, Len(s))
<1>1. Len(s) \in Nat /\ k \in Nat /\ 1 <= k /\ k <= Len(s)
  OBVIOUS
<1>2. /\ before \in Seq(S) /\ Len(before) = k - 1
      /\ \A j \in 1 .. k - 1 : before[j] = s[j]
  BY <1>1, SubSeqProperties
<1>3. /\ after \in Seq(S) /\ Len(after) = Len(s) - k
      /\ \A j \in 1 .. Len(s) - k : after[j] = s[k + j]
  BY <1>1, SubSeqProperties
<1>4. RemoveAt(s, k) = before \o after
  BY DEF RemoveAt
<1> HIDE DEF before, after
<1>5. /\ before \o after \in Seq(S)
      /\ Len(before \o after) = Len(before) + Len(after)
      /\ \A j \in 1 .. Len(before) + Len(after) :
             (before \o after)[j] = IF j <= Len(before) THEN before[j]
                                    ELSE after[j - Len(before)]
  BY <1>2, <1>3, ConcatProperties
<1>6. ASSUME NEW j \in 1 .. Len(s) - 1
      PROVE  (before \o after)[j] = s[IF j < k THEN j ELSE j + 1]
  BY <1>1, <1>2, <1>3, <1>5, <1>6
<1> QED
  BY <1>1, <1>2, <1>3, <1>4, <1>5, <1>6

LEMMA RemovedDistinct ==
  ASSUME NEW S, NEW s \in Seq(S), NEW k \in 1 .. Len(s), Distinct(s)
  PROVE  Distinct(RemoveAt(s, k))
<1> DEFINE r == RemoveAt(s, k)
           at(j) == IF j < k THEN j ELSE j + 1
<1>1. Len(s) \in Nat /\ Len(r) = Len(s) - 1 /\ \A j \in 1 .. Len(s) - 1 : r[j] = s[at(j)]
  BY Removed
<1>2. ASSUME NEW i \in 1 .. Len(r), NEW j \in 1 .. Len(r), r[i] = r[j] PROVE i = j
  <2>1. /\ r[i] = s[at(i)] /\ r[j] = s[at(j)] /\ at(i) \in 1 .. Len(s) /\ at(j) \in 1 .. Len(s)
    BY <1>1
  <2>2. at(i) = at(j)
    BY <1>2, <2>1 DEF Distinct
  <2> QED
    BY <2>2
<1> QED
  BY <1>2 DEF Distinct

-----------------------------------------------------------------------------
(* The invariant.                                                          *)

TypeInv ==
    /\ streams \in Seq(STREAMS) /\ rest \in Seq(STREAMS)
    /\ rate \in [STREAMS -> Nat] /\ position \in [STREAMS -> Nat]
    /\ mixing \in STREAMS \cup {NOBODY}
    /\ out \in [OutFrames -> SUBSET (STREAMS \X Nat)]

\* Each stream is in the list once, and in render's copy of it.
ListInv ==
    /\ Distinct(streams) /\ Distinct(rest)
    /\ \A k \in 1 .. Len(streams) : rate[streams[k]] # 0
    /\ mixing # NOBODY => rest # <<>> /\ mixing = Head(rest)

\* A sample heard was given, by a stream render is done with.
HeardInv ==
    \A i \in OutFrames : \A x \in out[i] :
        /\ x[2] < position[x[1]]
        /\ \A k \in 1 .. Len(rest) : rest[k] # x[1]

OrderInv ==
    \A i, j \in OutFrames : \A x \in out[i], y \in out[j] :
        x[1] = y[1] /\ i <= j => x[2] <= y[2]

SinkInv == TypeInv /\ ListInv /\ HeardInv /\ OrderInv

LEMMA SinkInitial == Init => SinkInv
<1> SUFFICES ASSUME Init PROVE SinkInv
  OBVIOUS
<1> USE DEF Init
<1>1. TypeInv
  BY DEF TypeInv, Silence
<1>2. ListInv
  BY DEF ListInv, Distinct
<1>3. HeardInv /\ OrderInv
  BY DEF HeardInv, OrderInv, Silence
<1> QED
  BY <1>1, <1>2, <1>3 DEF SinkInv

LEMMA ListSteps ==
  ASSUME SinkInv,
         \/ \E s \in STREAMS, r \in RATES : NewOutputStream(s, r)
         \/ \E s \in STREAMS : StartStream(s) \/ StopStream(s) \/ EndStream(s)
  PROVE  SinkInv' /\ UNCHANGED position
<1> USE DEF SinkInv
<1>1. ASSUME NEW s \in STREAMS, NEW r \in RATES, NewOutputStream(s, r)
      PROVE  SinkInv' /\ UNCHANGED position
  <2>1. UNCHANGED <<position, rest, mixing, out>>
    BY <1>1 DEF NewOutputStream
  <2>2. HeardInv' /\ OrderInv'
    BY <2>1 DEF HeardInv, OrderInv
  <2>3. r \in Nat \ {0} /\ rate[s] = 0 /\ rate' = [rate EXCEPT ![s] = r]
        /\ streams' = Append(streams, s)
    BY <1>1, AudioAssumption DEF NewOutputStream
  <2>4. /\ streams' \in Seq(STREAMS) /\ Len(streams') = Len(streams) + 1
        /\ \A k \in 1 .. Len(streams) : streams'[k] = streams[k] /\ streams[k] \in STREAMS
        /\ streams'[Len(streams) + 1] = s /\ Len(streams) \in Nat
    BY <2>3 DEF TypeInv
  <2>5. TypeInv'
    BY <2>1, <2>3, <2>4 DEF TypeInv
  <2>6. \A k \in 1 .. Len(streams') : rate'[streams'[k]] # 0
    BY <2>3, <2>4 DEF TypeInv, ListInv
  <2>7. ASSUME NEW j \in 1 .. Len(streams'), NEW k \in 1 .. Len(streams'),
               streams'[j] = streams'[k]
        PROVE  j = k
    <3>1. \A l \in 1 .. Len(streams) : streams[l] # s
      BY <2>3 DEF ListInv
    <3> QED
      BY <2>4, <2>7, <3>1 DEF ListInv, Distinct
  <2>8. ListInv'
    BY <2>1, <2>6, <2>7 DEF ListInv, Distinct
  <2> QED
    BY <2>1, <2>2, <2>5, <2>8
<1>2. ASSUME NEW s \in STREAMS, StartStream(s) \/ StopStream(s)
      PROVE  SinkInv' /\ UNCHANGED position
  <2>1. UNCHANGED <<streams, rate, position, rest, mixing, out>>
    BY <1>2 DEF StartStream, StopStream
  <2> QED
    BY <2>1 DEF TypeInv, ListInv, HeardInv, OrderInv
<1>3. ASSUME NEW s \in STREAMS, EndStream(s)
      PROVE  SinkInv' /\ UNCHANGED position
  <2>1. UNCHANGED <<rate, position, rest, mixing, out>>
    BY <1>3 DEF EndStream
  <2>2. PICK k \in 1 .. Len(streams) : streams' = RemoveAt(streams, k)
    BY <1>3 DEF EndStream, TypeInv
  <2>3. /\ streams' \in Seq(STREAMS) /\ Len(streams') = Len(streams) - 1
        /\ \A j \in 1 .. Len(streams) - 1 :
               streams'[j] = streams[IF j < k THEN j ELSE j + 1]
    BY <2>2, Removed DEF TypeInv
  <2>4. Distinct(streams')
    BY <2>2, RemovedDistinct DEF TypeInv, ListInv
  <2>5. TypeInv' /\ HeardInv' /\ OrderInv'
    BY <2>1, <2>3 DEF TypeInv, HeardInv, OrderInv
  <2>6. ASSUME NEW j \in 1 .. Len(streams') PROVE rate'[streams'[j]] # 0
    <3>1. (IF j < k THEN j ELSE j + 1) \in 1 .. Len(streams) /\ j \in 1 .. Len(streams) - 1
      BY <2>3 DEF TypeInv
    <3> QED
      BY <2>1, <2>3, <3>1 DEF ListInv
  <2>7. Distinct(rest')
    BY <2>1 DEF ListInv
  <2>8. ListInv'
    BY <2>1, <2>4, <2>6, <2>7 DEF ListInv
  <2> QED
    BY <2>1, <2>5, <2>8
<1> QED
  BY <1>1, <1>2, <1>3

\* The rest of the copy.
LEMMA TailOfRest ==
  ASSUME TypeInv, ListInv, rest # <<>>
  PROVE  /\ Tail(rest) \in Seq(STREAMS) /\ Distinct(Tail(rest))
         /\ Len(rest) \in Nat \ {0} /\ Head(rest) = rest[1] /\ Head(rest) \in STREAMS
         /\ Len(Tail(rest)) = Len(rest) - 1
         /\ \A k \in 1 .. Len(Tail(rest)) :
                /\ k + 1 \in 1 .. Len(rest) /\ Tail(rest)[k] = rest[k + 1]
                /\ Tail(rest)[k] # Head(rest)
<1>1. /\ Tail(rest) \in Seq(STREAMS) /\ Len(rest) \in Nat \ {0}
      /\ Head(rest) = rest[1] /\ Head(rest) \in STREAMS
      /\ Len(Tail(rest)) = Len(rest) - 1
      /\ \A k \in 1 .. Len(Tail(rest)) : Tail(rest)[k] = rest[k + 1]
  BY HeadTailProperties DEF TypeInv
<1>2. \A k \in 1 .. Len(Tail(rest)) : k + 1 \in 1 .. Len(rest) /\ 1 \in 1 .. Len(rest) /\ k + 1 # 1
  BY <1>1
<1>3. \A k \in 1 .. Len(Tail(rest)) : Tail(rest)[k] # Head(rest)
  BY <1>1, <1>2 DEF ListInv, Distinct
<1>4. ASSUME NEW j \in 1 .. Len(Tail(rest)), NEW k \in 1 .. Len(Tail(rest)),
             Tail(rest)[j] = Tail(rest)[k]
      PROVE  j = k
  <2>1. j + 1 = k + 1
    BY <1>1, <1>2, <1>4 DEF ListInv, Distinct
  <2> QED
    BY <2>1
<1> QED
  BY <1>1, <1>2, <1>3, <1>4 DEF Distinct

LEMMA RenderSteps ==
  ASSUME SinkInv, Render \/ SkipStream \/ CallBack
  PROVE  SinkInv' /\ UNCHANGED position
<1> USE DEF SinkInv
<1>1. ASSUME Render PROVE SinkInv' /\ UNCHANGED position
  <2>1. /\ UNCHANGED <<streams, rate, position, mixing>> /\ rest = <<>> /\ streams # <<>>
        /\ rest' = streams /\ out' = Silence
    BY <1>1 DEF Render, streamVars
  <2>2. TypeInv'
    BY <2>1 DEF TypeInv, Silence
  <2>3. mixing' = NOBODY
    BY <2>1 DEF ListInv
  <2>4. ListInv'
    BY <2>1, <2>3 DEF ListInv
  <2>5. HeardInv' /\ OrderInv'
    BY <2>1 DEF HeardInv, OrderInv, Silence
  <2> QED
    BY <2>1, <2>2, <2>4, <2>5
<1>2. ASSUME SkipStream PROVE SinkInv' /\ UNCHANGED position
  <2>1. /\ UNCHANGED <<streams, rate, position, mixing, out>>
        /\ rest # <<>> /\ rest' = Tail(rest) /\ mixing = NOBODY
    BY <1>2 DEF SkipStream, streamVars
  <2>2. TypeInv'
    BY <2>1, TailOfRest DEF TypeInv
  <2>3. ListInv'
    BY <2>1, TailOfRest DEF ListInv
  <2>4. HeardInv'
    BY <2>1, TailOfRest DEF HeardInv
  <2>5. OrderInv'
    BY <2>1 DEF OrderInv
  <2> QED
    BY <2>1, <2>2, <2>3, <2>4, <2>5
<1>3. ASSUME CallBack PROVE SinkInv' /\ UNCHANGED position
  <2>1. /\ UNCHANGED <<streams, rate, position, rest, out>>
        /\ rest # <<>> /\ mixing' = Head(rest)
    BY <1>3 DEF CallBack, streamVars
  <2>2. Head(rest) \in STREAMS
    BY <2>1, TailOfRest
  <2>3. TypeInv'
    BY <2>1, <2>2 DEF TypeInv
  <2>4. ListInv' /\ HeardInv' /\ OrderInv'
    BY <2>1 DEF ListInv, HeardInv, OrderInv
  <2> QED
    BY <2>1, <2>3, <2>4
<1> QED
  BY <1>1, <1>2, <1>3

\* What a stream adds to the output.
LEMMA Mixed ==
  ASSUME SinkInv, NEW got \in Nat, MixInto(got)
  PROVE  /\ mixing \in STREAMS /\ rate[mixing] \in Nat
         /\ rest # <<>> /\ mixing = Head(rest) /\ rest' = Tail(rest) /\ mixing' = NOBODY
         /\ UNCHANGED <<streams, rate>>
         /\ position[mixing] \in Nat
         /\ position' = [position EXCEPT ![mixing] = @ + got]
         /\ got <= Want(rate[mixing])
         /\ \A i \in OutFrames :
                /\ Source(i, Want(rate[mixing])) \in Nat
                /\ out'[i] = IF Source(i, Want(rate[mixing])) < got
                             THEN out[i] \cup {<<mixing, position[mixing]
                                                    + Source(i, Want(rate[mixing]))>>}
                             ELSE out[i]
         /\ out' = [i \in OutFrames |-> out'[i]]
<1>1. /\ mixing \in STREAMS /\ rate[mixing] \in Nat /\ position[mixing] \in Nat
  BY DEF MixInto, SinkInv, TypeInv
<1>2. Want(rate[mixing]) \in Nat
  BY <1>1, WantType
<1>3. \A i \in OutFrames : Source(i, Want(rate[mixing])) \in Nat
  BY <1>2, SourceType
<1>4. mixing # NOBODY /\ rest # <<>> /\ mixing = Head(rest)
  BY DEF MixInto, SinkInv, ListInv
<1>5. /\ rest' = Tail(rest) /\ mixing' = NOBODY /\ UNCHANGED <<streams, rate>>
      /\ position' = [position EXCEPT ![mixing] = @ + got]
      /\ got <= Want(rate[mixing])
  BY DEF MixInto, streamVars, Taken
<1>6. out' = [i \in OutFrames |->
                  IF Source(i, Want(rate[mixing])) < got
                  THEN out[i] \cup {<<mixing, position[mixing]
                                         + Source(i, Want(rate[mixing]))>>}
                  ELSE out[i]]
  BY DEF MixInto
<1> QED
  BY <1>1, <1>3, <1>4, <1>5, <1>6

LEMMA MixStep ==
  ASSUME SinkInv, NEW got \in Nat, MixInto(got)
  PROVE  SinkInv'
<1> USE DEF SinkInv
<1> DEFINE want == Want(rate[mixing])
           sample(i) == <<mixing, position[mixing] + Source(i, want)>>
<1>1. /\ mixing \in STREAMS /\ position[mixing] \in Nat /\ want \in Nat
      /\ position' = [position EXCEPT ![mixing] = @ + got]
      /\ rest # <<>> /\ mixing = Head(rest) /\ rest' = Tail(rest) /\ mixing' = NOBODY
      /\ UNCHANGED <<streams, rate>>
  BY Mixed, WantType
<1>2. \A i \in OutFrames : Source(i, want) \in Nat
  BY Mixed
<1>3. \A i \in OutFrames :
         out'[i] = IF Source(i, want) < got THEN out[i] \cup {sample(i)} ELSE out[i]
  BY Mixed
<1>4. out' = [i \in OutFrames |-> out'[i]]
  BY Mixed
<1>5. \A i, j \in OutFrames : i <= j => Source(i, want) <= Source(j, want)
  BY <1>1, SourceMonotone
<1> HIDE DEF want
<1>6. TypeInv'
  <2>1. ASSUME NEW i \in OutFrames PROVE out'[i] \in SUBSET (STREAMS \X Nat)
    <3>1. sample(i) \in STREAMS \X Nat
      <4>1. position[mixing] + Source(i, want) \in Nat
        BY <1>1, <1>2
      <4> QED
        BY <1>1, <4>1
    <3>2. out[i] \in SUBSET (STREAMS \X Nat)
      BY DEF TypeInv
    <3> HIDE DEF sample
    <3> QED
      BY <1>3, <3>1, <3>2
  <2>2. position' \in [STREAMS -> Nat]
    BY <1>1 DEF TypeInv
  <2>3. rest' \in Seq(STREAMS)
    BY <1>1, TailOfRest
  <2> QED
    BY <1>1, <1>4, <2>1, <2>2, <2>3 DEF TypeInv
<1>7. ListInv'
  BY <1>1, TailOfRest DEF ListInv
\* No sample of the stream was heard before it was mixed.
<1>8. \A i \in OutFrames : \A x \in out[i] : x[1] # mixing /\ x[1] \in STREAMS /\ x[2] \in Nat
  <2>1. 1 \in 1 .. Len(rest) /\ rest[1] = mixing
    BY <1>1, TailOfRest
  <2> QED
    BY <2>1 DEF HeardInv, TypeInv
<1>9. ASSUME NEW i \in OutFrames, NEW x \in out'[i]
      PROVE  x \in out[i] \/ (Source(i, want) < got /\ x = sample(i))
  BY <1>3
<1>10. HeardInv'
  <2> SUFFICES ASSUME NEW i \in OutFrames, NEW x \in out'[i]
               PROVE  /\ x[2] < position'[x[1]]
                      /\ \A k \in 1 .. Len(rest') : rest'[k] # x[1]
    BY DEF HeardInv
  <2>1. CASE x \in out[i]
    <3>1. x[2] < position'[x[1]]
      BY <1>1, <1>8, <2>1 DEF HeardInv, TypeInv
    <3>2. ASSUME NEW k \in 1 .. Len(rest') PROVE rest'[k] # x[1]
      BY <1>1, <2>1, TailOfRest DEF HeardInv
    <3> QED
      BY <3>1, <3>2
  <2>2. CASE Source(i, want) < got /\ x = sample(i)
    <3>1. position'[mixing] = position[mixing] + got
      BY <1>1 DEF TypeInv
    <3>2. x[2] < position'[x[1]]
      BY <1>1, <1>2, <2>2, <3>1
    <3>3. ASSUME NEW k \in 1 .. Len(rest') PROVE rest'[k] # x[1]
      BY <1>1, <2>2, TailOfRest
    <3> QED
      BY <3>2, <3>3
  <2> QED
    BY <1>9, <2>1, <2>2
<1>11. OrderInv'
  <2> SUFFICES ASSUME NEW i \in OutFrames, NEW j \in OutFrames, NEW x \in out'[i],
                      NEW y \in out'[j], x[1] = y[1], i <= j
               PROVE  x[2] <= y[2]
    BY DEF OrderInv
  <2>1. CASE x \in out[i] /\ y \in out[j]
    BY <2>1 DEF OrderInv
  <2>2. CASE x = sample(i) /\ y = sample(j)
    BY <1>1, <1>2, <1>5, <2>2
  <2>3. ~(x \in out[i] /\ y = sample(j)) /\ ~(x = sample(i) /\ y \in out[j])
    BY <1>8
  <2> QED
    BY <1>9, <2>1, <2>2, <2>3
<1> QED
  BY <1>6, <1>7, <1>10, <1>11

LEMMA SinkStep == SinkInv /\ [Next]_vars => SinkInv'
<1> SUFFICES ASSUME SinkInv, [Next]_vars PROVE SinkInv'
  OBVIOUS
<1>1. CASE \/ \E s \in STREAMS, r \in RATES : NewOutputStream(s, r)
           \/ \E s \in STREAMS : StartStream(s) \/ StopStream(s) \/ EndStream(s)
  BY <1>1, ListSteps
<1>2. CASE Render \/ SkipStream \/ CallBack
  BY <1>2, RenderSteps
<1>3. ASSUME NEW got \in 0 .. Want(rate[mixing]), mixing # NOBODY, MixInto(got)
      PROVE  SinkInv'
  BY <1>3, MixStep
<1>4. CASE UNCHANGED vars
  BY <1>4 DEF vars, streamVars, SinkInv, TypeInv, ListInv, HeardInv, OrderInv
<1> QED
  BY <1>1, <1>2, <1>3, <1>4 DEF Next

LEMMA SpecSink == Spec => []SinkInv
  BY SinkInitial, SinkStep, PTL DEF Spec

-----------------------------------------------------------------------------

(***************************************************************************)
(* The sink invents nothing, for any streams and rates, any length of      *)
(* frame, and callbacks that may open, start, stop and end streams while   *)
(* they run (mix_into, render).                                            *)
(***************************************************************************)
THEOREM SinkInventsNothing == Spec => []NothingIsInvented
<1>1. SinkInv => NothingIsInvented
  <2> SUFFICES ASSUME SinkInv, NEW s \in STREAMS, NEW i \in OutFrames
               PROVE  /\ Cardinality(Heard(s, i)) <= 1
                      /\ \A x \in Heard(s, i) :
                             /\ x[2] < position[s]
                             /\ \A j \in i .. (FRAMES - 1) :
                                    \A y \in Heard(s, j) : x[2] <= y[2]
    BY DEF NothingIsInvented
  <2> USE DEF SinkInv
  <2>1. Cardinality(Heard(s, i)) <= 1
    <3>1. ASSUME NEW x \in Heard(s, i), NEW y \in Heard(s, i) PROVE x = y
      <4>1. /\ x \in STREAMS \X Nat /\ y \in STREAMS \X Nat
            /\ x \in out[i] /\ y \in out[i] /\ x[1] = s /\ y[1] = s
        BY DEF Heard, TypeInv
      <4>2. x[2] <= y[2] /\ y[2] <= x[2]
        <5>1. i <= i
          BY FramesNumber DEF OutFrames
        <5> QED
          BY <4>1, <5>1 DEF OrderInv
      <4> QED
        BY <4>1, <4>2
    <3>2. CASE Heard(s, i) = {}
      BY <3>2, FS_EmptySet
    <3>3. CASE Heard(s, i) # {}
      <4>1. PICK x : x \in Heard(s, i)
        BY <3>3
      <4>2. Heard(s, i) = {x}
        BY <3>1, <4>1
      <4>3. Cardinality({x}) = 1
        BY FS_Singleton
      <4> QED
        BY <4>2, <4>3
    <3> QED
      BY <3>2, <3>3
  <2>2. ASSUME NEW x \in Heard(s, i)
        PROVE  /\ x[2] < position[s]
               /\ \A j \in i .. (FRAMES - 1) : \A y \in Heard(s, j) : x[2] <= y[2]
    <3>1. x \in out[i] /\ x[1] = s
      BY DEF Heard
    <3>2. ASSUME NEW j \in i .. (FRAMES - 1), NEW y \in Heard(s, j) PROVE x[2] <= y[2]
      <4>1. j \in OutFrames /\ i <= j
        BY FramesNumber DEF OutFrames
      <4>2. y \in out[j] /\ y[1] = s
        BY DEF Heard
      <4> QED
        BY <3>1, <4>1, <4>2 DEF OrderInv
    <3> QED
      BY <3>1, <3>2 DEF HeardInv
  <2> QED
    BY <2>1, <2>2
<1> QED
  BY <1>1, SpecSink, PTL

(***************************************************************************)
(* Of a stream no faster than the sink every frame it gave is heard, for   *)
(* any rates and length of frame (mix_into).                               *)
(***************************************************************************)
THEOREM SinkDropsNothing == Spec => NothingIsDropped
<1> DEFINE Whole == \A s \in STREAMS :
                        position'[s] # position[s] /\ rate[s] <= OUT_RATE =>
                            \A k \in position[s] .. (position'[s] - 1) :
                                \E i \in OutFrames : <<s, k>> \in out'[i]
<1>1. SinkInv /\ [Next]_vars => [Whole]_vars
  <2> SUFFICES ASSUME SinkInv, Next PROVE Whole
    OBVIOUS
  <2>1. CASE UNCHANGED position
    BY <2>1
  <2>2. ASSUME NEW got \in 0 .. Want(rate[mixing]), mixing # NOBODY, MixInto(got)
        PROVE  Whole
    <3> SUFFICES ASSUME NEW s \in STREAMS, position'[s] # position[s], rate[s] <= OUT_RATE,
                        NEW k \in position[s] .. (position'[s] - 1)
                 PROVE  \E i \in OutFrames : <<s, k>> \in out'[i]
      OBVIOUS
    <3> DEFINE want == Want(rate[mixing])
    <3>1. got \in Nat
      BY <2>2
    <3>2. /\ mixing \in STREAMS /\ rate[mixing] \in Nat /\ position[mixing] \in Nat
          /\ position' = [position EXCEPT ![mixing] = @ + got] /\ got <= want
          /\ \A i \in OutFrames : Source(i, want) < got =>
                 <<mixing, position[mixing] + Source(i, want)>> \in out'[i]
      BY <2>2, <3>1, Mixed
    <3>3. want \in Nat
      BY <3>2, WantType
    <3> HIDE DEF want
    <3>4. s = mixing /\ position'[s] = position[s] + got
      BY <3>2 DEF SinkInv, TypeInv
    <3>5. want <= FRAMES
      BY <3>2, <3>4, WantFits DEF want
    <3>6. k - position[s] \in 0 .. (want - 1) /\ k - position[s] < got /\ k \in Int
      BY <3>1, <3>2, <3>3, <3>4
    <3>7. PICK i \in OutFrames : Source(i, want) = k - position[s]
      BY <3>3, <3>5, <3>6, SourceReachesAll
    <3>8. position[mixing] + Source(i, want) = k
      BY <3>2, <3>4, <3>6, <3>7
    <3> QED
      BY <3>2, <3>4, <3>6, <3>7, <3>8
  <2> QED
    BY <2>1, <2>2, ListSteps, RenderSteps DEF Next
<1> QED
  BY <1>1, SpecSink, PTL DEF Spec, NothingIsDropped

=============================================================================
