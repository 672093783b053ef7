--------------------------- MODULE Frontend_proofs ---------------------------
(***************************************************************************)
(* The machine a host is left with, the keys its phone saw and the picture *)
(* it shows, for any number of buttons, phones, files and screens, and     *)
(* movies of any length.                                                   *)
(*                                                                         *)
(* Half-way through a frame the machine is the one the reference comes to  *)
(* once it has gone through the keys told so far; the same holds of every  *)
(* machine kept in a file, beside the levels and the movie kept with it,   *)
(* which is why going back to one is going on from it.                     *)
(*                                                                         *)
(* A machine shows what it showed until a frame ends with something to see *)
(* that fits, and then shows that: what was done since is no picture.  The *)
(* words that hold a colour are taken apart by arithmetic.                 *)
(***************************************************************************)
EXTENDS Frontend, WellFoundedInduction, TLAPS

-----------------------------------------------------------------------------
(* Loops.                                                                  *)

\* A set of numbers has a least one.
LEMMA LeastNumber ==
  ASSUME NEW T \in SUBSET Nat, T # {}
  PROVE  \E m \in T : \A k \in T : m <= k
<1> DEFINE Less == {ss \in Nat \X Nat : ss[1] < ss[2]}
<1>1. IsWellFoundedOn(Less, Nat)
  BY NatLessThanWellFounded DEF OpToRel
<1>2. PICK m \in T : \A k \in T : <<k, m>> \notin Less
  <2> HIDE DEF Less
  <2> QED
    BY <1>1, WFMin
<1>3. ASSUME NEW k \in T PROVE m <= k
  <2>1. k \in Nat /\ m \in Nat /\ ~(k < m)
    BY <1>2
  <2> QED
    BY <2>1
<1> QED
  BY <1>3

\* Two loops that begin alike, and go on alike from what is alike, are alike.
Alike(N, g, h) ==
    /\ N \in Nat /\ g[0] = h[0]
    /\ \A n \in 1 .. N : g[n - 1] = h[n - 1] => g[n] = h[n]

LEMMA LoopsAgree ==
  ASSUME NEW N, NEW g, NEW h, Alike(N, g, h)
  PROVE  \A n \in 0 .. N : g[n] = h[n]
<1> DEFINE Bad == {n \in 0 .. N : g[n] # h[n]}
<1> SUFFICES ASSUME Bad # {} PROVE FALSE
  OBVIOUS
<1> USE DEF Alike
<1>1. PICK m \in Bad : \A k \in Bad : m <= k
  <2>1. Bad \in SUBSET Nat
    OBVIOUS
  <2> HIDE DEF Bad
  <2> QED
    BY <2>1, LeastNumber
<1>2. m \in 1 .. N /\ m - 1 \in 0 .. N /\ m - 1 < m /\ g[m] # h[m]
  OBVIOUS
<1>3. m - 1 \notin Bad
  <2> HIDE DEF Bad
  <2> QED
    BY <1>1, <1>2
<1> QED
  BY <1>2, <1>3

\* A loop of N rounds in S, round n making round[n] of what was there before
\* it, goes through a sequence of values.
Loop(S, base, N, round) ==
    /\ N \in Nat /\ base \in S
    /\ round \in [1 .. N -> [S -> S]]

GoesThrough(g, S, base, N, round) ==
    /\ g \in [0 .. N -> S] /\ g[0] = base
    /\ \A n \in 1 .. N : g[n] = round[n][g[n - 1]]

LEMMA LoopHasValues ==
  ASSUME NEW S, NEW base, NEW N, NEW round, Loop(S, base, N, round)
  PROVE  \E g : GoesThrough(g, S, base, N, round)
<1> DEFINE Ran(n, g) == GoesThrough(g, S, base, n, round)
           Bad == {n \in 0 .. N : \A g : ~Ran(n, g)}
<1> USE DEF Loop, GoesThrough
<1>1. ASSUME Bad # {} PROVE FALSE
  <2>1. PICK m \in Bad : \A k \in Bad : m <= k
    <3>1. Bad \in SUBSET Nat
      OBVIOUS
    <3> HIDE DEF Bad
    <3> QED
      BY <1>1, <3>1, LeastNumber
  <2>2. m \in 0 .. N /\ \A g : ~Ran(m, g)
    OBVIOUS
  <2>3. m # 0
    <3>1. Ran(0, [k \in {0} |-> base])
      OBVIOUS
    <3> QED
      BY <2>2, <3>1
  <2>4. PICK g : Ran(m - 1, g)
    <3>1. m - 1 \in 0 .. N /\ m - 1 < m /\ m \in Nat /\ m - 1 \in Nat
      BY <2>2, <2>3
    <3>2. m - 1 \notin Bad
      <4> HIDE DEF Bad
      <4> QED
        BY <2>1, <3>1
    <3> QED
      BY <3>1, <3>2
  <2> DEFINE h == [k \in 0 .. m |-> IF k = m THEN round[m][g[m - 1]] ELSE g[k]]
  <2>5. Ran(m, h)
    <3>1. h \in [0 .. m -> S] /\ h[0] = base
      BY <2>2, <2>3, <2>4
    <3>2. ASSUME NEW k \in 1 .. m PROVE h[k] = round[k][h[k - 1]]
      BY <2>2, <2>3, <2>4
    <3> HIDE DEF h
    <3> QED
      BY <3>1, <3>2
  <2> QED
    BY <2>2, <2>5
<1>2. \E g : Ran(N, g)
  <2>1. N \in 0 .. N
    OBVIOUS
  <2> HIDE DEF Ran
  <2>2. N \notin Bad
    BY <1>1
  <2> QED
    BY <2>1, <2>2
<1> QED
  BY <1>2

-----------------------------------------------------------------------------
(* Machines, and what is done to one.                                      *)

LEVELS == {l \in Seq(BOOLEAN) : Len(l) = N_BUTTONS}

\* What has been told of a frame: levels of the first buttons, or of all.
ROWS == {l \in Seq(BOOLEAN) : Len(l) <= N_BUTTONS}
MOVIES == Seq(LEVELS)

KEYS == {<<"key", i, level>> : i \in BUTTONS, level \in BOOLEAN}
EVENTS == {<<"run">>, <<"pull">>, <<"compose">>} \cup KEYS

\* A phone's machines, with one picture in the buffer.
Machines(phone, video) ==
    [phone : {phone}, buttons : [BUTTONS -> BOOLEAN], did : Seq(EVENTS), video : {video}]

LEMMA Buttons ==
  /\ N_BUTTONS \in Nat \ {0} /\ BUTTONS = 1 .. N_BUTTONS
  /\ NobodyHeld \in [BUTTONS -> BOOLEAN]
  /\ LEVELS \subseteq [BUTTONS -> BOOLEAN]
  BY FrontendAssumption DEF BUTTONS, NobodyHeld, LEVELS

LEMMA BootedType ==
  ASSUME NEW phone
  PROVE  Booted(phone) \in Machines(phone, BLANK)
  BY DEF Booted, Machines

LEMMA DoesType ==
  ASSUME NEW phone, NEW video, NEW m \in Machines(phone, video), NEW e \in EVENTS
  PROVE  /\ Does(m, e) \in Machines(phone, video)
         /\ Does(m, e).did = Append(m.did, e)
         /\ Does(m, e).buttons = m.buttons
<1>1. Append(m.did, e) \in Seq(EVENTS)
  BY DEF Machines
<1> QED
  BY <1>1 DEF Does, Machines

LEMMA SetButtonType ==
  ASSUME NEW phone, NEW video, NEW m \in Machines(phone, video), NEW i \in BUTTONS,
         NEW level \in BOOLEAN
  PROVE  /\ set_button(m, i, level) \in Machines(phone, video)
         /\ set_button(m, i, level).buttons = [m.buttons EXCEPT ![i] = level]
         /\ set_button(m, i, level).did
                = IF m.buttons[i] = level \/ ~phone.server THEN m.did
                  ELSE Append(m.did, <<"key", i, level>>)
<1> DEFINE told == [m EXCEPT !.buttons[i] = level]
           e == <<"key", i, level>>
<1>1. /\ told \in Machines(phone, video) /\ told.did = m.did
      /\ told.buttons = [m.buttons EXCEPT ![i] = level] /\ m.phone = phone
  BY DEF Machines
<1>2. e \in EVENTS
  BY DEF EVENTS, KEYS
<1> HIDE DEF told, e
<1>3. /\ Does(told, e) \in Machines(phone, video)
      /\ Does(told, e).did = Append(m.did, e)
      /\ Does(told, e).buttons = [m.buttons EXCEPT ![i] = level]
  BY <1>1, <1>2, DoesType
<1>4. CASE m.buttons[i] = level
  <2>1. [m.buttons EXCEPT ![i] = level] = m.buttons /\ set_button(m, i, level) = m
    BY <1>4 DEF Machines, set_button
  <2> QED
    BY <1>4, <2>1
<1>5. CASE m.buttons[i] # level /\ phone.server
  <2>1. set_button(m, i, level) = Does(told, e)
    BY <1>1, <1>5 DEF set_button, told, e
  <2> QED
    BY <1>3, <1>5, <2>1 DEF e
<1>6. CASE m.buttons[i] # level /\ ~phone.server
  <2>1. set_button(m, i, level) = told
    BY <1>1, <1>6 DEF set_button, told
  <2> QED
    BY <1>1, <1>6, <2>1
<1> QED
  BY <1>4, <1>5, <1>6

\* What reading the screen does to a machine hangs on nothing but what has been
\* done to it.
LEMMA ReadScreenType ==
  ASSUME NEW phone, NEW video, NEW m \in Machines(phone, video),
         NEW other, NEW n \in Machines(phone, other), n.did = m.did
  PROVE  /\ read_screen(m).m \in Machines(phone, video)
         /\ read_screen(m).m.buttons = m.buttons
         /\ read_screen(m).m.did = read_screen(n).m.did
         /\ read_screen(m).m.did \in {m.did, Append(m.did, <<"compose">>)}
<1> DEFINE e == <<"compose">>
<1>1. m.phone = phone /\ n.phone = phone
  BY DEF Machines
<1>2. e \in EVENTS
  BY DEF EVENTS
<1>3. \/ read_screen(m).m = m /\ read_screen(n).m = n
      \/ read_screen(m).m = Does(m, e) /\ read_screen(n).m = Does(n, e)
  BY <1>1 DEF read_screen
<1> HIDE DEF e
<1>4. /\ Does(m, e) \in Machines(phone, video) /\ Does(m, e).buttons = m.buttons
      /\ Does(m, e).did = Append(m.did, e) /\ Does(n, e).did = Append(m.did, e)
  BY <1>2, DoesType
<1> QED
  BY <1>3, <1>4 DEF e

\* The frame of a machine, up to its picture.
FrameOf(m) == read_screen(render_audio(run_for_us(m)))

LEMMA FrameType ==
  ASSUME NEW phone, NEW video, NEW m \in Machines(phone, video),
         NEW other, NEW n \in Machines(phone, other), n.did = m.did
  PROVE  /\ FrameOf(m).m \in Machines(phone, video)
         /\ FrameOf(m).m.buttons = m.buttons
         /\ FrameOf(m).m.did = FrameOf(n).m.did
<1> DEFINE a == render_audio(run_for_us(m))
           b == render_audio(run_for_us(n))
<1> DEFINE run == <<"run">>
           pull == <<"pull">>
           m1 == run_for_us(m)
           n1 == run_for_us(n)
<1>1. run \in EVENTS /\ pull \in EVENTS
  BY DEF EVENTS
<1>2. m1 = Does(m, run) /\ n1 = Does(n, run) /\ a = Does(m1, pull) /\ b = Does(n1, pull)
  BY DEF run_for_us, render_audio
<1> HIDE DEF a, b, m1, n1, run, pull
<1>3. /\ m1 \in Machines(phone, video) /\ n1 \in Machines(phone, other)
      /\ m1.did = n1.did /\ m1.buttons = m.buttons
  <2>1. m1 \in Machines(phone, video) /\ m1.did = Append(m.did, run) /\ m1.buttons = m.buttons
    BY <1>1, <1>2, DoesType
  <2>2. n1 \in Machines(phone, other) /\ n1.did = Append(m.did, run)
    BY <1>1, <1>2, DoesType
  <2> QED
    BY <2>1, <2>2
<1>4. /\ a \in Machines(phone, video) /\ b \in Machines(phone, other)
      /\ a.did = b.did /\ a.buttons = m.buttons
  <2>1. a \in Machines(phone, video) /\ a.did = Append(m1.did, pull) /\ a.buttons = m1.buttons
    BY <1>1, <1>2, <1>3, DoesType
  <2>2. b \in Machines(phone, other) /\ b.did = Append(n1.did, pull)
    BY <1>1, <1>2, <1>3, DoesType
  <2> QED
    BY <1>3, <2>1, <2>2
<1>5. /\ read_screen(a).m \in Machines(phone, video)
      /\ read_screen(a).m.buttons = a.buttons
      /\ read_screen(a).m.did = read_screen(b).m.did
  BY <1>4, ReadScreenType
<1> QED
  BY <1>4, <1>5 DEF FrameOf, a, b, m1, n1

-----------------------------------------------------------------------------
(* The reference, a key and a frame at a time.                             *)

\* The keys of a frame are told one after the other.
KeysGo(told, phone, m, before, levels) ==
    /\ told \in [0 .. Len(levels) -> Machines(phone, BLANK)]
    /\ NativeKeys(m, before, levels) = told[Len(levels)]
    /\ told[0] = m
    /\ \A i \in 1 .. Len(levels) :
           told[i] = IF levels[i] = before[i] THEN told[i - 1]
                     ELSE set_button(told[i - 1], i, levels[i])

LEMMA KeysAreALoop ==
  ASSUME NEW phone, NEW m \in Machines(phone, BLANK), NEW before,
         NEW levels \in ROWS
  PROVE  \E told : KeysGo(told, phone, m, before, levels)
<1> DEFINE N == Len(levels)
           S == Machines(phone, BLANK)
           key(i, v) == IF levels[i] = before[i] THEN v ELSE set_button(v, i, levels[i])
           round == [i \in 1 .. N |-> [v \in S |-> key(i, v)]]
           rec(told) == [i \in 0 .. Len(levels) |->
                            IF i = 0 THEN m
                            ELSE IF levels[i] = before[i] THEN told[i - 1]
                            ELSE set_button(told[i - 1], i, levels[i])]
           chosen == CHOOSE told : told = rec(told)
<1>1. N \in Nat /\ \A i \in 1 .. N : i \in BUTTONS /\ levels[i] \in BOOLEAN /\ i - 1 \in 0 .. N
  BY Buttons DEF ROWS
<1>2. \A i \in 1 .. N, v \in S : key(i, v) \in S
  <2> HIDE DEF N, S
  <2> QED
    BY <1>1, SetButtonType DEF S
<1>3. PICK g : GoesThrough(g, S, m, N, round)
  <2>1. round \in [1 .. N -> [S -> S]]
    <3> HIDE DEF N, S, key
    <3> QED
      BY <1>2
  <2> HIDE DEF N, S, round
  <2>2. Loop(S, m, N, round)
    BY <1>1, <2>1 DEF Loop, S
  <2> HIDE DEF rec, key, chosen
  <2> QED
    BY <2>2, LoopHasValues
<1> USE DEF GoesThrough
<1>4. ASSUME NEW i \in 1 .. N PROVE g[i] = key(i, g[i - 1])
  <2> HIDE DEF N, S, key
  <2> QED
    BY <1>1, <1>3
<1>5. g = rec(g)
  <2>1. ASSUME NEW i \in 0 .. N PROVE g[i] = rec(g)[i]
    <3>1. CASE i = 0
      BY <1>3, <3>1
    <3>2. CASE i # 0
      <4>1. i \in 1 .. N
        BY <1>1, <3>2
      <4>2. rec(g)[i] = key(i, g[i - 1])
        BY <3>2
      <4> HIDE DEF rec, key
      <4> QED
        BY <1>4, <4>1, <4>2
    <3> QED
      BY <3>1, <3>2
  <2>2. g = [i \in 0 .. N |-> g[i]] /\ rec(g) = [i \in 0 .. N |-> rec(g)[i]]
    BY <1>3
  <2> HIDE DEF rec
  <2> QED
    BY <2>1, <2>2
<1>6. chosen = rec(chosen)
  <2> HIDE DEF rec
  <2> QED
    BY <1>5
<1>7. \A i \in 0 .. N : g[i] = chosen[i]
  <2>1. g[0] = chosen[0]
    <3>1. \A h : h = rec(h) => h[0] = m
      BY <1>1
    <3> HIDE DEF rec, chosen
    <3> QED
      BY <1>3, <1>6, <3>1
  <2>2. ASSUME NEW i \in 1 .. N, g[i - 1] = chosen[i - 1] PROVE g[i] = chosen[i]
    <3>1. \A h : h = rec(h) => h[i] = key(i, h[i - 1])
      BY <1>1
    <3> HIDE DEF rec, chosen, key
    <3> QED
      BY <1>4, <1>6, <2>2, <3>1
  <2> HIDE DEF chosen, N, S, key, round, rec
  <2>3. Alike(N, g, chosen)
    BY <1>1, <2>1, <2>2 DEF Alike
  <2> QED
    BY <2>3, LoopsAgree
<1>8. NativeKeys(m, before, levels) = chosen[N]
  BY DEF NativeKeys
<1>9. N \in 0 .. N
  BY <1>1
<1> HIDE DEF chosen, round, rec
<1> QED
  BY <1>3, <1>4, <1>7, <1>8, <1>9 DEF KeysGo

\* Told key by key.
LEMMA KeyByKey ==
  ASSUME NEW phone, NEW m \in Machines(phone, BLANK), NEW before, NEW h \in ROWS
  PROVE  /\ NativeKeys(m, before, h) \in Machines(phone, BLANK)
         /\ NativeKeys(m, before, <<>>) = m
         /\ \A l \in BOOLEAN :
                Len(h) < N_BUTTONS =>
                    NativeKeys(m, before, Append(h, l))
                        = IF l = before[Len(h) + 1] THEN NativeKeys(m, before, h)
                          ELSE set_button(NativeKeys(m, before, h), Len(h) + 1, l)
<1> DEFINE S == Machines(phone, BLANK)
           Next1(told, levels, i) == IF levels[i] = before[i] THEN told[i - 1]
                                     ELSE set_button(told[i - 1], i, levels[i])
<1>1. <<>> \in ROWS /\ Len(h) \in Nat /\ Len(<<>>) = 0
  BY Buttons DEF ROWS
<1>2. /\ \E t : KeysGo(t, phone, m, before, h)
      /\ \E t : KeysGo(t, phone, m, before, <<>>)
  BY <1>1, KeysAreALoop
<1> USE DEF KeysGo
<1>3. PICK told : KeysGo(told, phone, m, before, h)
  BY <1>2
<1>4. NativeKeys(m, before, <<>>) = m
  BY <1>1, <1>2
<1>5. ASSUME NEW l \in BOOLEAN, Len(h) < N_BUTTONS
      PROVE  NativeKeys(m, before, Append(h, l))
                 = IF l = before[Len(h) + 1] THEN NativeKeys(m, before, h)
                   ELSE set_button(NativeKeys(m, before, h), Len(h) + 1, l)
  <2> DEFINE N == Len(h)
             hl == Append(h, l)
  <2>1. /\ hl \in ROWS /\ Len(hl) = N + 1 /\ hl[N + 1] = l
        /\ \A i \in 1 .. N : hl[i] = h[i]
    BY <1>5, Buttons DEF ROWS
  <2> HIDE DEF hl
  <2>2. PICK t : KeysGo(t, phone, m, before, hl)
    <3> HIDE DEF KeysGo
    <3> QED
      BY <2>1, KeysAreALoop
  <2>3. N \in Nat /\ N \in 0 .. N /\ N + 1 \in 1 .. N + 1 /\ N + 1 - 1 = N
        /\ \A i \in 1 .. N : i \in 1 .. N + 1
    BY <1>1
  <2> HIDE DEF N, hl, S
  <2>4. ASSUME NEW i \in 1 .. N, told[i - 1] = t[i - 1] PROVE told[i] = t[i]
    <3>1. told[i] = Next1(told, h, i) /\ t[i] = Next1(t, hl, i) /\ hl[i] = h[i]
      BY <1>3, <2>1, <2>2, <2>3 DEF N
    <3> QED
      BY <2>4, <3>1
  <2>5. told[N] = t[N]
    <3>1. Alike(N, told, t)
      BY <1>3, <2>2, <2>3, <2>4 DEF Alike
    <3> QED
      BY <2>3, <3>1, LoopsAgree
  <2>6. NativeKeys(m, before, h) = told[N]
    BY <1>3 DEF N
  <2>7. NativeKeys(m, before, hl) = t[N + 1] /\ t[N + 1] = Next1(t, hl, N + 1)
    BY <2>1, <2>2, <2>3
  <2>8. Next1(t, hl, N + 1)
            = IF l = before[N + 1] THEN t[N] ELSE set_button(t[N], N + 1, l)
    BY <2>1, <2>3
  <2> HIDE DEF Next1
  <2> QED
    BY <2>5, <2>6, <2>7, <2>8 DEF N, hl
<1>6. NativeKeys(m, before, h) \in S
  BY <1>1, <1>3
<1> QED
  BY <1>4, <1>5, <1>6

-----------------------------------------------------------------------------

LEMMA NativeFrameType ==
  ASSUME NEW phone, NEW m \in Machines(phone, BLANK), NEW before, NEW levels \in LEVELS
  PROVE  /\ NativeFrame(m, before, levels) \in Machines(phone, BLANK)
         /\ NativeFrame(m, before, levels) = FrameOf(NativeKeys(m, before, levels)).m
<1>1. levels \in ROWS
  BY Buttons DEF LEVELS, ROWS
<1>2. NativeKeys(m, before, levels) \in Machines(phone, BLANK)
  BY <1>1, KeyByKey
<1>3. NativeFrame(m, before, levels) = FrameOf(NativeKeys(m, before, levels)).m
  BY DEF NativeFrame, FrameOf
<1> QED
  BY <1>2, <1>3, FrameType

\* The levels before a frame of a movie.
Earlier(mv, n) == IF n = 1 THEN NobodyHeld ELSE mv[n - 1]

\* The reference goes frame by frame.
LEMMA ReferenceIsALoop ==
  ASSUME NEW phone, NEW mv \in MOVIES
  PROVE  \E told \in [0 .. Len(mv) -> Machines(phone, BLANK)] :
             /\ Reference(phone, mv) = told[Len(mv)]
             /\ told[0] = Booted(phone)
             /\ \A i \in 1 .. Len(mv) :
                    told[i] = NativeFrame(told[i - 1], Earlier(mv, i), mv[i])
<1> DEFINE N == Len(mv)
           S == Machines(phone, BLANK)
           key(i, v) == NativeFrame(v, Earlier(mv, i), mv[i])
           round == [i \in 1 .. N |-> [v \in S |-> key(i, v)]]
           rec(told) == [i \in 0 .. Len(mv) |->
                            IF i = 0 THEN Booted(phone)
                            ELSE NativeFrame(told[i - 1],
                                             IF i = 1 THEN NobodyHeld ELSE mv[i - 1], mv[i])]
           chosen == CHOOSE told : told = rec(told)
<1>1. N \in Nat /\ Booted(phone) \in S /\ \A i \in 1 .. N : mv[i] \in LEVELS /\ i - 1 \in 0 .. N
  BY BootedType DEF MOVIES
<1>2. \A i \in 1 .. N, v \in S : key(i, v) \in S
  <2> HIDE DEF N, S
  <2> QED
    BY <1>1, NativeFrameType DEF S
<1>3. PICK g : GoesThrough(g, S, Booted(phone), N, round)
  <2>1. round \in [1 .. N -> [S -> S]]
    <3> HIDE DEF N, S, key
    <3> QED
      BY <1>2
  <2> HIDE DEF N, S, round
  <2>2. Loop(S, Booted(phone), N, round)
    BY <1>1, <2>1 DEF Loop, S
  <2> HIDE DEF rec, key, chosen
  <2> QED
    BY <2>2, LoopHasValues
<1> USE DEF GoesThrough
<1>4. ASSUME NEW i \in 1 .. N PROVE g[i] = key(i, g[i - 1])
  <2> HIDE DEF N, S, key
  <2> QED
    BY <1>1, <1>3
<1>5. g = rec(g)
  <2>1. ASSUME NEW i \in 0 .. N PROVE g[i] = rec(g)[i]
    <3>1. CASE i = 0
      BY <1>3, <3>1
    <3>2. CASE i # 0
      <4>1. i \in 1 .. N
        BY <1>1, <3>2
      <4>2. rec(g)[i] = key(i, g[i - 1])
        BY <3>2 DEF Earlier
      <4> HIDE DEF rec, key
      <4> QED
        BY <1>4, <4>1, <4>2
    <3> QED
      BY <3>1, <3>2
  <2>2. g = [i \in 0 .. N |-> g[i]] /\ rec(g) = [i \in 0 .. N |-> rec(g)[i]]
    BY <1>3
  <2> HIDE DEF rec
  <2> QED
    BY <2>1, <2>2
<1>6. chosen = rec(chosen)
  <2> HIDE DEF rec
  <2> QED
    BY <1>5
<1>7. \A i \in 0 .. N : g[i] = chosen[i]
  <2>1. g[0] = chosen[0]
    <3>1. \A h : h = rec(h) => h[0] = Booted(phone)
      BY <1>1
    <3> HIDE DEF rec, chosen
    <3> QED
      BY <1>3, <1>6, <3>1
  <2>2. ASSUME NEW i \in 1 .. N, g[i - 1] = chosen[i - 1] PROVE g[i] = chosen[i]
    <3>1. \A h : h = rec(h) => h[i] = key(i, h[i - 1])
      BY <1>1 DEF Earlier
    <3> HIDE DEF rec, chosen, key
    <3> QED
      BY <1>4, <1>6, <2>2, <3>1
  <2> HIDE DEF chosen, N, S, key, round, rec
  <2>3. Alike(N, g, chosen)
    BY <1>1, <2>1, <2>2 DEF Alike
  <2> QED
    BY <2>3, LoopsAgree
<1>8. Reference(phone, mv) = chosen[N]
  BY DEF Reference, Earlier
<1>9. N \in 0 .. N
  BY <1>1
<1> HIDE DEF chosen, round, rec
<1> QED
  BY <1>3, <1>4, <1>7, <1>8, <1>9

LEMMA FrameByFrame ==
  ASSUME NEW phone, NEW mv \in MOVIES
  PROVE  /\ Reference(phone, mv) \in Machines(phone, BLANK)
         /\ Reference(phone, <<>>) = Booted(phone)
         /\ \A l \in LEVELS :
                Reference(phone, Append(mv, l))
                    = NativeFrame(Reference(phone, mv), Earlier(mv, Len(mv) + 1), l)
<1> DEFINE S == Machines(phone, BLANK)
           Next1(told, levels, i) == NativeFrame(told[i - 1], Earlier(levels, i), levels[i])
<1>1. <<>> \in MOVIES /\ Len(mv) \in Nat /\ Len(<<>>) = 0
  BY DEF MOVIES
<1>2. PICK told \in [0 .. Len(mv) -> S] :
         /\ Reference(phone, mv) = told[Len(mv)] /\ told[0] = Booted(phone)
         /\ \A i \in 1 .. Len(mv) : told[i] = Next1(told, mv, i)
  BY ReferenceIsALoop
<1>3. Reference(phone, <<>>) = Booted(phone)
  <2>1. \E t \in [0 .. Len(<<>>) -> S] :
           Reference(phone, <<>>) = t[Len(<<>>)] /\ t[0] = Booted(phone)
    BY <1>1, ReferenceIsALoop
  <2> QED
    BY <1>1, <2>1
<1>4. ASSUME NEW l \in LEVELS
      PROVE  Reference(phone, Append(mv, l))
                 = NativeFrame(Reference(phone, mv), Earlier(mv, Len(mv) + 1), l)
  <2> DEFINE N == Len(mv)
             hl == Append(mv, l)
  <2>1. /\ hl \in MOVIES /\ Len(hl) = N + 1 /\ hl[N + 1] = l
        /\ \A i \in 1 .. N : hl[i] = mv[i]
    BY DEF MOVIES
  <2>2. PICK t \in [0 .. Len(hl) -> S] :
           /\ Reference(phone, hl) = t[Len(hl)] /\ t[0] = Booted(phone)
           /\ \A i \in 1 .. Len(hl) : t[i] = Next1(t, hl, i)
    <3>1. hl \in MOVIES
      BY <2>1
    <3> HIDE DEF hl
    <3> QED
      BY ONLY <3>1, ReferenceIsALoop
  <2>3. N \in Nat /\ N \in 0 .. N /\ N + 1 \in 1 .. N + 1 /\ N + 1 - 1 = N
        /\ \A i \in 1 .. N : i \in 1 .. N + 1
    BY <1>1
  <2>4. \A i \in 1 .. N + 1 : Earlier(hl, i) = Earlier(mv, i)
    <3> HIDE DEF N, hl
    <3> QED
      BY <2>1, <2>3 DEF Earlier
  <2> HIDE DEF N, hl, S
  <2>5. ASSUME NEW i \in 1 .. N, told[i - 1] = t[i - 1] PROVE told[i] = t[i]
    <3>1. told[i] = Next1(told, mv, i) /\ t[i] = Next1(t, hl, i) /\ hl[i] = mv[i]
      BY <1>2, <2>1, <2>2, <2>3 DEF N
    <3> QED
      BY <2>3, <2>4, <2>5, <3>1
  <2>6. told[N] = t[N]
    <3>1. Alike(N, told, t)
      BY <1>2, <2>2, <2>3, <2>5 DEF Alike
    <3> QED
      BY <2>3, <3>1, LoopsAgree
  <2>7. Reference(phone, mv) = told[N]
    BY <1>2 DEF N
  <2>8. Reference(phone, hl) = t[N + 1] /\ t[N + 1] = Next1(t, hl, N + 1)
    BY <2>1, <2>2, <2>3
  <2>9. Next1(t, hl, N + 1) = NativeFrame(t[N], Earlier(mv, N + 1), l)
    BY <2>1, <2>3, <2>4
  <2> HIDE DEF Next1
  <2> QED
    BY <2>6, <2>7, <2>8, <2>9 DEF N, hl
<1>5. Reference(phone, mv) \in S
  BY <1>1, <1>2
<1> QED
  BY <1>3, <1>4, <1>5

-----------------------------------------------------------------------------
(* What a phone heard of a key.                                            *)

Hears(e, i, v) == IF e[1] = "key" /\ e[2] = i THEN Append(v, e[3]) ELSE v

LEMMA HearsType ==
  ASSUME NEW e \in EVENTS, NEW i, NEW v \in Seq(BOOLEAN)
  PROVE  Hears(e, i, v) \in Seq(BOOLEAN)
<1>1. CASE e \in KEYS
  <2>1. PICK k \in BUTTONS, level \in BOOLEAN : e = <<"key", k, level>>
    BY <1>1 DEF KEYS
  <2>2. Append(v, e[3]) \in Seq(BOOLEAN)
    <3>1. e[3] \in BOOLEAN
      BY <2>1
    <3> QED
      BY <3>1
  <2> QED
    BY <2>2 DEF Hears
<1>2. CASE e \notin KEYS
  <2>1. e[1] # "key"
    BY <1>2 DEF EVENTS
  <2> QED
    BY <2>1 DEF Hears
<1> QED
  BY <1>1, <1>2

LEMMA ToldIsALoop ==
  ASSUME NEW did \in Seq(EVENTS), NEW j
  PROVE  \E told \in [0 .. Len(did) -> Seq(BOOLEAN)] :
             /\ Told(did, j) = told[Len(did)]
             /\ told[0] = <<>>
             /\ \A i \in 1 .. Len(did) : told[i] = Hears(did[i], j, told[i - 1])
<1> DEFINE N == Len(did)
           S == Seq(BOOLEAN)
           key(i, v) == Hears(did[i], j, v)
           round == [i \in 1 .. N |-> [v \in S |-> key(i, v)]]
           rec(told) == [i \in 0 .. Len(did) |->
                            IF i = 0 THEN <<>>
                            ELSE IF did[i][1] = "key" /\ did[i][2] = j
                            THEN Append(told[i - 1], did[i][3])
                            ELSE told[i - 1]]
           chosen == CHOOSE told : told = rec(told)
<1>1. N \in Nat /\ <<>> \in S /\ \A i \in 1 .. N : did[i] \in EVENTS /\ i - 1 \in 0 .. N
  OBVIOUS
<1>2. \A i \in 1 .. N, v \in S : key(i, v) \in S
  <2> HIDE DEF N
  <2> QED
    BY <1>1, HearsType DEF S
<1>3. PICK g : GoesThrough(g, S, <<>>, N, round)
  <2>1. round \in [1 .. N -> [S -> S]]
    <3> HIDE DEF N, S, key
    <3> QED
      BY <1>2
  <2> HIDE DEF N, S, round
  <2>2. Loop(S, <<>>, N, round)
    BY <1>1, <2>1 DEF Loop, S
  <2> HIDE DEF rec, key, chosen
  <2> QED
    BY <2>2, LoopHasValues
<1> USE DEF GoesThrough
<1>4. ASSUME NEW i \in 1 .. N PROVE g[i] = key(i, g[i - 1])
  <2> HIDE DEF N, S, key
  <2> QED
    BY <1>1, <1>3
<1>5. g = rec(g)
  <2>1. ASSUME NEW i \in 0 .. N PROVE g[i] = rec(g)[i]
    <3>1. CASE i = 0
      BY <1>3, <3>1
    <3>2. CASE i # 0
      <4>1. i \in 1 .. N
        BY <1>1, <3>2
      <4>2. rec(g)[i] = key(i, g[i - 1])
        BY <3>2 DEF Hears
      <4> HIDE DEF rec, key
      <4> QED
        BY <1>4, <4>1, <4>2
    <3> QED
      BY <3>1, <3>2
  <2>2. g = [i \in 0 .. N |-> g[i]] /\ rec(g) = [i \in 0 .. N |-> rec(g)[i]]
    BY <1>3
  <2> HIDE DEF rec
  <2> QED
    BY <2>1, <2>2
<1>6. chosen = rec(chosen)
  <2> HIDE DEF rec
  <2> QED
    BY <1>5
<1>7. \A i \in 0 .. N : g[i] = chosen[i]
  <2>1. g[0] = chosen[0]
    <3>1. \A h : h = rec(h) => h[0] = <<>>
      BY <1>1
    <3> HIDE DEF rec, chosen
    <3> QED
      BY <1>3, <1>6, <3>1
  <2>2. ASSUME NEW i \in 1 .. N, g[i - 1] = chosen[i - 1] PROVE g[i] = chosen[i]
    <3>1. \A h : h = rec(h) => h[i] = key(i, h[i - 1])
      <4>1. ASSUME NEW h PROVE rec(h)[i] = key(i, h[i - 1])
        BY <1>1 DEF Hears
      <4> HIDE DEF rec, key
      <4> QED
        BY <4>1
    <3> HIDE DEF rec, chosen, key
    <3> QED
      BY <1>4, <1>6, <2>2, <3>1
  <2> HIDE DEF chosen, N, S, key, round, rec
  <2>3. Alike(N, g, chosen)
    BY <1>1, <2>1, <2>2 DEF Alike
  <2> QED
    BY <2>3, LoopsAgree
<1>8. Told(did, j) = chosen[N]
  BY DEF Told
<1>9. N \in 0 .. N
  BY <1>1
<1> HIDE DEF chosen, round, rec
<1> QED
  BY <1>3, <1>4, <1>7, <1>8, <1>9

LEMMA ToldEventByEvent ==
  ASSUME NEW did \in Seq(EVENTS), NEW j
  PROVE  /\ Told(did, j) \in Seq(BOOLEAN)
         /\ Told(<<>>, j) = <<>>
         /\ \A e \in EVENTS : Told(Append(did, e), j) = Hears(e, j, Told(did, j))
<1> DEFINE S == Seq(BOOLEAN)
           Next1(told, levels, i) == Hears(levels[i], j, told[i - 1])
<1>1. <<>> \in Seq(EVENTS) /\ Len(did) \in Nat /\ Len(<<>>) = 0
  OBVIOUS
<1>2. PICK told \in [0 .. Len(did) -> S] :
         /\ Told(did, j) = told[Len(did)] /\ told[0] = <<>>
         /\ \A i \in 1 .. Len(did) : told[i] = Next1(told, did, i)
  BY ToldIsALoop
<1>3. Told(<<>>, j) = <<>>
  <2>1. \E t \in [0 .. Len(<<>>) -> S] : Told(<<>>, j) = t[Len(<<>>)] /\ t[0] = <<>>
    BY <1>1, ToldIsALoop
  <2> QED
    BY <1>1, <2>1
<1>4. ASSUME NEW e \in EVENTS
      PROVE  Told(Append(did, e), j) = Hears(e, j, Told(did, j))
  <2> DEFINE N == Len(did)
             hl == Append(did, e)
  <2>1. /\ hl \in Seq(EVENTS) /\ Len(hl) = N + 1 /\ hl[N + 1] = e
        /\ \A i \in 1 .. N : hl[i] = did[i]
    OBVIOUS
  <2>2. PICK t \in [0 .. Len(hl) -> S] :
           /\ Told(hl, j) = t[Len(hl)] /\ t[0] = <<>>
           /\ \A i \in 1 .. Len(hl) : t[i] = Next1(t, hl, i)
    <3> HIDE DEF hl, S
    <3> QED
      BY <2>1, ToldIsALoop DEF S
  <2>3. N \in Nat /\ N \in 0 .. N /\ N + 1 \in 1 .. N + 1 /\ N + 1 - 1 = N
        /\ \A i \in 1 .. N : i \in 1 .. N + 1
    BY <1>1
  <2> HIDE DEF N, hl, S
  <2>5. ASSUME NEW i \in 1 .. N, told[i - 1] = t[i - 1] PROVE told[i] = t[i]
    <3>1. told[i] = Next1(told, did, i) /\ t[i] = Next1(t, hl, i) /\ hl[i] = did[i]
      BY <1>2, <2>1, <2>2, <2>3 DEF N
    <3> QED
      BY <2>3, <2>5, <3>1
  <2>6. told[N] = t[N]
    <3>1. Alike(N, told, t)
      BY <1>2, <2>2, <2>3, <2>5 DEF Alike
    <3> QED
      BY <2>3, <3>1, LoopsAgree
  <2>7. Told(did, j) = told[N]
    BY <1>2 DEF N
  <2>8. Told(hl, j) = t[N + 1] /\ t[N + 1] = Next1(t, hl, N + 1)
    BY <2>1, <2>2, <2>3
  <2>9. Next1(t, hl, N + 1) = Hears(e, j, t[N])
    BY <2>1, <2>3
  <2> HIDE DEF Next1
  <2> QED
    BY <2>6, <2>7, <2>8, <2>9 DEF N, hl
<1>5. Told(did, j) \in S
  BY <1>1, <1>2
<1> QED
  BY <1>3, <1>4, <1>5

-----------------------------------------------------------------------------
(* The invariant.                                                          *)

\* The reference half-way through a frame.
HalfWay(m, h, mv) ==
    NativeKeys(Reference(m.phone, mv), Earlier(mv, Len(mv) + 1), h)

\* A machine, the levels told of a frame, and a movie belong together.
Follows(m, h, mv) ==
    /\ m.phone \in PHONES /\ m \in Machines(m.phone, m.video)
    /\ h \in ROWS /\ mv \in MOVIES
    /\ m.did = HalfWay(m, h, mv).did
    /\ m.buttons = HalfWay(m, h, mv).buttons
    /\ m.buttons = [i \in BUTTONS |-> IF i <= Len(h) THEN h[i]
                                      ELSE Earlier(mv, Len(mv) + 1)[i]]

\* A phone heard of a key by turns, and last how it is.
InTurn(m) ==
    \A i \in BUTTONS :
        LET told == Told(m.did, i)
        IN  /\ \A k \in 1 .. Len(told) : told[k] = (k % 2 = 1)
            /\ m.phone.server => m.buttons[i] = (Len(told) % 2 = 1)

Sound(m, h, mv) == Follows(m, h, mv) /\ InTurn(m)

SoundInv ==
    /\ Sound(machine, held, movie)
    /\ DOMAIN states = SLOTS
    /\ \A s \in SLOTS :
           states[s] # NONE => Sound(states[s].machine, states[s].held, states[s].movie)

\* A level is told of the next button.
LEMMA KeyFollows ==
  ASSUME NEW m, NEW h, NEW mv, NEW l \in BOOLEAN, Sound(m, h, mv), Len(h) < N_BUTTONS
  PROVE  Sound(set_button(m, Len(h) + 1, l), Append(h, l), mv)
<1> DEFINE i == Len(h) + 1
           n == set_button(m, i, l)
           hl == Append(h, l)
           phone == m.phone
           e == <<"key", i, l>>
           before == Earlier(mv, Len(mv) + 1)
           r == Reference(phone, mv)
           x == NativeKeys(r, before, h)
<1>1. /\ i \in BUTTONS /\ hl \in ROWS /\ Len(hl) = i
      /\ Len(h) \in Nat /\ hl[i] = l /\ \A j \in 1 .. Len(h) : hl[j] = h[j]
  BY Buttons DEF Sound, Follows, ROWS
<1>2. /\ m \in Machines(phone, m.video) /\ phone \in PHONES /\ mv \in MOVIES /\ h \in ROWS
      /\ m.did = x.did /\ m.buttons = x.buttons /\ InTurn(m)
      /\ m.buttons = [j \in BUTTONS |-> IF j <= Len(h) THEN h[j] ELSE before[j]]
  BY DEF Sound, Follows, HalfWay
<1>3. r \in Machines(phone, BLANK)
  BY <1>2, FrameByFrame
<1>4. /\ x \in Machines(phone, BLANK)
      /\ NativeKeys(r, before, hl) = IF l = before[i] THEN x ELSE set_button(x, i, l)
  BY <1>2, <1>3, KeyByKey
<1>5. m.buttons[i] = before[i] /\ phone.server \in BOOLEAN
  BY <1>1, <1>2, FrontendAssumption
<1> HIDE DEF phone, i, r, x, before, hl, n, e
<1>6. /\ n \in Machines(phone, m.video) /\ n.buttons = [m.buttons EXCEPT ![i] = l]
      /\ n.did = IF m.buttons[i] = l \/ ~phone.server THEN m.did ELSE Append(m.did, e)
  BY <1>1, <1>2, SetButtonType DEF n, e
<1>7. n.phone = phone /\ n.video = m.video
  BY <1>6 DEF Machines
<1>8. /\ n.did = NativeKeys(r, before, hl).did
      /\ n.buttons = NativeKeys(r, before, hl).buttons
  <2>1. CASE l = before[i]
    <3>1. [m.buttons EXCEPT ![i] = l] = m.buttons
      BY <1>2, <1>5, <2>1
    <3> QED
      BY <1>2, <1>4, <1>5, <1>6, <2>1, <3>1
  <2>2. CASE l # before[i]
    <3>1. /\ set_button(x, i, l).buttons = [x.buttons EXCEPT ![i] = l]
          /\ set_button(x, i, l).did
                = IF x.buttons[i] = l \/ ~phone.server THEN x.did ELSE Append(x.did, e)
      BY <1>1, <1>4, SetButtonType DEF e
    <3> QED
      BY <1>2, <1>4, <1>6, <2>2, <3>1
  <2> QED
    BY <2>1, <2>2
<1>9. n.buttons = [j \in BUTTONS |-> IF j <= Len(hl) THEN hl[j] ELSE before[j]]
  <2>1. ASSUME NEW j \in BUTTONS
        PROVE  [m.buttons EXCEPT ![i] = l][j]
                   = IF j <= Len(hl) THEN hl[j] ELSE before[j]
    <3>1. j \in Nat /\ i \in Nat /\ Len(h) + 1 = i
      BY <1>1, Buttons DEF i
    <3>2. CASE j = i
      BY <1>1, <1>2, <3>1, <3>2
    <3>3. CASE j < i
      BY <1>1, <1>2, <3>1, <3>3
    <3>4. CASE j > i
      BY <1>1, <1>2, <3>1, <3>4
    <3> QED
      BY <3>1, <3>2, <3>3, <3>4
  <2> QED
    BY <1>2, <1>6, <2>1
<1>10. InTurn(n)
  <2> SUFFICES ASSUME NEW j \in BUTTONS
               PROVE  /\ \A k \in 1 .. Len(Told(n.did, j)) : Told(n.did, j)[k] = (k % 2 = 1)
                      /\ phone.server => n.buttons[j] = (Len(Told(n.did, j)) % 2 = 1)
    BY <1>7 DEF InTurn
  <2> DEFINE t == Told(m.did, j)
  <2>1. /\ \A k \in 1 .. Len(t) : t[k] = (k % 2 = 1)
        /\ phone.server => m.buttons[j] = (Len(t) % 2 = 1)
    BY <1>2 DEF InTurn, phone
  <2>2. m.did \in Seq(EVENTS) /\ e \in EVENTS
    BY <1>1, <1>2 DEF Machines, EVENTS, KEYS, e
  <2>3. t \in Seq(BOOLEAN) /\ Told(Append(m.did, e), j) = Hears(e, j, t)
    BY <2>2, ToldEventByEvent
  <2> HIDE DEF t
  <2>4. CASE ~phone.server
    BY <1>6, <2>1, <2>4 DEF t
  <2>5. CASE phone.server /\ m.buttons[i] = l
    <3>1. n.did = m.did /\ n.buttons = m.buttons
      BY <1>1, <1>2, <1>6, <2>5
    <3> QED
      BY <2>1, <3>1 DEF t
  <2>6. CASE phone.server /\ m.buttons[i] # l /\ i # j
    <3>1. Told(n.did, j) = t /\ n.buttons[j] = m.buttons[j]
      BY <1>1, <1>2, <1>6, <2>3, <2>6 DEF Hears, e
    <3> QED
      BY <2>1, <3>1
  <2>7. CASE phone.server /\ m.buttons[i] # l /\ i = j
    <3>1. Told(n.did, j) = Append(t, l) /\ n.buttons[j] = l
      BY <1>1, <1>2, <1>6, <2>3, <2>7 DEF Hears, e
    <3>2. m.buttons[j] \in BOOLEAN /\ m.buttons[j] = (Len(t) % 2 = 1)
      BY <1>2, <2>1, <2>7 DEF Machines
    <3>3. /\ Len(t) \in Nat /\ Len(Append(t, l)) = Len(t) + 1
          /\ Append(t, l)[Len(t) + 1] = l
          /\ \A k \in 1 .. Len(t) : Append(t, l)[k] = t[k]
      BY <2>3
    <3>4. l = ((Len(t) + 1) % 2 = 1)
      BY <2>7, <3>2, <3>3
    <3>5. ASSUME NEW k \in 1 .. Len(t) + 1 PROVE Append(t, l)[k] = (k % 2 = 1)
      <4>1. CASE k = Len(t) + 1
        BY <3>3, <3>4, <4>1
      <4>2. CASE k # Len(t) + 1
        <5>1. k \in 1 .. Len(t)
          BY <3>3, <4>2
        <5> QED
          BY <2>1, <3>3, <5>1
      <4> QED
        BY <4>1, <4>2
    <3> QED
      BY <3>1, <3>3, <3>4, <3>5
  <2> QED
    BY <1>5, <2>4, <2>5, <2>6, <2>7
<1> QED
  BY <1>1, <1>2, <1>6, <1>7, <1>8, <1>9, <1>10
  DEF Sound, Follows, HalfWay, n, hl, i, before, r

\* A frame tells no key.
LEMMA FrameTellsNoKey ==
  ASSUME NEW phone, NEW video, NEW m \in Machines(phone, video), NEW j
  PROVE  Told(FrameOf(m).m.did, j) = Told(m.did, j)
<1> DEFINE run == <<"run">>
           pull == <<"pull">>
           compose == <<"compose">>
           did1 == Append(m.did, run)
           did2 == Append(did1, pull)
           m1 == Does(m, run)
           m2 == Does(m1, pull)
<1>1. run \in EVENTS /\ pull \in EVENTS /\ compose \in EVENTS
  BY DEF EVENTS
<1>2. \A v : Hears(run, j, v) = v /\ Hears(pull, j, v) = v /\ Hears(compose, j, v) = v
  BY DEF Hears
<1>3. FrameOf(m).m = read_screen(m2).m
  BY DEF FrameOf, run_for_us, render_audio
<1> HIDE DEF run, pull, compose, did1, did2, m1, m2
<1>4. m1 \in Machines(phone, video) /\ m1.did = did1
  BY <1>1, DoesType DEF m1, did1
<1>5. m2 \in Machines(phone, video) /\ m2.did = did2
  BY <1>1, <1>4, DoesType DEF m2, did2
<1>6. read_screen(m2).m.did \in {did2, Append(did2, compose)}
  BY <1>5, ReadScreenType DEF compose
<1>7. m.did \in Seq(EVENTS) /\ did1 \in Seq(EVENTS) /\ did2 \in Seq(EVENTS)
  BY <1>4, <1>5 DEF Machines
<1>8. Told(did1, j) = Told(m.did, j)
  BY <1>1, <1>2, <1>7, ToldEventByEvent DEF did1
<1>9. Told(did2, j) = Told(did1, j)
  BY <1>1, <1>2, <1>7, ToldEventByEvent DEF did2
<1>10. Told(Append(did2, compose), j) = Told(did2, j)
  BY <1>1, <1>2, <1>7, ToldEventByEvent
<1> QED
  BY <1>3, <1>6, <1>8, <1>9, <1>10

\* The frame advances.
LEMMA FrameFollows ==
  ASSUME NEW m, NEW h, NEW mv, Sound(m, h, mv), Len(h) = N_BUTTONS
  PROVE  Sound(Advanced(m), <<>>, Append(mv, h))
<1> DEFINE n == Advanced(m)
           f == FrameOf(m).m
           mvh == Append(mv, h)
           phone == m.phone
           before == Earlier(mv, Len(mv) + 1)
           r == Reference(phone, mv)
           x == NativeKeys(r, before, h)
           after == Reference(phone, mvh)
           next == Earlier(mvh, Len(mvh) + 1)
<1>1. /\ m \in Machines(phone, m.video) /\ phone \in PHONES /\ mv \in MOVIES /\ h \in ROWS
      /\ m.did = x.did /\ m.buttons = x.buttons /\ InTurn(m)
      /\ m.buttons = [j \in BUTTONS |-> IF j <= Len(h) THEN h[j] ELSE before[j]]
  BY DEF Sound, Follows, HalfWay
<1>2. h \in LEVELS /\ <<>> \in ROWS /\ Len(<<>>) = 0
  BY <1>1, Buttons DEF LEVELS, ROWS
<1>3. mvh \in MOVIES /\ next = h
  <2>1. mvh \in MOVIES /\ Len(mvh) = Len(mv) + 1 /\ mvh[Len(mv) + 1] = h /\ Len(mv) \in Nat
    BY <1>1, <1>2 DEF MOVIES
  <2> HIDE DEF mvh
  <2> QED
    BY <2>1 DEF Earlier
<1>4. r \in Machines(phone, BLANK) /\ after \in Machines(phone, BLANK)
  BY <1>1, <1>3, FrameByFrame
<1>5. after = NativeFrame(r, before, h)
  BY <1>1, <1>2, FrameByFrame
<1>6. after = FrameOf(x).m
  BY <1>2, <1>4, <1>5, NativeFrameType
<1>7. x \in Machines(phone, BLANK)
  BY <1>1, <1>4, KeyByKey
<1> HIDE DEF phone, r, x, before, mvh, after, next, f
<1>8. /\ f \in Machines(phone, m.video) /\ f.buttons = m.buttons
      /\ f.did = after.did /\ after.buttons = x.buttons
  <2>1. /\ f \in Machines(phone, m.video) /\ f.buttons = m.buttons
        /\ f.did = FrameOf(x).m.did
    BY <1>1, <1>7, FrameType DEF f
  <2>2. FrameOf(x).m.buttons = x.buttons
    BY <1>7, FrameType
  <2> QED
    BY <1>6, <2>1, <2>2
<1>9. n \in Machines(phone, n.video) /\ n.did = f.did /\ n.buttons = f.buttons
  <2>1. n = f \/ \E picture : n = [f EXCEPT !.video = picture]
    BY DEF Advanced, FrameOf, f
  <2>2. ASSUME NEW picture, n = [f EXCEPT !.video = picture]
        PROVE  n \in Machines(phone, n.video) /\ n.did = f.did /\ n.buttons = f.buttons
    <3> HIDE DEF n
    <3> QED
      BY <1>8, <2>2 DEF Machines
  <2>3. ASSUME n = f
        PROVE  n \in Machines(phone, n.video) /\ n.did = f.did /\ n.buttons = f.buttons
    <3> HIDE DEF n
    <3> QED
      BY <1>8, <2>3 DEF Machines
  <2> HIDE DEF n
  <2> QED
    BY <2>1, <2>2, <2>3
<1> HIDE DEF n
<1>10. n.phone = phone
  BY <1>9 DEF Machines
<1>11. NativeKeys(after, next, <<>>) = after
  BY <1>2, <1>4, KeyByKey
<1>12. n.buttons = [j \in BUTTONS |-> IF j <= Len(<<>>) THEN <<>>[j] ELSE next[j]]
  <2>1. ASSUME NEW j \in BUTTONS PROVE j <= Len(h) /\ ~(j <= Len(<<>>))
    BY <1>2, Buttons
  <2> QED
    BY <1>1, <1>3, <1>8, <1>9, <2>1
<1>13. InTurn(n)
  <2>1. \A j : Told(n.did, j) = Told(m.did, j)
    BY <1>1, <1>9, FrameTellsNoKey DEF f
  <2> QED
    BY <1>1, <1>8, <1>9, <1>10, <2>1 DEF InTurn, phone
<1>14. HalfWay(n, <<>>, mvh) = after
  BY <1>10, <1>11 DEF HalfWay, after, next
<1> QED
  BY <1>1, <1>2, <1>3, <1>8, <1>9, <1>10, <1>12, <1>13, <1>14
  DEF Sound, Follows, n, mvh, next

\* A machine that was booted anew.
LEMMA BootedFollows ==
  ASSUME NEW phone \in PHONES
  PROVE  Sound(Booted(phone), <<>>, <<>>)
<1> DEFINE m == Booted(phone)
<1>1. /\ m \in Machines(phone, BLANK) /\ m.phone = phone /\ m.video = BLANK
      /\ m.did = <<>> /\ m.buttons = NobodyHeld
  BY BootedType DEF Booted, NobodyHeld
<1>2. <<>> \in ROWS /\ <<>> \in MOVIES /\ Len(<<>>) = 0
  BY Buttons DEF ROWS, MOVIES
<1>3. Earlier(<<>>, Len(<<>>) + 1) = NobodyHeld
  BY <1>2 DEF Earlier
<1>4. HalfWay(m, <<>>, <<>>) = m
  <2>1. Reference(phone, <<>>) = m
    BY <1>2, FrameByFrame
  <2> HIDE DEF m
  <2>2. NativeKeys(m, NobodyHeld, <<>>) = m
    BY <1>1, <1>2, KeyByKey
  <2> QED
    BY <1>1, <1>3, <2>1, <2>2 DEF HalfWay
<1> HIDE DEF m
<1>5. Follows(m, <<>>, <<>>)
  <2>1. NobodyHeld = [j \in BUTTONS |-> IF j <= Len(<<>>) THEN <<>>[j] ELSE NobodyHeld[j]]
    <3>1. ASSUME NEW j \in BUTTONS PROVE ~(j <= Len(<<>>))
      BY <1>2, Buttons
    <3> QED
      BY <3>1, Buttons
  <2> QED
    BY <1>1, <1>2, <1>3, <1>4, <2>1 DEF Follows
<1>6. InTurn(m)
  <2>1. \A j : Told(m.did, j) = <<>>
    <3>1. <<>> \in Seq(EVENTS)
      OBVIOUS
    <3> QED
      BY <1>1, <3>1, ToldEventByEvent
  <2>2. \A j \in BUTTONS : m.buttons[j] = FALSE
    BY <1>1 DEF NobodyHeld
  <2>3. Len(<<>>) = 0 /\ 1 .. Len(<<>>) = {} /\ ~(0 % 2 = 1)
    BY <1>2
  <2> QED
    BY <2>1, <2>2, <2>3 DEF InTurn
<1> QED
  BY <1>5, <1>6 DEF Sound, m

LEMMA SoundInitial == Init => SoundInv
<1> SUFFICES ASSUME Init PROVE SoundInv
  OBVIOUS
<1>1. PICK phone \in PHONES : machine = Booted(phone)
  BY DEF Init
<1>2. Sound(machine, held, movie)
  BY <1>1, BootedFollows DEF Init
<1> QED
  BY <1>2 DEF Init, SoundInv

LEMMA SoundStep == SoundInv /\ [Next]_vars => SoundInv'
<1> SUFFICES ASSUME SoundInv, [Next]_vars PROVE SoundInv'
  OBVIOUS
<1> USE DEF SoundInv
<1>1. ASSUME NEW level \in BOOLEAN, SetButton(level) PROVE SoundInv'
  <2>1. Sound(machine, held, movie)' /\ UNCHANGED states
    BY <1>1, KeyFollows DEF SetButton
  <2> QED
    BY <2>1
<1>2. ASSUME FrameAdvance PROVE SoundInv'
  <2>1. Sound(machine, held, movie)' /\ UNCHANGED states
    BY <1>2, FrameFollows DEF FrameAdvance
  <2> QED
    BY <2>1
<1>3. ASSUME NEW s \in SLOTS, SaveState(s) PROVE SoundInv'
  <2>1. UNCHANGED <<machine, held, movie>> /\ DOMAIN states' = SLOTS
    BY <1>3 DEF SaveState
  <2>2. ASSUME NEW t \in SLOTS, states'[t] # NONE
        PROVE  Sound(states'[t].machine, states'[t].held, states'[t].movie)
    BY <1>3, <2>2 DEF SaveState
  <2> QED
    BY <2>1, <2>2
<1>4. ASSUME NEW s \in SLOTS, LoadState(s) PROVE SoundInv'
  BY <1>4 DEF LoadState
<1>5. ASSUME NewProcess PROVE SoundInv'
  <2>1. machine.phone \in PHONES
    BY DEF Sound, Follows
  <2>2. Sound(machine, held, movie)' /\ UNCHANGED states
    BY <1>5, <2>1, BootedFollows DEF NewProcess
  <2> QED
    BY <2>2
<1>6. ASSUME UNCHANGED vars PROVE SoundInv'
  BY <1>6 DEF vars
<1> QED
  BY <1>1, <1>2, <1>3, <1>4, <1>5, <1>6 DEF Next

LEMMA SpecSound == Spec => []SoundInv
  BY SoundInitial, SoundStep, PTL DEF Spec

(***************************************************************************)
(* However a movie was made, over any number of states and processes, the  *)
(* machine is where the reference arrives in one go, on any phone whose    *)
(* screen is a matter of what was done to it (FrameAdvance, the harness's  *)
(* loop, "The same machine, saved and reloaded before EVERY frame").       *)
(***************************************************************************)
THEOREM MachineFollowsTheMovie == Spec => []MachineIsTheReference
<1>1. SoundInv => MachineIsTheReference
  <2> SUFFICES ASSUME SoundInv, held = <<>> PROVE
          /\ machine.did = Reference(machine.phone, movie).did
          /\ machine.buttons = Reference(machine.phone, movie).buttons
    BY DEF MachineIsTheReference
  <2> DEFINE r == Reference(machine.phone, movie)
             before == Earlier(movie, Len(movie) + 1)
  <2>1. /\ machine.did = NativeKeys(r, before, <<>>).did
        /\ machine.buttons = NativeKeys(r, before, <<>>).buttons
        /\ movie \in MOVIES /\ <<>> \in ROWS
    BY DEF SoundInv, Sound, Follows, HalfWay
  <2>2. r \in Machines(machine.phone, BLANK)
    BY <2>1, FrameByFrame
  <2> HIDE DEF r, before
  <2>3. NativeKeys(r, before, <<>>) = r
    BY <2>1, <2>2, KeyByKey
  <2> QED
    BY <2>1, <2>3 DEF r
<1> QED
  BY <1>1, SpecSound, PTL

(***************************************************************************)
(* The phone hears of each key by turns, a press first, and last the level *)
(* the host last told, for any number of buttons, states and files         *)
(* (set_button, machine.cpp).                                              *)
(***************************************************************************)
THEOREM PhoneHearsByTurns == Spec => []KeysComeInTurn
<1>1. SoundInv => KeysComeInTurn
  <2> SUFFICES ASSUME SoundInv, NEW i \in BUTTONS
               PROVE  LET told == Told(machine.did, i)
                      IN  /\ \A k \in DOMAIN told : told[k] = (k % 2 = 1)
                          /\ machine.phone.server /\ i <= Len(held) =>
                                 held[i] = (told # <<>> /\ Last(told))
    BY DEF KeysComeInTurn
  <2> DEFINE told == Told(machine.did, i)
  <2>1. /\ \A k \in 1 .. Len(told) : told[k] = (k % 2 = 1)
        /\ machine.phone.server => machine.buttons[i] = (Len(told) % 2 = 1)
    BY DEF SoundInv, Sound, InTurn
  <2>2. machine.did \in Seq(EVENTS) /\ held \in Seq(BOOLEAN)
    BY DEF SoundInv, Sound, Follows, Machines, ROWS
  <2>3. told \in Seq(BOOLEAN)
    BY <2>2, ToldEventByEvent
  <2>4. i <= Len(held) => machine.buttons[i] = held[i]
    BY DEF SoundInv, Sound, Follows
  <2> HIDE DEF told
  <2>5. ASSUME machine.phone.server, i <= Len(held)
        PROVE  held[i] = (told # <<>> /\ Last(told))
    <3>1. held[i] = (Len(told) % 2 = 1)
      BY <2>1, <2>4, <2>5
    <3>2. CASE told = <<>>
      <4>1. Len(told) = 0 /\ ~(0 % 2 = 1)
        BY <3>2
      <4> QED
        BY <3>1, <3>2, <4>1
    <3>3. CASE told # <<>>
      <4>1. Len(told) \in 1 .. Len(told) /\ Last(told) = told[Len(told)]
        BY <2>3, <3>3 DEF Last
      <4>2. Last(told) = (Len(told) % 2 = 1)
        BY <2>1, <4>1
      <4> QED
        BY <3>1, <3>3, <4>2
    <3> QED
      BY <3>2, <3>3
  <2>6. DOMAIN told = 1 .. Len(told)
    BY <2>3
  <2> QED
    BY <2>1, <2>5, <2>6 DEF told
<1> QED
  BY <1>1, SpecSound, PTL

-----------------------------------------------------------------------------
(* Pictures.                                                               *)

\* A word's bits, each part of it by itself.
Twelve(word, a, b, c) ==
    /\ a \in 0 .. 15 /\ b \in 0 .. 15 /\ c \in 0 .. 15
    /\ word = a * 256 + b * 16 + c

LEMMA BitsOfTwelve ==
  ASSUME NEW word, NEW a, NEW b, NEW c, Twelve(word, a, b, c)
  PROVE  Bits(word, 8, 4) = a /\ Bits(word, 4, 4) = b /\ Bits(word, 0, 4) = c
  BY SMT DEF Bits, Twelve

Sixteen(word, a, b, c) ==
    /\ a \in 0 .. 31 /\ b \in 0 .. 63 /\ c \in 0 .. 31
    /\ word = a * 2048 + b * 32 + c

LEMMA BitsOfSixteen ==
  ASSUME NEW word, NEW a, NEW b, NEW c, Sixteen(word, a, b, c)
  PROVE  Bits(word, 11, 5) = a /\ Bits(word, 5, 6) = b /\ Bits(word, 0, 5) = c
  BY SMT DEF Bits, Sixteen

Bytes(word, a, b, c) ==
    /\ a \in 0 .. 255 /\ b \in 0 .. 255 /\ c \in 0 .. 255
    /\ word = a * 65536 + b * 256 + c

LEMMA BitsOfBytes ==
  ASSUME NEW word, NEW a, NEW b, NEW c, Bytes(word, a, b, c)
  PROVE  Bits(word, 16, 8) = a /\ Bits(word, 8, 8) = b /\ Bits(word, 0, 8) = c
  BY SMT DEF Bits, Bytes

\* A colour is near another where each of its channels is.
LEMMA ChannelByChannel ==
  ASSUME NEW drawn \in Colours, NEW by \in Nat,
         NEW x \in 0 .. 255, NEW y \in 0 .. 255, NEW z \in 0 .. 255,
         x - drawn[1] \in -by .. by,
         y - drawn[2] \in -by .. by,
         z - drawn[3] \in -by .. by
  PROVE  /\ <<x, y, z>> \in Colours
         /\ \A c \in 1 .. 3 : <<x, y, z>>[c] - drawn[c] \in -by .. by
<1>1. <<x, y, z>> \in Colours
  BY DEF Colours
<1>2. ASSUME NEW c \in 1 .. 3
      PROVE  <<x, y, z>>[c] - drawn[c] \in -by .. by
  <2>1. c = 1 \/ c = 2 \/ c = 3
    OBVIOUS
  <2>2. /\ <<x, y, z>>[1] = x
        /\ <<x, y, z>>[2] = y
        /\ <<x, y, z>>[3] = z
    OBVIOUS
  <2> QED
    BY <2>1, <2>2
<1> QED
  BY <1>1, <1>2

\* A panel's memory means the colour drawn, as near as its depth comes.
LEMMA PanelIsRead ==
  ASSUME NEW scr \in Screens, OnThePanel(scr), scr.size # 0
  PROVE  /\ read_framebuffer(scr) \in Pictures
         /\ read_framebuffer(scr).size = scr.size
         /\ \A c \in 1 .. 3 :
                read_framebuffer(scr).colour[c] - scr.drawn[c]
                    \in -Coarse(scr) .. Coarse(scr)
<1> DEFINE r == scr.drawn[1]
           g == scr.drawn[2]
           b == scr.drawn[3]
<1>0. scr.drawn \in Colours
  BY DEF Screens
<1>1. r \in 0 .. 255 /\ g \in 0 .. 255 /\ b \in 0 .. 255
  BY <1>0 DEF Colours
<1>2. scr.size \in Nat /\ scr.upright /\ scr.depth \in {12, 16, 24, 32}
  BY DEF Screens, OnThePanel
<1> DEFINE panel == Painted(scr.depth, scr.drawn)
           colour == read_framebuffer(scr).colour
           Fine(by) == /\ colour \in Colours
                       /\ \A c \in 1 .. 3 : colour[c] - scr.drawn[c] \in -by .. by
<1> HIDE DEF r, g, b
<1>3. CASE scr.depth = 12
  <2> DEFINE q(x) == x \div 16
  <2>1. panel = q(r) * 256 + q(g) * 16 + q(b)
    BY <1>3 DEF Painted, r, g, b
  <2>2. colour = <<Bits(panel, 8, 4) * 17, Bits(panel, 4, 4) * 17, Bits(panel, 0, 4) * 17>>
    BY <1>2, <1>3 DEF read_framebuffer, unpack12
  <2>3. q(r) \in 0 .. 15 /\ q(g) \in 0 .. 15 /\ q(b) \in 0 .. 15
    BY <1>1
  <2>4. /\ q(r) * 17 - r \in -15 .. 15 /\ q(g) * 17 - g \in -15 .. 15
        /\ q(b) * 17 - b \in -15 .. 15
    BY <1>1
  <2> HIDE DEF q, panel, colour
  <2>5. /\ Bits(panel, 8, 4) = q(r) /\ Bits(panel, 4, 4) = q(g)
        /\ Bits(panel, 0, 4) = q(b)
    <3>1. Twelve(panel, q(r), q(g), q(b))
      BY <2>1, <2>3 DEF Twelve
    <3> QED
      BY <3>1, BitsOfTwelve
  <2>6. colour = <<q(r) * 17, q(g) * 17, q(b) * 17>>
    BY <2>2, <2>5
  <2>7. q(r) * 17 \in 0 .. 255 /\ q(g) * 17 \in 0 .. 255 /\ q(b) * 17 \in 0 .. 255
    BY <2>3
  <2>8. Fine(15)
    BY <1>0, <2>4, <2>6, <2>7, ChannelByChannel DEF r, g, b
  <2> QED
    BY <1>2, <1>3, <2>8 DEF read_framebuffer, Coarse, OnThePanel, Pictures, colour
<1>4. CASE scr.depth = 16
  <2> DEFINE p(x) == x \div 8
             q(x) == x \div 4
             five(x) == (x * 255) \div 31
             six(x) == (x * 255) \div 63
  <2>1. panel = p(r) * 2048 + q(g) * 32 + p(b)
    BY <1>4 DEF Painted, r, g, b
  <2>2. colour = <<five(Bits(panel, 11, 5)), six(Bits(panel, 5, 6)), five(Bits(panel, 0, 5))>>
    BY <1>2, <1>4 DEF read_framebuffer, unpack16
  <2>3. p(r) \in 0 .. 31 /\ q(g) \in 0 .. 63 /\ p(b) \in 0 .. 31
    BY <1>1
  <2>4. /\ five(p(r)) - r \in -7 .. 7 /\ six(q(g)) - g \in -7 .. 7
        /\ five(p(b)) - b \in -7 .. 7
        /\ five(p(r)) \in 0 .. 255 /\ six(q(g)) \in 0 .. 255 /\ five(p(b)) \in 0 .. 255
    BY <1>1
  <2> HIDE DEF p, q, five, six, panel, colour
  <2>5. /\ Bits(panel, 11, 5) = p(r) /\ Bits(panel, 5, 6) = q(g)
        /\ Bits(panel, 0, 5) = p(b)
    <3>1. Sixteen(panel, p(r), q(g), p(b))
      BY <2>1, <2>3 DEF Sixteen
    <3> QED
      BY <3>1, BitsOfSixteen
  <2>6. colour = <<five(p(r)), six(q(g)), five(p(b))>>
    BY <2>2, <2>5
  <2>7. Fine(7)
    BY <1>0, <2>4, <2>6, ChannelByChannel DEF r, g, b
  <2> QED
    BY <1>2, <1>4, <2>7 DEF read_framebuffer, Coarse, OnThePanel, Pictures, colour
<1>5. CASE scr.depth \in {24, 32}
  <2>1. panel = r * 65536 + g * 256 + b
    BY <1>5 DEF Painted, r, g, b
  <2>2. colour = <<Bits(panel, 16, 8), Bits(panel, 8, 8), Bits(panel, 0, 8)>>
    BY <1>2, <1>5 DEF read_framebuffer, unpack24
  <2> HIDE DEF panel, colour
  <2>3. Bits(panel, 16, 8) = r /\ Bits(panel, 8, 8) = g /\ Bits(panel, 0, 8) = b
    <3>1. Bytes(panel, r, g, b)
      BY <1>1, <2>1 DEF Bytes
    <3> QED
      BY <3>1, BitsOfBytes
  <2>4. colour = scr.drawn
    BY <1>0, <2>2, <2>3 DEF Colours, r, g, b
  <2>5. Fine(0)
    <3>1. \A c \in 1 .. 3 : scr.drawn[c] \in Int
      BY <1>0 DEF Colours
    <3>2. \A c \in 1 .. 3 : scr.drawn[c] - scr.drawn[c] \in -0 .. 0
      BY <3>1
    <3> QED
      BY <1>0, <2>4, <3>2
  <2> QED
    BY <1>2, <1>5, <2>5 DEF read_framebuffer, Coarse, OnThePanel, Pictures, colour
<1> QED
  BY <1>2, <1>3, <1>4, <1>5

\* What is composed is read back as it is.
LEMMA ComposedIsRead ==
  ASSUME NEW colour \in Colours
  PROVE  rgba_bytes_to_argb(Composed(colour)) = colour
<1> DEFINE r == colour[1]
           g == colour[2]
           b == colour[3]
<1>1. r \in 0 .. 255 /\ g \in 0 .. 255 /\ b \in 0 .. 255
  BY DEF Colours
<1>2. colour = <<r, g, b>>
  BY DEF Colours
<1> DEFINE word == b * 65536 + g * 256 + r
<1>3. Composed(colour) = r + g * 256 + b * 65536
  BY DEF Composed
<1> HIDE DEF r, g, b
<1>4. Composed(colour) = word
  BY <1>1, <1>3
<1>5. Bits(word, 0, 8) = r /\ Bits(word, 8, 8) = g /\ Bits(word, 16, 8) = b
  <2>1. Bytes(word, b, g, r)
    BY <1>1 DEF Bytes
  <2> QED
    BY <2>1, BitsOfBytes
<1> QED
  BY <1>2, <1>4, <1>5 DEF rgba_bytes_to_argb

\* A picture of a screen.
Shows(video, scr) ==
    /\ video.size = scr.size
    /\ \A c \in 1 .. 3 :
           video.colour[c] - Seen(scr)[c] \in -Coarse(scr) .. Coarse(scr)

LEMMA ScreenIsRead ==
  ASSUME NEW m, NEW scr \in Screens, scr = Screen(m.phone, m.did), m.phone \in PHONES
  PROVE  IF IsSeen(m.phone, scr) /\ scr.size # 0
         THEN read_screen(m).picture \in Pictures /\ Shows(read_screen(m).picture, scr)
         ELSE read_screen(m).picture = NONE
<1> DEFINE direct == read_framebuffer(scr)
           composed == [size |-> scr.size,
                        colour |-> rgba_bytes_to_argb(Composed(scr.windows))]
<1>1. /\ m.phone.server \in BOOLEAN /\ m.phone.driver \in BOOLEAN
      /\ \A p \in Pictures : p # NONE
  BY FrontendAssumption
<1>2. /\ scr.direct \in BOOLEAN /\ scr.upright \in BOOLEAN /\ scr.texture \in BOOLEAN
      /\ scr.read \in BOOLEAN
      /\ scr.size \in Nat /\ scr.windows \in Colours
      /\ scr.depth \in {8, 12, 16, 24, 32}
  BY DEF Screens
<1>3. CASE OnThePanel(scr) /\ scr.size # 0 /\ m.phone.server
  <2>1. direct \in Pictures /\ Shows(direct, scr)
    BY <1>3, PanelIsRead DEF Shows, Seen
  <2> HIDE DEF direct
  <2>2. read_screen(m).picture = direct
    BY <1>1, <1>3, <2>1 DEF read_screen, OnThePanel, direct
  <2> QED
    BY <1>3, <2>1, <2>2 DEF IsSeen
<1>4. CASE ~(OnThePanel(scr) /\ scr.size # 0) /\ m.phone.server
  <2>1. ~scr.direct \/ direct = NONE
    BY <1>2, <1>4 DEF read_framebuffer, OnThePanel
  <2> HIDE DEF direct
  <2>2. read_screen(m).picture
            = IF ~m.phone.driver \/ ~scr.texture \/ scr.size = 0 \/ ~scr.read THEN NONE
              ELSE composed
    BY <1>4, <2>1 DEF read_screen, direct
  <2>3. IsSeen(m.phone, scr) /\ scr.size # 0 <=>
            m.phone.driver /\ scr.texture /\ scr.read /\ scr.size # 0
    BY <1>1, <1>2, <1>4 DEF IsSeen
  <2>4. ASSUME scr.size # 0 PROVE composed \in Pictures /\ Shows(composed, scr)
    <3>1. composed = [size |-> scr.size, colour |-> scr.windows]
      BY <1>2, ComposedIsRead
    <3>2. Seen(scr) = scr.windows /\ Coarse(scr) = 0
      BY <1>4, <2>4 DEF Seen, Coarse
    <3>3. \A c \in 1 .. 3 : scr.windows[c] - scr.windows[c] \in -0 .. 0
      BY <1>2 DEF Colours
    <3> HIDE DEF composed
    <3> QED
      BY <1>2, <3>1, <3>2, <3>3 DEF Shows, Pictures
  <2> HIDE DEF composed
  <2> QED
    BY <2>2, <2>3, <2>4
<1>5. CASE ~m.phone.server
  BY <1>5 DEF read_screen, IsSeen
<1> QED
  BY <1>1, <1>3, <1>4, <1>5

\* The frames seen, one thing more having been done.
Fits(phone, scr) == IsSeen(phone, scr) /\ scr.size \in 1 .. MAX_SIZE

LEMMA OneMoreEvent ==
  ASSUME NEW did \in Seq(EVENTS), NEW e \in EVENTS
  PROVE  /\ Append(did, e) \in Seq(EVENTS)
         /\ \A k \in 1 .. Len(did) :
                /\ SubSeq(Append(did, e), 1, k) = SubSeq(did, 1, k)
                /\ Append(did, e)[k] = did[k]
         /\ SubSeq(Append(did, e), 1, Len(did) + 1) = Append(did, e)
         /\ Append(did, e)[Len(did) + 1] = e
         /\ DOMAIN Append(did, e) = (DOMAIN did) \cup {Len(did) + 1}
         /\ DOMAIN did = 1 .. Len(did) /\ Len(did) \in Nat
<1> DEFINE more == Append(did, e)
<1>1. /\ more \in Seq(EVENTS) /\ Len(more) = Len(did) + 1 /\ Len(did) \in Nat
      /\ more[Len(did) + 1] = e /\ \A k \in 1 .. Len(did) : more[k] = did[k]
      /\ DOMAIN more = 1 .. Len(more) /\ DOMAIN did = 1 .. Len(did)
  OBVIOUS
<1> HIDE DEF more
<1>2. ASSUME NEW k \in 1 .. Len(did) PROVE SubSeq(more, 1, k) = SubSeq(did, 1, k)
  BY <1>1
<1>3. SubSeq(more, 1, Len(did) + 1) = more
  BY <1>1
<1>4. 1 .. Len(did) + 1 = 1 .. Len(did) \cup {Len(did) + 1}
  BY <1>1
<1> QED
  BY <1>1, <1>2, <1>3, <1>4 DEF more

LEMMA GreatestNumber ==
  ASSUME NEW n \in Nat, NEW T \in SUBSET (1 .. n), T # {}
  PROVE  Max(T) \in T /\ \A k \in T : k <= Max(T)
<1> DEFINE L == {j \in 0 .. n : n - j \in T}
<1>1. PICK m \in L : \A k \in L : m <= k
  <2>1. PICK k \in T : TRUE
    OBVIOUS
  <2>2. n - k \in 0 .. n /\ n - (n - k) \in T
    OBVIOUS
  <2>3. n - k \in L /\ L \in SUBSET Nat
    BY <2>2
  <2> HIDE DEF L
  <2> QED
    BY <2>3, LeastNumber
<1>2. n - m \in T
  BY <1>1
<1>3. ASSUME NEW k \in T PROVE k <= n - m
  <2>1. n - k \in 0 .. n /\ n - (n - k) = k /\ n - k \in L
    OBVIOUS
  <2> HIDE DEF L
  <2>2. m <= n - k /\ m \in 0 .. n
    BY <1>1, <2>1 DEF L
  <2> QED
    BY <2>1, <2>2
<1> QED
  BY <1>2, <1>3 DEF Max

LEMMA FramesSeenAre ==
  ASSUME NEW phone, NEW did \in Seq(EVENTS), NEW e \in EVENTS
  PROVE  FramesSeen(phone, Append(did, e))
             = FramesSeen(phone, did) \cup
               (IF e = <<"pull">> /\ Fits(phone, Screen(phone, Append(did, e)))
                THEN {Len(did) + 1} ELSE {})
<1> DEFINE more == Append(did, e)
           Is(d, k) == d[k] = <<"pull">> /\ Fits(phone, Screen(phone, SubSeq(d, 1, k)))
<1>1. FramesSeen(phone, more) = {k \in DOMAIN more : Is(more, k)}
  BY DEF FramesSeen, Fits
<1>2. FramesSeen(phone, did) = {k \in DOMAIN did : Is(did, k)}
  BY DEF FramesSeen, Fits
<1>3. \A k \in 1 .. Len(did) : Is(more, k) <=> Is(did, k)
  BY OneMoreEvent
<1>4. Is(more, Len(did) + 1) <=> e = <<"pull">> /\ Fits(phone, Screen(phone, more))
  BY OneMoreEvent
<1>5. /\ DOMAIN more = (DOMAIN did) \cup {Len(did) + 1}
      /\ DOMAIN did = 1 .. Len(did) /\ Len(did) \in Nat
  BY OneMoreEvent
<1> HIDE DEF more, Is
<1> QED
  BY <1>1, <1>2, <1>3, <1>4, <1>5 DEF more

\* What is nothing new to see leaves the picture.
LEMMA StillShows ==
  ASSUME NEW phone, NEW did \in Seq(EVENTS), NEW e \in EVENTS, NEW video,
         ShowsTheLatest(phone, did, video),
         e # <<"pull">> \/ ~Fits(phone, Screen(phone, Append(did, e)))
  PROVE  ShowsTheLatest(phone, Append(did, e), video)
<1> DEFINE more == Append(did, e)
           frames == FramesSeen(phone, did)
<1>1. FramesSeen(phone, more) = frames
  <2> DEFINE new == IF e = <<"pull">> /\ Fits(phone, Screen(phone, more))
                    THEN {Len(did) + 1} ELSE {}
  <2>1. FramesSeen(phone, more) = frames \cup new
    BY FramesSeenAre
  <2>2. new = {}
    OBVIOUS
  <2> HIDE DEF new, frames
  <2> QED
    BY <2>1, <2>2
<1>2. \A k \in 1 .. Len(did) : SubSeq(more, 1, k) = SubSeq(did, 1, k)
  BY OneMoreEvent
<1>3. frames \in SUBSET (1 .. Len(did)) /\ Len(did) \in Nat
  BY OneMoreEvent DEF FramesSeen
<1> HIDE DEF more, frames
<1>4. frames # {} => Max(frames) \in 1 .. Len(did)
  BY <1>3, GreatestNumber
<1> QED
  BY <1>1, <1>2, <1>4 DEF ShowsTheLatest, more, frames

\* A frame with something to see is the latest.
LEMMA NowShows ==
  ASSUME NEW phone, NEW did \in Seq(EVENTS), NEW video,
         Fits(phone, Screen(phone, Append(did, <<"pull">>))),
         Shows(video, Screen(phone, Append(did, <<"pull">>)))
  PROVE  ShowsTheLatest(phone, Append(did, <<"pull">>), video)
<1> DEFINE e == <<"pull">>
           more == Append(did, e)
           frames == FramesSeen(phone, more)
<1>1. e \in EVENTS
  BY DEF EVENTS
<1> HIDE DEF e
<1>2. frames = FramesSeen(phone, did) \cup {Len(did) + 1}
  BY <1>1, FramesSeenAre DEF e
<1>3. frames \in SUBSET (1 .. Len(did) + 1) /\ Len(did) \in Nat
  <2>1. FramesSeen(phone, did) \subseteq 1 .. Len(did) /\ Len(did) \in Nat
    BY <1>1, OneMoreEvent DEF FramesSeen
  <2> HIDE DEF frames
  <2> QED
    BY <1>2, <2>1
<1>4. SubSeq(more, 1, Len(did) + 1) = more
  BY <1>1, OneMoreEvent
<1> HIDE DEF frames
<1>5. Max(frames) = Len(did) + 1
  <2> DEFINE n == Len(did) + 1
  <2>1. n \in Nat /\ n \in frames /\ frames \in SUBSET (1 .. n)
    BY <1>2, <1>3
  <2> HIDE DEF n
  <2>2. Max(frames) \in frames /\ n <= Max(frames)
    BY <2>1, GreatestNumber
  <2>3. Max(frames) \in 1 .. n
    BY <2>1, <2>2
  <2>4. Max(frames) = n
    BY <2>1, <2>2, <2>3
  <2> QED
    BY <2>4 DEF n
<1> QED
  BY <1>2, <1>4, <1>5 DEF ShowsTheLatest, Shows, frames, e

\* What a phone's screen may be, whatever was done to it.
ScreensAre == \A phone \in PHONES, did \in Seq(EVENTS) : Screen(phone, did) \in Screens

UpToDate(m) == ShowsTheLatest(m.phone, m.did, m.video)

LEMMA KeyShows ==
  ASSUME NEW m, m \in Machines(m.phone, m.video), UpToDate(m),
         NEW i \in BUTTONS, NEW level \in BOOLEAN
  PROVE  UpToDate(set_button(m, i, level))
<1> DEFINE n == set_button(m, i, level)
           e == <<"key", i, level>>
           phone == m.phone
           video == m.video
<1>1. /\ n \in Machines(phone, video)
      /\ n.did \in {m.did, Append(m.did, e)}
  <2>1. m \in Machines(phone, video)
    OBVIOUS
  <2> HIDE DEF phone, video
  <2>2. n \in Machines(phone, video)
    BY <2>1, SetButtonType
  <2>3. n.did \in {m.did, Append(m.did, e)}
    <3> DEFINE told == [m EXCEPT !.buttons[i] = level]
    <3>1. told.did = m.did /\ told \in Machines(phone, video)
      BY <2>1 DEF Machines
    <3>2. n \in {m, told, Does(told, e)}
      BY DEF set_button
    <3>3. e \in EVENTS
      BY DEF EVENTS, KEYS
    <3> HIDE DEF n, e, told
    <3>4. Does(told, e).did = Append(m.did, e)
      BY <3>1, <3>3, DoesType
    <3> QED
      BY <3>1, <3>2, <3>4
  <2> HIDE DEF n, e
  <2> QED
    BY <2>2, <2>3
<1>2. e \in EVENTS /\ e # <<"pull">>
  <2>1. e \in EVENTS
    BY DEF EVENTS, KEYS
  <2>2. e[1] = "key" /\ <<"pull">>[1] = "pull"
    OBVIOUS
  <2>3. e # <<"pull">>
    BY <2>2
  <2> QED
    BY <2>1, <2>3
<1>3. m.did \in Seq(EVENTS)
  BY DEF Machines
<1> HIDE DEF n, e
<1>4. n.phone = phone /\ n.video = video
  <2> HIDE DEF phone, video
  <2> QED
    BY <1>1 DEF Machines
<1>5. ShowsTheLatest(phone, m.did, video)
  BY DEF UpToDate
<1> HIDE DEF phone, video
<1>6. ShowsTheLatest(phone, Append(m.did, e), video)
  BY <1>2, <1>3, <1>5, StillShows
<1> QED
  BY <1>1, <1>4, <1>5, <1>6 DEF UpToDate, n

LEMMA FrameShows ==
  ASSUME ScreensAre, NEW m, m.phone \in PHONES, m \in Machines(m.phone, m.video),
         UpToDate(m)
  PROVE  UpToDate(Advanced(m))
<1> DEFINE run == <<"run">>
           pull == <<"pull">>
           compose == <<"compose">>
           phone == m.phone
           video == m.video
           m1 == Does(m, run)
           m2 == Does(m1, pull)
           read == read_screen(m2)
           f == read.m
           picture == read.picture
           n == Advanced(m)
           scr == Screen(phone, m2.did)
<1>1. run \in EVENTS /\ pull \in EVENTS /\ compose \in EVENTS
  BY DEF EVENTS
<1>2. run # <<"pull">> /\ compose # <<"pull">>
  OBVIOUS
<1>3. n = IF picture # NONE /\ picture.size \in 1 .. MAX_SIZE
          THEN [f EXCEPT !.video = picture] ELSE f
  BY DEF Advanced, run_for_us, render_audio
<1>4. m \in Machines(phone, video) /\ phone \in PHONES /\ ShowsTheLatest(phone, m.did, video)
  BY DEF UpToDate
<1> HIDE DEF run, pull, compose, m1, m2, read, n, phone, video
<1>5. m1 \in Machines(phone, video) /\ m1.did = Append(m.did, run)
  BY <1>1, <1>4, DoesType DEF m1
<1>6. m2 \in Machines(phone, video) /\ m2.did = Append(m1.did, pull)
  <2>1. pull \in EVENTS /\ m1 \in Machines(phone, video)
    BY <1>1, <1>5
  <2> QED
    BY <2>1, DoesType DEF m2
<1>7. f \in Machines(phone, video) /\ f.did \in {m2.did, Append(m2.did, compose)}
  BY <1>6, ReadScreenType DEF read, compose
<1>8. /\ m.did \in Seq(EVENTS) /\ m1.did \in Seq(EVENTS) /\ m2.did \in Seq(EVENTS)
      /\ m2.phone = phone
  BY <1>4, <1>5, <1>6 DEF Machines
<1>9. ShowsTheLatest(phone, m1.did, video)
  BY <1>1, <1>2, <1>4, <1>5, <1>8, StillShows
<1>10. /\ scr \in Screens
       /\ IF IsSeen(phone, scr) /\ scr.size # 0
          THEN picture \in Pictures /\ Shows(picture, scr)
          ELSE picture = NONE
  <2>1. scr \in Screens
    BY <1>4, <1>8 DEF ScreensAre
  <2> QED
    BY <1>4, <1>8, <2>1, ScreenIsRead DEF read
<1>11. /\ n.phone = phone /\ n.did = f.did
       /\ n.video = IF picture # NONE /\ picture.size \in 1 .. MAX_SIZE THEN picture
                    ELSE video
  <2> HIDE DEF f, picture
  <2> QED
    BY <1>3, <1>7 DEF Machines
<1>12. scr.size \in Nat /\ MAX_SIZE \in Nat
  BY <1>10, FrontendAssumption DEF Screens
<1> HIDE DEF f, picture, scr
<1>13. ShowsTheLatest(phone, m2.did, n.video)
  <2>1. CASE Fits(phone, scr)
    <3>1. picture \in Pictures /\ Shows(picture, scr)
      BY <1>10, <1>12, <2>1 DEF Fits
    <3>2. n.video = picture
      BY <1>11, <2>1, <3>1, FrontendAssumption DEF Fits, Shows
    <3> QED
      BY <1>6, <1>8, <2>1, <3>1, <3>2, NowShows DEF scr, pull
  <2>2. CASE ~Fits(phone, scr)
    <3>1. n.video = video
      BY <1>10, <1>11, <1>12, <2>2 DEF Fits, Shows
    <3> QED
      BY <1>1, <1>6, <1>8, <1>9, <2>2, <3>1, StillShows DEF scr
  <2> QED
    BY <2>1, <2>2
<1>14. ShowsTheLatest(phone, Append(m2.did, compose), n.video)
  BY <1>1, <1>2, <1>8, <1>13, StillShows
<1> QED
  BY <1>7, <1>11, <1>13, <1>14 DEF UpToDate, n

LEMMA BootedShows ==
  ASSUME NEW phone
  PROVE  UpToDate(Booted(phone))
<1> DEFINE m == Booted(phone)
<1>1. m.phone = phone /\ m.video = BLANK /\ m.did = <<>>
  BY DEF Booted
<1> HIDE DEF m
<1>2. FramesSeen(phone, <<>>) = {}
  BY DEF FramesSeen
<1> QED
  BY <1>1, <1>2 DEF UpToDate, ShowsTheLatest, m

\* The machine, and every one kept in a file, shows what it showed.
PictureInv ==
    /\ UpToDate(machine)
    /\ \A s \in SLOTS : states[s] # NONE => UpToDate(states[s].machine)

LEMMA PictureInitial == Init => PictureInv
<1> SUFFICES ASSUME Init PROVE PictureInv
  OBVIOUS
<1>1. PICK phone \in PHONES : machine = Booted(phone)
  BY DEF Init
<1>2. UpToDate(machine)
  BY <1>1, BootedShows
<1> QED
  BY <1>2 DEF Init, PictureInv

LEMMA PictureStep ==
  ASSUME ScreensAre
  PROVE  SoundInv /\ PictureInv /\ [Next]_vars => PictureInv'
<1> SUFFICES ASSUME SoundInv, PictureInv, [Next]_vars PROVE PictureInv'
  OBVIOUS
<1>0. /\ machine.phone \in PHONES /\ machine \in Machines(machine.phone, machine.video)
      /\ held \in ROWS /\ DOMAIN states = SLOTS
  BY DEF SoundInv, Sound, Follows
<1> USE DEF PictureInv
<1>1. ASSUME NEW level \in BOOLEAN, SetButton(level) PROVE PictureInv'
  <2>1. Len(held) + 1 \in BUTTONS
    BY <1>0, <1>1, Buttons DEF SetButton, ROWS
  <2>2. machine' = set_button(machine, Len(held) + 1, level) /\ UNCHANGED states
    BY <1>1 DEF SetButton
  <2>3. UpToDate(machine)'
    BY <1>0, <2>1, <2>2, KeyShows DEF UpToDate
  <2> QED
    BY <2>2, <2>3
<1>2. ASSUME FrameAdvance PROVE PictureInv'
  <2>1. machine' = Advanced(machine) /\ UNCHANGED states
    BY <1>2 DEF FrameAdvance
  <2>2. UpToDate(machine)'
    BY <1>0, <2>1, FrameShows DEF UpToDate
  <2> QED
    BY <2>1, <2>2
<1>3. ASSUME NEW s \in SLOTS, SaveState(s) PROVE PictureInv'
  <2>1. UNCHANGED machine
    BY <1>3 DEF SaveState
  <2>2. ASSUME NEW t \in SLOTS, states'[t] # NONE PROVE UpToDate(states'[t].machine)
    BY <1>0, <1>3, <2>2 DEF SaveState
  <2>3. UpToDate(machine)'
    BY <2>1 DEF UpToDate
  <2>4. \A t \in SLOTS : states'[t] # NONE => UpToDate(states[t].machine)'
    BY <2>2 DEF UpToDate
  <2> QED
    BY <2>3, <2>4
<1>4. ASSUME NEW s \in SLOTS, LoadState(s) PROVE PictureInv'
  BY <1>4 DEF LoadState, UpToDate
<1>5. ASSUME NewProcess PROVE PictureInv'
  <2>1. UpToDate(machine)' /\ UNCHANGED states
    BY <1>5, BootedShows DEF NewProcess, UpToDate
  <2> QED
    BY <2>1 DEF UpToDate
<1>6. ASSUME UNCHANGED vars PROVE PictureInv'
  BY <1>6 DEF vars, UpToDate
<1> QED
  BY <1>1, <1>2, <1>3, <1>4, <1>5, <1>6 DEF Next

(***************************************************************************)
(* The picture shown is the last there was to see, in the phone's colours, *)
(* whatever was drawn, in any depth and by either path, and after any      *)
(* saving and going back, of a phone whose screen is always some screen:   *)
(* a panel in a depth it knows, with a size and a colour (read_screen,     *)
(* FrameAdvance).                                                          *)
(***************************************************************************)
THEOREM PictureFollows ==
  ASSUME \A phone \in PHONES, did \in Seq(EVENTS) : Screen(phone, did) \in Screens
  PROVE  Spec => []PictureIsTheLatest
<1>1. ScreensAre
  BY DEF ScreensAre
<1>2. PictureInv => PictureIsTheLatest
  BY DEF PictureInv, UpToDate, PictureIsTheLatest
<1>3. SoundInv /\ PictureInv /\ [Next]_vars => PictureInv'
  BY <1>1, PictureStep
<1> QED
  BY <1>2, <1>3, PictureInitial, SoundInitial, SoundStep, PTL DEF Spec
=============================================================================
