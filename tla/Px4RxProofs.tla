----------------------------- MODULE Px4RxProofs -----------------------------
(***************************************************************************)
(* Proofs about Px4Rx for every length of the ring, every range of the     *)
(* sequence numbers and any number of links: the state keeps its shape and *)
(* the history never mixes two links.  With a ring long enough for the     *)
(* copies that are late, no copy is passed; with a range of numbers the    *)
(* ring cannot span, only copies are dropped; and with both, the ring of   *)
(* 8-bit numbers implements the filter of RxFilter.                        *)
(***************************************************************************)
EXTENDS Px4Rx, FiniteSetTheorems, TLAPS

Busy == [busy : {TRUE}, frame : Frames, forward : BOOLEAN, gen : 0..(Gens - 1)]

(* The shape of the state, with the ring as a sequence.                    *)
Shape == RxTypeOK /\ hist \in Seq(Frames)

(* The link a frame to be forwarded came in on was the active one in the   *)
(* generation observe returned; the history is of the active link of       *)
(* linkGen.  A generation belongs to one link, so three facts suffice: for *)
(* the frame and the present, the history and the present, and the frame   *)
(* and the history.                                                        *)
OfGeneration ==
    /\ linkGen <= gen
    /\ gen = linkGen => \A i \in 1..Len(hist) : hist[i].link = active
    /\ rx \in Busy =>
        /\ linkGen <= rx.gen /\ rx.gen <= gen
        /\ rx.forward /\ rx.gen = gen => rx.frame.link = active
        /\ rx.forward /\ rx.gen = linkGen => \A i \in 1..Len(hist) : hist[i].link = rx.frame.link

(* The inductive invariant.                                                *)
RxInv == Shape /\ HistoryOfOneLink /\ OfGeneration

(* The ring holds different frames that were passed on, all of the link    *)
(* that the frame in hand, or the active link of linkGen, is compared with.*)
RingOfPassed ==
    /\ \A i \in 1..Len(hist) : hist[i] \in passed
    /\ \A i, j \in 1..Len(hist) : i # j => hist[i].num # hist[j].num
    /\ gen = linkGen => \A g \in passed : g.link = active
    /\ rx \in Busy /\ rx.forward /\ rx.gen = linkGen =>
         \A g \in passed : g.link = rx.frame.link

(* Nothing is newer than pos, the frame in hand is at most CopyWindow      *)
(* behind it, and an entry at most CopyWindow behind an older one.         *)
Recent ==
    /\ rx \in Busy =>
        /\ rx.frame.num <= pos[rx.frame.link]
        /\ rx.frame.num >= pos[rx.frame.link] - CopyWindow
    /\ \A i \in 1..Len(hist) : hist[i].num <= pos[hist[i].link]
    /\ \A i, j \in 1..Len(hist) : i < j => hist[j].num >= hist[i].num - CopyWindow

(* Whatever was passed on and may still come again is in the ring.         *)
Remembered ==
    \A g \in passed : g.num >= pos[g.link] - CopyWindow => \E i \in 1..Len(hist) : hist[i] = g

(* How far a frame may be behind when k frames were remembered after it.   *)
Slack(k) == k * (MaxLost + 1) + CopyWindow

Tight == \A i \in 1..Len(hist) : pos[hist[i].link] - hist[i].num <= Slack(Len(hist) - i)

(* The frame in hand is newer than all entries, which lag one step more.   *)
Fresh ==
    /\ rx.frame.num = pos[rx.frame.link]
    /\ \A i \in 1..Len(hist) :
        /\ hist[i].num < pos[hist[i].link]
        /\ pos[hist[i].link] - hist[i].num <= Slack(Len(hist) - i + 1)

(* No entry lags so far behind that its sequence number comes again.       *)
Close ==
    /\ rx = NoFrame /\ gen = linkGen => Tight
    /\ rx \in Busy /\ rx.gen = linkGen => Tight \/ (rx.forward /\ Fresh)

-----------------------------------------------------------------------------
LEMMA FreeIsNotBusy == NoFrame \notin Busy
BY DEF NoFrame, Busy

LEMMA InitHolds == RxInit => RxInv
<1> SUFFICES ASSUME RxInit PROVE RxInv
  OBVIOUS
<1> USE DEF RxInit, ChoiceInit
<1>1. Range(hist) = {} /\ Len(hist) = 0 /\ hist \in Seq(Frames)
  BY DEF Range
<1>2. Shape
  BY <1>1, RxAssumption, ChoiceAssumption DEF Shape, RxTypeOK, NoFrame
<1>3. HistoryOfOneLink
  BY <1>1 DEF HistoryOfOneLink
<1>4. OfGeneration
  BY <1>1, FreeIsNotBusy, RxAssumption, ChoiceAssumption DEF OfGeneration
<1> QED  BY <1>2, <1>3, <1>4 DEF RxInv

(* The supervisor changes the link: a new generation, of which nothing has *)
(* been seen yet.                                                          *)
LEMMA SwitchKeeps ==
    ASSUME RxInv, gen + 1 < Gens, NEW l \in LinkSet, Switch(l),
           UNCHANGED <<pos, rx, linkGen, hist, passed, fate>>
    PROVE  RxInv'
<1>1. gen' = gen + 1 /\ gen' \in 0..(Gens - 1)
  BY ChoiceAssumption DEF RxInv, Shape, RxTypeOK, Switch
<1>2. Shape'
  BY <1>1 DEF RxInv, Shape, RxTypeOK, Switch
<1>3. rx \in Busy => rx.gen \in Int
  BY DEF Busy
<1>4. OfGeneration'
  BY <1>1, <1>3 DEF RxInv, OfGeneration, Shape, RxTypeOK
<1> QED  BY <1>2, <1>4 DEF RxInv, HistoryOfOneLink

(* A frame is taken in hand with the link and the generation of now.       *)
LEMMA ReceiveKeeps ==
    ASSUME RxInv, NEW l \in LinkSet, NEW n \in 1..MaxFrame, Receive(l, n)
    PROVE  RxInv'
<1> USE DEF Receive
<1>1. /\ rx' = [busy |-> TRUE, frame |-> [link |-> l, num |-> n],
                forward |-> (l = active), gen |-> gen]
      /\ rx' \in Busy
  BY RxAssumption DEF Busy, Frames, RxInv, Shape, RxTypeOK
<1>2. pos' \in [LinkSet -> 0..MaxFrame]
  BY RxAssumption DEF RxInv, Shape, RxTypeOK
<1>3. Shape'
  BY <1>1, <1>2 DEF RxInv, Shape, RxTypeOK, Busy
<1>4. rx'.frame.link = l /\ rx'.gen = gen
  BY <1>1
<1>5. rx'.forward => l = active
  <2>1. PICK b \in BOOLEAN : b <=> l = active
    OBVIOUS
  <2>2. rx' = [busy |-> TRUE, frame |-> [link |-> l, num |-> n], forward |-> b, gen |-> gen]
    BY <1>1, <2>1
  <2>3. rx'.forward = b
    BY <2>2
  <2> QED  BY <2>1, <2>3
<1>6. OfGeneration'
  BY <1>4, <1>5 DEF RxInv, OfGeneration, Shape, RxTypeOK
<1> QED  BY <1>3, <1>6 DEF RxInv, HistoryOfOneLink

(* What the ring keeps is a part of what it held and the new frame.        *)
LEMMA RememberKeeps ==
    ASSUME NEW h \in Seq(Frames), Len(h) <= HistLen, NEW f \in Frames
    PROVE  /\ Remember(h, f) \in Seq(Frames)
           /\ Len(Remember(h, f)) <= HistLen
           /\ \A i \in 1..Len(Remember(h, f)) :
                 Remember(h, f)[i] = f \/ \E j \in 1..Len(h) : Remember(h, f)[i] = h[j]
<1> DEFINE t == IF Len(h) = HistLen THEN Tail(h) ELSE h
<1>1. t \in Seq(Frames) /\ Len(t) < HistLen
  BY RxAssumption
<1>2. \A i \in 1..Len(t) : \E j \in 1..Len(h) : t[i] = h[j]
  <2>1. CASE Len(h) = HistLen
    <3>1. h # <<>> /\ t = Tail(h)
      BY <2>1, RxAssumption
    <3>2. Len(t) = Len(h) - 1 /\ \A i \in 1..Len(t) : t[i] = h[i + 1] /\ i + 1 \in 1..Len(h)
      BY <3>1
    <3> QED  BY <3>2
  <2>2. CASE Len(h) # HistLen
    BY <2>2
  <2> QED  BY <2>1, <2>2
<1> HIDE DEF t
<1>3. /\ Append(t, f) \in Seq(Frames) /\ Len(Append(t, f)) = Len(t) + 1
      /\ \A i \in 1..Len(t) + 1 : Append(t, f)[i] = f \/ (i \in 1..Len(t) /\ Append(t, f)[i] = t[i])
  BY <1>1
<1>4. Remember(h, f) = Append(t, f)
  BY DEF Remember, t
<1> QED  BY <1>1, <1>2, <1>3, <1>4, RxAssumption

(* The turn ends with the history of the frame's generation, to which a    *)
(* frame of that generation's link may have been added.                    *)
LEMMA AcceptKeeps ==
    ASSUME RxInv, Accept
    PROVE  RxInv'
<1> DEFINE f == rx.frame
           h == History
           keep == rx.forward /\ ~duplicate(h, f)
<1>1. /\ rx \in Busy /\ rx.gen \in 0..(Gens - 1) /\ f \in Frames /\ rx.forward \in BOOLEAN
  BY DEF Accept, RxInv, Shape, RxTypeOK, Busy
<1>2. /\ linkGen' = rx.gen /\ rx' = NoFrame /\ UNCHANGED <<active, gen, sending, pos>>
      /\ hist' = IF keep THEN Remember(h, f) ELSE h
      /\ passed' \in {passed, {}, passed \cup {f}, {f}}
  BY DEF Accept
<1>3. fate' \in [forward : BOOLEAN, dropped : BOOLEAN, copy : BOOLEAN]
  <2> DEFINE known == IF rx.gen # linkGen THEN {} ELSE passed
  <2>1. duplicate(h, f) \in BOOLEAN /\ (f \in known) \in BOOLEAN
    BY DEF duplicate
  <2>2. fate' = [forward |-> rx.forward, dropped |-> duplicate(h, f), copy |-> f \in known]
    BY DEF Accept
  <2> HIDE DEF known
  <2> QED  BY <1>1, <2>1, <2>2, Zenon
<1>4. /\ h \in Seq(Frames) /\ Len(h) <= HistLen
      /\ \A i, j \in 1..Len(h) : h[i].link = h[j].link
      /\ rx.gen = gen => \A i \in 1..Len(h) : h[i].link = active
      /\ rx.forward => \A i \in 1..Len(h) : h[i].link = f.link
  <2>1. CASE rx.gen # linkGen
    <3>1. h = <<>>
      BY <2>1 DEF History
    <3> QED  BY <3>1, RxAssumption
  <2>2. CASE rx.gen = linkGen
    <3>1. h = hist
      BY <2>2 DEF History
    <3> QED  BY <1>1, <2>2, <3>1 DEF RxInv, Shape, RxTypeOK, HistoryOfOneLink, OfGeneration
  <2> QED  BY <2>1, <2>2
<1>5. keep /\ rx.gen = gen => f.link = active
  BY <1>1 DEF RxInv, OfGeneration
<1> HIDE DEF h, f
<1>6. /\ hist' \in Seq(Frames) /\ Len(hist') <= HistLen
      /\ \A i \in 1..Len(hist') :
            (keep /\ hist'[i] = f) \/ \E j \in 1..Len(h) : hist'[i] = h[j]
  <2>1. CASE keep
    BY <1>1, <1>2, <1>4, <2>1, RememberKeeps
  <2>2. CASE ~keep
    BY <1>2, <1>4, <2>2
  <2> QED  BY <2>1, <2>2
<1>7. keep => rx.forward
  OBVIOUS
<1> HIDE DEF keep
<1>8. HistoryOfOneLink'
  BY <1>4, <1>6, <1>7 DEF HistoryOfOneLink
<1>9. OfGeneration'
  <2>1. rx' \notin Busy
    BY <1>2, FreeIsNotBusy
  <2>2. linkGen' <= gen'
    BY <1>1, <1>2 DEF RxInv, OfGeneration
  <2> QED  BY <1>2, <1>4, <1>5, <1>6, <2>1, <2>2 DEF OfGeneration
<1>10. Range(hist') \subseteq Frames
  BY <1>6 DEF Range
<1>11. passed' \subseteq Frames
  BY <1>1, <1>2 DEF RxInv, Shape, RxTypeOK
<1>12. Shape'
  BY <1>1, <1>2, <1>3, <1>6, <1>10, <1>11 DEF RxInv, Shape, RxTypeOK
<1> QED  BY <1>8, <1>9, <1>12 DEF RxInv

LEMMA NextKeeps == RxInv /\ [RxNext]_rxVars => RxInv'
<1> SUFFICES ASSUME RxInv, [RxNext]_rxVars PROVE RxInv'
  OBVIOUS
<1>1. CASE UNCHANGED rxVars
  <2> USE <1>1 DEF rxVars, RxInv
  <2>1. Shape'
    BY DEF Shape, RxTypeOK
  <2>2. HistoryOfOneLink'
    BY DEF HistoryOfOneLink
  <2>3. OfGeneration'
    BY DEF OfGeneration
  <2> QED  BY <2>1, <2>2, <2>3
<1> QED  BY <1>1, SwitchKeeps, ReceiveKeeps, AcceptKeeps DEF RxNext

LEMMA RxInvariance == RxSpec => []RxInv
BY InitHolds, NextKeeps, PTL DEF RxSpec

-----------------------------------------------------------------------------
LEMMA EntryParts ==
    ASSUME NEW h \in Seq(Frames), NEW i \in 1..Len(h)
    PROVE  h[i] \in Frames /\ h[i].num \in Nat /\ h[i].link \in LinkSet
<1>1. h[i] \in Frames
  OBVIOUS
<1> QED  BY <1>1, RxAssumption DEF Frames

LEMMA Division ==
    ASSUME NEW d \in Nat \ {0}, NEW n \in Nat
    PROVE  \E q \in Nat, r \in 0..(d - 1) : n = q * d + r /\ r = n % d
OBVIOUS

(* Two numbers less than SeqRange apart have different sequence numbers.   *)
LEMMA NearNumbersDiffer ==
    ASSUME NEW a \in Nat, NEW b \in Nat, a < b, b - a < SeqRange
    PROVE  a % SeqRange # b % SeqRange
<1>1. \A n \in Nat : \E q \in Nat, r \in 0..(SeqRange - 1) :
         n = q * SeqRange + r /\ r = n % SeqRange
  BY Division, RxAssumption
<1>2. PICK p \in Nat, r \in 0..(SeqRange - 1) : a = p * SeqRange + r /\ r = a % SeqRange
  BY <1>1
<1>3. PICK q \in Nat, t \in 0..(SeqRange - 1) : b = q * SeqRange + t /\ t = b % SeqRange
  BY <1>1
<1>4. ASSUME p * SeqRange < q * SeqRange PROVE q * SeqRange - p * SeqRange >= SeqRange
  BY <1>2, <1>3, <1>4, RxAssumption
<1>5. p * SeqRange \in Nat /\ q * SeqRange \in Nat
  BY <1>2, <1>3, RxAssumption
<1> QED  BY <1>2, <1>3, <1>4, <1>5, RxAssumption

LEMMA SlackGrows ==
    /\ Slack(0) = CopyWindow
    /\ \A k \in Nat : /\ Slack(k) \in Nat
                      /\ Slack(k + 1) = Slack(k) + MaxLost + 1
    /\ \A k, m \in Nat : k <= m => Slack(k) <= Slack(m)
<1>1. \A k \in Nat : k * (MaxLost + 1) \in Nat /\ (k + 1) * (MaxLost + 1) = k * (MaxLost + 1) + MaxLost + 1
  BY RxAssumption
<1>2. \A k, m \in Nat : k <= m => k * (MaxLost + 1) <= m * (MaxLost + 1)
  BY RxAssumption
<1> QED  BY <1>1, <1>2, RxAssumption DEF Slack

(* How many entries a full ring gives up for the next one.                 *)
Gone(h) == IF Len(h) = HistLen THEN 1 ELSE 0

(* Where the entries go: all but the oldest of a full ring move down by    *)
(* one or stay, and the frame comes last.                                  *)
LEMMA RememberAt ==
    ASSUME NEW h \in Seq(Frames), Len(h) <= HistLen, NEW f \in Frames
    PROVE  LET R == Remember(h, f)
               s == Gone(h)
           IN  /\ R \in Seq(Frames) /\ Len(R) = Len(h) + 1 - s /\ Len(R) >= 1
               /\ s \in 0..1 /\ R[Len(R)] = f
               /\ \A i \in 1..(Len(R) - 1) : i + s \in 1..Len(h) /\ R[i] = h[i + s]
               /\ \A j \in 1..Len(h) : j > s => j - s \in 1..(Len(R) - 1) /\ R[j - s] = h[j]
<1> DEFINE t == IF Len(h) = HistLen THEN Tail(h) ELSE h
           s == Gone(h)
<1>1. t \in Seq(Frames) /\ Len(t) = Len(h) - s /\ s \in 0..1
      /\ \A i \in 1..Len(t) : i + s \in 1..Len(h) /\ t[i] = h[i + s]
  <2>1. CASE Len(h) = HistLen
    <3>1. h # <<>> /\ t = Tail(h) /\ s = 1
      BY <2>1, RxAssumption DEF Gone
    <3> HIDE DEF t, s
    <3> QED  BY <3>1
  <2>2. CASE Len(h) # HistLen
    BY <2>2 DEF Gone
  <2> QED  BY <2>1, <2>2
<1> HIDE DEF t, s
<1>2. /\ Append(t, f) \in Seq(Frames) /\ Len(Append(t, f)) = Len(t) + 1
      /\ Append(t, f)[Len(t) + 1] = f
      /\ \A i \in 1..Len(t) : Append(t, f)[i] = t[i]
  BY <1>1
<1>3. Remember(h, f) = Append(t, f)
  BY DEF Remember, t
<1>4. \A j \in 1..Len(h) : j > s => j - s \in 1..Len(t) /\ t[j - s] = h[j]
  BY <1>1
<1> QED  BY <1>1, <1>2, <1>3, <1>4 DEF s

(* What was passed on in the generation of the frame in hand, and whether  *)
(* the frame will be.                                                      *)
Known == IF rx.gen # linkGen THEN {} ELSE passed
Keep == rx.forward /\ ~duplicate(History, rx.frame)

LEMMA Turn ==
    ASSUME RxInv, Accept
    PROVE  /\ rx \in Busy /\ rx.forward \in BOOLEAN /\ rx.gen \in Nat
           /\ rx.frame \in Frames /\ rx.frame.num \in Nat /\ rx.frame.link \in LinkSet
           /\ linkGen' = rx.gen /\ rx' = NoFrame /\ rx' \notin Busy
           /\ UNCHANGED <<active, gen, pos>>
           /\ hist' = IF Keep THEN Remember(History, rx.frame) ELSE History
           /\ passed' = IF Keep THEN Known \cup {rx.frame} ELSE Known
           /\ History \in Seq(Frames) /\ Len(History) <= HistLen
<1>1. rx \in Busy
  BY DEF Accept, RxInv, Shape, RxTypeOK, Busy
<1>2. /\ rx.forward \in BOOLEAN /\ rx.gen \in Nat
      /\ rx.frame \in Frames /\ rx.frame.num \in Nat /\ rx.frame.link \in LinkSet
  BY <1>1, RxAssumption DEF Busy, Frames
<1>3. /\ linkGen' = rx.gen /\ rx' = NoFrame
      /\ UNCHANGED <<active, gen, pos>>
      /\ hist' = IF Keep THEN Remember(History, rx.frame) ELSE History
      /\ passed' = IF Keep THEN Known \cup {rx.frame} ELSE Known
  BY DEF Accept, Keep, Known
<1>4. History \in Seq(Frames) /\ Len(History) <= HistLen
  <2>1. CASE rx.gen # linkGen
    BY <2>1, RxAssumption DEF History
  <2>2. CASE rx.gen = linkGen
    BY <2>2 DEF History, RxInv, Shape, RxTypeOK
  <2> QED  BY <2>1, <2>2
<1> QED  BY <1>1, <1>2, <1>3, <1>4, FreeIsNotBusy

LEMMA KeptRing ==
    ASSUME RxInv, Accept, Keep
    PROVE  LET h == History
               s == Gone(h)
           IN  /\ hist' \in Seq(Frames) /\ Len(hist') = Len(h) + 1 - s /\ s \in 0..1
               /\ Len(hist') >= 1 /\ hist'[Len(hist')] = rx.frame
               /\ \A i \in 1..(Len(hist') - 1) : i + s \in 1..Len(h) /\ hist'[i] = h[i + s]
               /\ \A j \in 1..Len(h) : j > s =>
                    j - s \in 1..(Len(hist') - 1) /\ hist'[j - s] = h[j]
<1>1. hist' = Remember(History, rx.frame)
  BY Turn
<1>2. History \in Seq(Frames) /\ Len(History) <= HistLen /\ rx.frame \in Frames
  BY Turn
<1> DEFINE h == History  f == rx.frame  R == Remember(h, f)  s == Gone(h)
<1> HIDE DEF h, f, R, s
<1>3. /\ R \in Seq(Frames) /\ Len(R) = Len(h) + 1 - s /\ s \in 0..1
      /\ Len(R) >= 1 /\ R[Len(R)] = f
      /\ \A i \in 1..(Len(R) - 1) : i + s \in 1..Len(h) /\ R[i] = h[i + s]
      /\ \A j \in 1..Len(h) : j > s => j - s \in 1..(Len(R) - 1) /\ R[j - s] = h[j]
  <2>1. h \in Seq(Frames) /\ Len(h) <= HistLen /\ f \in Frames
    BY <1>2 DEF h, f
  <2> QED  BY <2>1, RememberAt, Zenon DEF R, s
<1>4. hist' = R
  BY <1>1 DEF R, h, f
<1> QED  BY <1>3, <1>4, Zenon DEF h, f, s

(* What the end of a turn says of the frame.                               *)
LEMMA TurnFate ==
    ASSUME RxInv, Accept
    PROVE  /\ fate'.forward = rx.forward
           /\ fate'.dropped <=> duplicate(History, rx.frame)
           /\ fate'.copy <=> rx.frame \in Known
<1> DEFINE d == duplicate(History, rx.frame)
           c == rx.frame \in Known
<1>1. d \in BOOLEAN /\ c \in BOOLEAN
  BY DEF duplicate
<1>2. fate' = [forward |-> rx.forward, dropped |-> d, copy |-> c]
  BY DEF Accept, Known
<1> HIDE DEF d, c
<1>3. fate'.dropped = d /\ fate'.copy = c /\ fate'.forward = rx.forward
  BY <1>2
<1> QED  BY <1>1, <1>3 DEF d, c

-----------------------------------------------------------------------------
(* What holds of the ring however many frames are lost and however late    *)
(* copies are.                                                             *)
RingInv == RxInv /\ RingOfPassed /\ Recent

LEMMA RingInit == RxInit => RingInv
<1> SUFFICES ASSUME RxInit PROVE RingOfPassed /\ Recent
  BY InitHolds DEF RingInv
<1>1. Len(hist) = 0 /\ passed = {} /\ rx = NoFrame
  BY DEF RxInit
<1> QED  BY <1>1, FreeIsNotBusy DEF RingOfPassed, Recent

LEMMA RingSwitch ==
    ASSUME RingInv, gen + 1 < Gens, NEW l \in LinkSet, Switch(l),
           UNCHANGED <<pos, rx, linkGen, hist, passed, fate>>
    PROVE  RingInv' /\ gen' # linkGen
<1>1. gen' # linkGen
  BY ChoiceAssumption DEF RingInv, RxInv, Shape, RxTypeOK, Switch, OfGeneration
<1>2. RingOfPassed'
  BY <1>1 DEF RingInv, RingOfPassed
<1>3. Recent'
  BY DEF RingInv, Recent
<1>4. RxInv'
  BY SwitchKeeps DEF RingInv
<1> QED  BY <1>1, <1>2, <1>3, <1>4 DEF RingInv

(* A frame comes in: pos may grow, and only on the frame's link.           *)
LEMMA Incoming ==
    ASSUME RxInv, NEW l \in LinkSet, NEW n \in 1..MaxFrame, Receive(l, n)
    PROVE  /\ rx' \in Busy /\ rx'.frame.link = l /\ rx'.frame.num = n /\ rx'.gen = gen
           /\ rx'.forward <=> l = active
           /\ UNCHANGED <<active, gen, linkGen, hist, passed, fate>>
           /\ pos \in [LinkSet -> Int] /\ pos' \in [LinkSet -> Int]
           /\ \A k \in LinkSet : pos'[k] >= pos[k] /\ (k # l => pos'[k] = pos[k])
           /\ n <= pos'[l] /\ n >= pos'[l] - CopyWindow
           /\ pos'[l] = pos[l] \/ (pos'[l] = n /\ n > pos[l] /\ n <= pos[l] + MaxLost + 1)
<1> USE DEF Receive
<1>1. rx' \in Busy
  BY RxAssumption DEF Busy, Frames, RxInv, Shape, RxTypeOK
<1>2. PICK b \in BOOLEAN : b <=> l = active
  OBVIOUS
<1>3. rx' = [busy |-> TRUE, frame |-> [link |-> l, num |-> n], forward |-> b, gen |-> gen]
  BY <1>2
<1>4. rx'.frame.link = l /\ rx'.frame.num = n /\ rx'.gen = gen /\ rx'.forward = b
  BY <1>3
<1>5. pos \in [LinkSet -> Int] /\ n \in Int /\ MaxLost \in Nat /\ CopyWindow \in Nat
  BY RxAssumption DEF RxInv, Shape, RxTypeOK
<1>6. /\ pos' = [pos EXCEPT ![l] = IF n > pos[l] THEN n ELSE pos[l]]
      /\ n >= pos[l] - CopyWindow /\ n <= pos[l] + MaxLost + 1
  BY <1>5
<1>7. /\ pos' \in [LinkSet -> Int]
      /\ \A k \in LinkSet : pos'[k] >= pos[k] /\ (k # l => pos'[k] = pos[k])
      /\ n <= pos'[l] /\ n >= pos'[l] - CopyWindow
      /\ pos'[l] = pos[l] \/ (pos'[l] = n /\ n > pos[l] /\ n <= pos[l] + MaxLost + 1)
  BY <1>5, <1>6
<1> QED  BY <1>1, <1>2, <1>4, <1>5, <1>7

LEMMA RingReceive ==
    ASSUME RingInv, NEW l \in LinkSet, NEW n \in 1..MaxFrame, Receive(l, n)
    PROVE  RingInv'
<1> USE DEF RingInv
<1>1. RxInv'
  BY ReceiveKeeps
<1>2. RingOfPassed'
  <2>1. /\ rx' \in Busy /\ rx'.frame.link = l /\ rx'.gen = gen /\ (rx'.forward <=> l = active)
        /\ active' = active /\ gen' = gen /\ linkGen' = linkGen /\ hist' = hist /\ passed' = passed
    BY Incoming
  <2>2. gen = linkGen => \A g \in passed : g.link = active
    BY DEF RingOfPassed
  <2>3. rx'.forward /\ rx'.gen = linkGen => \A g \in passed : g.link = rx'.frame.link
    BY <2>1, <2>2
  <2> QED  BY <2>1, <2>3 DEF RingOfPassed
<1>3. hist \in Seq(Frames)
  BY DEF RxInv, Shape
<1>4. \A i \in 1..Len(hist) : hist[i].num \in Int /\ hist[i].link \in LinkSet
  BY <1>3, EntryParts
<1>5. \A i \in 1..Len(hist) : hist[i].num <= pos'[hist[i].link]
  BY <1>4, Incoming DEF Recent
<1>6. Recent'
  BY <1>5, Incoming DEF Recent
<1> QED  BY <1>1, <1>2, <1>6

(* The same of the history the frame in hand is compared with.             *)
LEMMA HistoryFacts ==
    ASSUME RingInv, Accept
    PROVE  /\ \A i \in 1..Len(History) :
                /\ History[i] \in Known
                /\ History[i].num \in Nat /\ History[i].link \in LinkSet
                /\ History[i].num <= pos[History[i].link]
                /\ rx.forward => History[i].link = rx.frame.link
           /\ \A i, j \in 1..Len(History) : i # j => History[i].num # History[j].num
           /\ \A i, j \in 1..Len(History) : i < j => History[j].num >= History[i].num - CopyWindow
           /\ rx.gen = gen => \A g \in Known : g.link = active
           /\ rx.forward => \A g \in Known : g.link = rx.frame.link
           /\ rx.forward /\ rx.gen = gen => rx.frame.link = active
           /\ rx.frame.num <= pos[rx.frame.link]
           /\ rx.frame.num >= pos[rx.frame.link] - CopyWindow
<1>1. /\ rx.forward /\ rx.gen = gen => rx.frame.link = active
      /\ rx.frame.num <= pos[rx.frame.link]
      /\ rx.frame.num >= pos[rx.frame.link] - CopyWindow
  BY Turn DEF RingInv, RxInv, OfGeneration, Recent
<1>2. \A i \in 1..Len(History) : History[i].num \in Nat /\ History[i].link \in LinkSet
  BY Turn, EntryParts DEF RingInv
<1>3. CASE rx.gen # linkGen
  <2>1. Len(History) = 0 /\ Known = {}
    BY <1>3 DEF History, Known
  <2> QED  BY <1>1, <2>1
<1>4. CASE rx.gen = linkGen
  <2>1. History = hist /\ Known = passed /\ rx \in Busy
    BY <1>4, Turn DEF History, Known, RingInv
  <2> QED  BY <1>1, <1>2, <1>4, <2>1 DEF RingInv, RxInv, OfGeneration, RingOfPassed, Recent
<1> QED  BY <1>3, <1>4

(* A frame that is kept has a number of its own.                           *)
LEMMA KeptIsNew ==
    ASSUME RingInv, Accept, Keep
    PROVE  \A i \in 1..Len(History) : History[i].num # rx.frame.num
BY DEF Keep, duplicate, Seq8

LEMMA RingAccept ==
    ASSUME RingInv, Accept
    PROVE  RingInv'
<1> DEFINE f == rx.frame
           h == History
<1>1. RxInv'
  BY AcceptKeeps DEF RingInv
<1>2. CASE ~Keep
  <2>1. hist' = h /\ passed' = Known
    BY <1>2, Turn DEF RingInv
  <2>a. rx' \notin Busy /\ linkGen' = rx.gen /\ active' = active /\ gen' = gen /\ pos' = pos
    BY Turn DEF RingInv
  <2>b. \A i, j \in 1..Len(h) :
          /\ h[i] \in Known /\ h[i].num <= pos[h[i].link]
          /\ i # j => h[i].num # h[j].num
          /\ i < j => h[j].num >= h[i].num - CopyWindow
    BY HistoryFacts
  <2>c. rx.gen = gen => \A g \in Known : g.link = active
    BY HistoryFacts
  <2> HIDE DEF h
  <2>2. RingOfPassed'
    BY <2>1, <2>a, <2>b, <2>c DEF RingOfPassed
  <2>3. Recent'
    BY <2>1, <2>a, <2>b DEF Recent
  <2> QED  BY <1>1, <2>2, <2>3 DEF RingInv
<1>3. CASE Keep
  <2> DEFINE s == Gone(h)
  <2>1. /\ hist' = Remember(h, f) /\ passed' = Known \cup {f}
        /\ f \in Frames /\ h \in Seq(Frames) /\ Len(h) <= HistLen
        /\ f.num \in Nat /\ f.link \in LinkSet /\ rx.forward
        /\ rx' \notin Busy /\ linkGen' = rx.gen /\ UNCHANGED <<active, gen, pos>>
    BY <1>3, Turn DEF RingInv, Keep
  <2> HIDE DEF f, h
  <2>2. /\ hist' \in Seq(Frames) /\ Len(hist') = Len(h) + 1 - s /\ s \in 0..1
        /\ hist'[Len(hist')] = f
        /\ \A i \in 1..(Len(hist') - 1) : i + s \in 1..Len(h) /\ hist'[i] = h[i + s]
    BY <1>3, KeptRing, Zenon DEF RingInv, f, h, s
  <2>a. pos[f.link] \in Int /\ CopyWindow \in Nat /\ Len(h) \in Nat
    BY <2>1, RxAssumption DEF RingInv, RxInv, Shape, RxTypeOK
  <2> HIDE DEF s
  <2>3. \A i \in 1..Len(hist') : i = Len(hist') \/ i \in 1..(Len(hist') - 1)
    BY <2>2
  <2>4. \A i \in 1..Len(h) : h[i].num # f.num
    BY <1>3, KeptIsNew DEF f, h
  <2>5. \A i \in 1..Len(h) : h[i].num \in Nat /\ h[i].num <= pos[f.link] /\ h[i] \in Known /\ h[i].link = f.link
    BY <2>1, HistoryFacts DEF f, h
  <2>6. f.num <= pos[f.link] /\ f.num >= pos[f.link] - CopyWindow
    BY HistoryFacts DEF f, h
  <2>7. \A i, j \in 1..Len(h) : (i # j => h[i].num # h[j].num)
                              /\ (i < j => h[j].num >= h[i].num - CopyWindow)
    BY HistoryFacts DEF h
  <2>8. RingOfPassed'
    <3>1. \A i \in 1..Len(hist') : hist'[i] \in passed'
      BY <2>1, <2>2, <2>3, <2>5
    <3>2. ASSUME NEW i \in 1..Len(hist'), NEW j \in 1..Len(hist'), i # j
          PROVE  hist'[i].num # hist'[j].num
      <4>1. CASE i = Len(hist')
        BY <3>2, <4>1, <2>2, <2>3, <2>4
      <4>2. CASE j = Len(hist')
        BY <3>2, <4>2, <2>2, <2>3, <2>4
      <4>3. CASE i # Len(hist') /\ j # Len(hist')
        <5>1. i + s # j + s /\ i + s \in 1..Len(h) /\ j + s \in 1..Len(h)
          BY <3>2, <4>3, <2>2, <2>3, <2>a
        <5>2. hist'[i] = h[i + s] /\ hist'[j] = h[j + s]
          BY <4>3, <2>2, <2>3
        <5>3. h[i + s].num # h[j + s].num
          BY <5>1, <2>7
        <5> QED  BY <5>2, <5>3
      <4> QED  BY <4>1, <4>2, <4>3
    <3>3. gen' = linkGen' => \A g \in passed' : g.link = active'
      BY <2>1, HistoryFacts DEF f
    <3> QED  BY <3>1, <3>2, <3>3, <2>1 DEF RingOfPassed
  <2>9. Recent'
    <3>1. \A i \in 1..Len(hist') : hist'[i].num <= pos[hist'[i].link]
      BY <2>2, <2>3, <2>5, <2>6
    <3>2. ASSUME NEW i \in 1..Len(hist'), NEW j \in 1..Len(hist'), i < j
          PROVE  hist'[j].num >= hist'[i].num - CopyWindow
      <4>1. i \in 1..(Len(hist') - 1) /\ i + s \in 1..Len(h) /\ hist'[i] = h[i + s]
        BY <3>2, <2>2
      <4>2. CASE j = Len(hist')
        <5>1. hist'[j] = f /\ h[i + s].num <= pos[f.link] /\ h[i + s].num \in Nat
          BY <4>1, <4>2, <2>2, <2>5
        <5>2. \A a, b, q, c \in Int : a <= q /\ b >= q - c => b >= a - c
          OBVIOUS
        <5>3. h[i + s].num \in Int /\ f.num \in Int /\ CopyWindow \in Int
          BY <5>1, <2>1, <2>a
        <5>4. f.num >= h[i + s].num - CopyWindow
          BY <5>1, <5>2, <5>3, <2>6, <2>a, Zenon
        <5> QED  BY <4>1, <5>1, <5>4
      <4>3. CASE j # Len(hist')
        <5>1. j + s \in 1..Len(h) /\ i + s < j + s /\ hist'[j] = h[j + s]
          BY <3>2, <4>3, <2>2, <2>3
        <5> QED  BY <4>1, <5>1, <2>7
      <4> QED  BY <4>2, <4>3
    <3> QED  BY <3>1, <3>2, <2>1 DEF Recent
  <2> QED  BY <1>1, <2>8, <2>9 DEF RingInv
<1> QED  BY <1>2, <1>3

LEMMA RingStutter ==
    ASSUME RingInv, UNCHANGED rxVars
    PROVE  RingInv'
<1>1. RxInv'
  BY NextKeeps DEF RingInv
<1> QED  BY <1>1 DEF rxVars, RingInv, RingOfPassed, Recent

LEMMA RingNext == RingInv /\ [RxNext]_rxVars => RingInv'
BY RingSwitch, RingReceive, RingAccept, RingStutter DEF RxNext

LEMMA RingInvariance == RxSpec => []RingInv
BY RingInit, RingNext, PTL DEF RxSpec

-----------------------------------------------------------------------------
(* The oldest entry of a full ring is beyond the reach of copies: the ring *)
(* and the new frame are HistLen + 1 different numbers, more than there    *)
(* are between pos and 2 * CopyWindow below it.                            *)
LEMMA EvictedIsOld ==
    ASSUME RecentCopies, RingInv, Accept, Keep, Len(History) = HistLen
    PROVE  History[1].num < pos[rx.frame.link] - CopyWindow
<1> DEFINE f == rx.frame
           h == History
           p == pos[f.link]
           back == [i \in 0..HistLen |-> IF i = 0 THEN p - f.num ELSE p - h[i].num]
<1>a. f.num \in Nat /\ f.link \in LinkSet
  BY Turn DEF RingInv
<1>b. pos \in [LinkSet -> 0..MaxFrame]
  BY DEF RingInv, RxInv, Shape, RxTypeOK
<1>c. p \in Int /\ CopyWindow \in Nat /\ HistLen \in Nat \ {0} /\ 2 * CopyWindow < HistLen
  BY <1>a, <1>b, RxAssumption DEF RecentCopies
<1> SUFFICES ASSUME h[1].num >= p - CopyWindow PROVE FALSE
  <2>1. 1 \in 1..Len(h) /\ p \in Int /\ CopyWindow \in Nat
    BY <1>c
  <2>2. h[1].num \in Nat
    BY <2>1, HistoryFacts
  <2> HIDE DEF p, h
  <2>3. h[1].num < p - CopyWindow
    BY <2>1, <2>2
  <2> QED  BY <2>3 DEF p, h
<1>1. rx.forward
  BY DEF Keep
<1>2. /\ p \in Int /\ f.num \in Nat /\ CopyWindow \in Nat /\ HistLen \in Nat \ {0}
      /\ 2 * CopyWindow < HistLen
  BY <1>a, <1>c
<1>3. f.num <= p /\ f.num >= p - CopyWindow
  BY HistoryFacts
<1>4. \A i \in 1..HistLen : h[i].num \in Nat /\ h[i].num <= p /\ h[i].num # f.num
  BY <1>1, HistoryFacts, KeptIsNew
<1>5. \A i, j \in 1..HistLen : (i # j => h[i].num # h[j].num)
                            /\ (i < j => h[j].num >= h[i].num - CopyWindow)
  BY HistoryFacts
<1> HIDE DEF f, h, p
<1>6. \A i \in 1..HistLen : h[i].num >= p - 2 * CopyWindow
  <2> TAKE i \in 1..HistLen
  <2>1. i = 1 \/ 1 < i
    BY <1>2
  <2>2. 1 \in 1..HistLen
    BY <1>2
  <2>3. h[1].num \in Nat /\ h[i].num \in Nat
    BY <1>4, <2>2
  <2>4. h[i].num >= h[1].num - CopyWindow
    BY <1>2, <1>5, <2>1, <2>2, <2>3
  <2>5. h[1].num >= p - CopyWindow
    BY DEF h, p
  <2> QED  BY <1>2, <2>3, <2>4, <2>5
<1>7. back \in [0..HistLen -> 0..(2 * CopyWindow)]
  <2> SUFFICES ASSUME NEW i \in 0..HistLen PROVE back[i] \in 0..(2 * CopyWindow)
    BY Zenon DEF back
  <2>1. CASE i = 0
    BY <1>2, <1>3, <2>1
  <2>2. CASE i # 0
    <3>1. i \in 1..HistLen
      BY <1>2, <2>2
    <3>2. back[i] = p - h[i].num
      BY <2>2
    <3>3. h[i].num \in Nat /\ h[i].num <= p /\ h[i].num >= p - 2 * CopyWindow
      BY <1>4, <1>6, <3>1
    <3> HIDE DEF back
    <3> QED  BY <1>2, <3>2, <3>3
  <2> QED  BY <2>1, <2>2
<1>8. \A i, j \in 0..HistLen : i # j => back[i] # back[j]
  <2> TAKE i, j \in 0..HistLen
  <2> HAVE i # j
  <2>1. (i = 0 \/ i \in 1..HistLen) /\ (j = 0 \/ j \in 1..HistLen)
    BY <1>2
  <2>2. CASE i = 0
    BY <1>2, <1>4, <2>1, <2>2
  <2>3. CASE j = 0
    BY <1>2, <1>4, <2>1, <2>3
  <2>4. CASE i \in 1..HistLen /\ j \in 1..HistLen
    <3>1. back[i] = p - h[i].num /\ back[j] = p - h[j].num
      BY <2>4
    <3>2. h[i].num # h[j].num /\ h[i].num \in Int /\ h[j].num \in Int /\ p \in Int
      BY <1>2, <1>4, <1>5, <2>4
    <3>3. \A a, b, q \in Int : a # b => q - a # q - b
      OBVIOUS
    <3> HIDE DEF back
    <3> QED  BY <3>1, <3>2, <3>3, Zenon
  <2> QED  BY <2>1, <2>2, <2>3, <2>4
<1> HIDE DEF back
<1>9. /\ IsFiniteSet(0..HistLen) /\ Cardinality(0..HistLen) = HistLen + 1
      /\ IsFiniteSet(0..(2 * CopyWindow)) /\ Cardinality(0..(2 * CopyWindow)) = 2 * CopyWindow + 1
  <2>1. 2 * CopyWindow \in Nat
    BY <1>2
  <2> DEFINE w == 2 * CopyWindow
  <2> HIDE DEF w
  <2>2. IsFiniteSet(0..w) /\ Cardinality(0..w) = w + 1
    BY <2>1, FS_Interval DEF w
  <2> QED  BY <1>2, <2>2, FS_Interval DEF w
<1>10. Cardinality(0..(2 * CopyWindow)) < Cardinality(0..HistLen)
  BY <1>2, <1>9
<1>11. \E x, y \in 0..HistLen : x # y /\ back[x] = back[y]
  <2> DEFINE S == 0..HistLen  T == 0..(2 * CopyWindow)
  <2>1. IsFiniteSet(S) /\ IsFiniteSet(T) /\ Cardinality(T) < Cardinality(S) /\ back \in [S -> T]
    BY <1>7, <1>9, <1>10
  <2> HIDE DEF S, T
  <2>2. \E x, y \in S : x # y /\ back[x] = back[y]
    BY <2>1, FS_PigeonHole, Zenon
  <2> QED  BY <2>2 DEF S
<1> QED  BY <1>8, <1>11

LEMMA RememberedReceive ==
    ASSUME RingInv, Remembered, NEW l \in LinkSet, NEW n \in 1..MaxFrame, Receive(l, n)
    PROVE  Remembered'
<1>1. passed \subseteq Frames /\ CopyWindow \in Nat
  BY RxAssumption DEF RingInv, RxInv, Shape, RxTypeOK
<1>2. ASSUME NEW g \in passed, g.num >= pos'[g.link] - CopyWindow
      PROVE  g.num >= pos[g.link] - CopyWindow
  <2>1. g.num \in Nat /\ g.link \in LinkSet
    BY <1>1, RxAssumption DEF Frames
  <2>2. pos[g.link] \in Int /\ pos'[g.link] \in Int /\ pos'[g.link] >= pos[g.link]
    BY <2>1, Incoming DEF RingInv
  <2> QED  BY <1>1, <1>2, <2>1, <2>2
<1>3. hist' = hist /\ passed' = passed
  BY DEF Receive
<1> QED  BY <1>2, <1>3 DEF Remembered

LEMMA RememberedAccept ==
    ASSUME RecentCopies, RingInv, Remembered, Accept
    PROVE  Remembered'
<1> DEFINE f == rx.frame
           h == History
<1>1. \A g \in Known : g.num >= pos[g.link] - CopyWindow => \E i \in 1..Len(h) : h[i] = g
  BY DEF Known, History, Remembered
<1>2. CASE ~Keep
  <2>1. hist' = h /\ passed' = Known /\ pos' = pos
    BY <1>2, Turn DEF RingInv
  <2> HIDE DEF h
  <2> QED  BY <1>1, <2>1 DEF Remembered
<1>3. CASE Keep
  <2> DEFINE s == Gone(h)
  <2>1. /\ hist' = Remember(h, f) /\ passed' = Known \cup {f} /\ pos' = pos
        /\ f \in Frames /\ h \in Seq(Frames) /\ Len(h) <= HistLen
    BY <1>3, Turn DEF RingInv
  <2>2. Len(h) = HistLen => h[1].num < pos[f.link] - CopyWindow
    BY <1>3, EvictedIsOld
  <2>3. \A g \in Known : g.link = f.link
    BY <1>3, HistoryFacts DEF Keep
  <2>4. pos[f.link] \in Int /\ CopyWindow \in Nat
    BY <2>1, RxAssumption DEF RingInv, RxInv, Shape, RxTypeOK, Frames
  <2> HIDE DEF f, h, s
  <2>5. /\ hist' \in Seq(Frames) /\ Len(hist') >= 1 /\ s \in 0..1 /\ hist'[Len(hist')] = f
        /\ \A j \in 1..Len(h) : j > s => j - s \in 1..(Len(hist') - 1) /\ hist'[j - s] = h[j]
    BY <1>3, KeptRing, Zenon DEF RingInv, f, h, s
  <2>6. ASSUME NEW g \in passed', g.num >= pos[g.link] - CopyWindow
        PROVE  \E i \in 1..Len(hist') : hist'[i] = g
    <3>1. CASE g = f
      BY <3>1, <2>5
    <3>2. CASE g \in Known
      <4>1. PICK j \in 1..Len(h) : h[j] = g
        BY <1>1, <2>6, <3>2
      <4>2. j > s
        <5>1. CASE Len(h) = HistLen
          <6>1. j # 1
            <7>1. h[j].num \in Nat
              BY <2>1, EntryParts
            <7> QED  BY <2>2, <2>3, <2>4, <2>6, <3>2, <4>1, <5>1, <7>1
          <6>2. s = 1 /\ j \in Nat /\ j >= 1
            BY <2>1, <5>1 DEF s, Gone
          <6> QED  BY <6>1, <6>2
        <5>2. CASE Len(h) # HistLen
          <6>1. s = 0 /\ j \in Nat /\ j >= 1
            BY <2>1, <5>2 DEF s, Gone
          <6> QED  BY <6>1
        <5> QED  BY <5>1, <5>2
      <4>3. j - s \in 1..Len(hist') /\ hist'[j - s] = h[j]
        BY <2>5, <4>2
      <4> QED  BY <4>1, <4>3
    <3> QED  BY <2>1, <3>1, <3>2
  <2> QED  BY <2>1, <2>6 DEF Remembered
<1> QED  BY <1>2, <1>3

(* A frame that was passed on and comes again is still in the ring.        *)
LEMMA CopyIsDuplicate ==
    ASSUME RingInv, Remembered, Accept, rx.forward, rx.frame \in Known
    PROVE  duplicate(History, rx.frame)
<1>1. rx.gen = linkGen /\ Known = passed /\ History = hist
  BY DEF Known, History
<1>2. \E i \in 1..Len(hist) : hist[i] = rx.frame
  BY <1>1, HistoryFacts DEF Remembered
<1> QED  BY <1>1, <1>2 DEF duplicate

LEMMA CopyInit == RxInit => RingInv /\ Remembered /\ PassesNoCopy
<1> SUFFICES ASSUME RxInit PROVE Remembered /\ PassesNoCopy
  BY RingInit
<1>1. passed = {} /\ fate.forward = FALSE
  BY DEF RxInit
<1> QED  BY <1>1 DEF Remembered, PassesNoCopy

LEMMA CopyNext ==
    ASSUME RecentCopies, RingInv /\ Remembered /\ PassesNoCopy, [RxNext]_rxVars
    PROVE  (RingInv /\ Remembered /\ PassesNoCopy)'
<1>1. RingInv'
  BY RingNext
<1>2. CASE Accept
  <2>1. Remembered'
    BY <1>2, RememberedAccept
  <2>2. PassesNoCopy'
    BY <1>2, TurnFate, CopyIsDuplicate DEF PassesNoCopy, RingInv
  <2> QED  BY <1>1, <2>1, <2>2
<1>3. CASE \E l \in LinkSet, n \in 1..MaxFrame : Receive(l, n)
  <2>1. Remembered'
    BY <1>3, RememberedReceive
  <2>2. PassesNoCopy'
    BY <1>3 DEF PassesNoCopy, Receive
  <2> QED  BY <1>1, <2>1, <2>2
<1>4. CASE UNCHANGED <<pos, rx, linkGen, hist, passed, fate>>
  BY <1>1, <1>4 DEF Remembered, PassesNoCopy
<1> QED  BY <1>2, <1>3, <1>4 DEF RxNext, rxVars

(* A unicast and a broadcast copy of one frame that arrive within          *)
(* CopyWindow frames of each other are not both passed on, if the ring is  *)
(* longer than twice that: whatever is lost, for every range of the        *)
(* sequence numbers, and whenever the link changes.                        *)
THEOREM NoCopyPassed ==
    ASSUME RecentCopies
    PROVE  RxSpec => []PassesNoCopy
<1>1. RxInit => RingInv /\ Remembered /\ PassesNoCopy
  BY CopyInit
<1>2. (RingInv /\ Remembered /\ PassesNoCopy) /\ [RxNext]_rxVars
        => (RingInv /\ Remembered /\ PassesNoCopy)'
  BY CopyNext
<1> QED  BY <1>1, <1>2, PTL DEF RxSpec

-----------------------------------------------------------------------------
LEMMA CloseSwitch ==
    ASSUME RingInv, Close, gen + 1 < Gens, NEW l \in LinkSet, Switch(l),
           UNCHANGED <<pos, rx, linkGen, hist, passed, fate>>
    PROVE  Close'
<1>1. gen' # linkGen'
  BY RingSwitch
<1> QED  BY <1>1 DEF Close, Tight, Fresh

LEMMA CloseReceive ==
    ASSUME RingInv, Close, NEW l \in LinkSet, NEW n \in 1..MaxFrame, Receive(l, n)
    PROVE  Close'
<1>1. rx' \in Busy /\ rx' # NoFrame /\ rx'.gen = gen /\ UNCHANGED <<gen, linkGen, hist>>
  BY Incoming, FreeIsNotBusy DEF RingInv
<1>2. CASE gen # linkGen
  BY <1>1, <1>2 DEF Close
<1>3. CASE gen = linkGen
  <2>1. Tight /\ \A i \in 1..Len(hist) : hist[i].link = active
    BY <1>3 DEF Close, Receive, RingInv, RxInv, OfGeneration
  <2>2. CASE l # active \/ pos'[l] = pos[l]
    <3>1. pos'[active] = pos[active]
      BY <2>2, Incoming DEF RingInv, RxInv, Shape, RxTypeOK
    <3>2. Tight'
      BY <1>1, <2>1, <3>1 DEF Tight
    <3> QED  BY <1>1, <3>2 DEF Close
  <2>3. CASE l = active /\ pos'[l] # pos[l]
    <3>1. /\ pos'[l] = n /\ n > pos[l] /\ n <= pos[l] + MaxLost + 1 /\ pos[l] \in Int
          /\ rx'.frame.num = n /\ rx'.frame.link = l /\ rx'.forward
      BY <2>3, Incoming DEF RingInv
    <3>2. ASSUME NEW i \in 1..Len(hist)
          PROVE  /\ hist[i].num < pos'[hist[i].link]
                 /\ pos'[hist[i].link] - hist[i].num <= Slack(Len(hist) - i + 1)
      <4>1. hist \in Seq(Frames)
        BY DEF RingInv, RxInv, Shape
      <4>2. hist[i].num \in Nat /\ hist[i].link = l
        BY <2>1, <2>3, <4>1, EntryParts
      <4>3. hist[i].num <= pos[l] /\ pos[l] - hist[i].num <= Slack(Len(hist) - i)
        BY <2>1, <4>2 DEF Tight, RingInv, Recent
      <4>4. Len(hist) - i \in Nat
        BY <4>1
      <4>5. Slack(Len(hist) - i + 1) = Slack(Len(hist) - i) + MaxLost + 1 /\ Slack(Len(hist) - i) \in Nat
        BY <4>4, SlackGrows
      <4>6. hist[i].num < pos'[l]
        BY <3>1, <4>2, <4>3
      <4>7. pos'[l] - hist[i].num <= Slack(Len(hist) - i + 1)
        <5>1. PICK a \in Nat, b \in Int, d \in Nat, t \in Nat :
                 a = hist[i].num /\ b = pos[l] /\ d = MaxLost /\ t = Slack(Len(hist) - i)
          BY <3>1, <4>2, <4>5, RxAssumption, Zenon
        <5>2. b - a <= t /\ n <= b + d + 1 /\ Slack(Len(hist) - i + 1) = t + d + 1
          BY <3>1, <4>3, <4>5, <5>1, Zenon
        <5>3. n - a <= t + d + 1
          BY <5>2
        <5> QED  BY <3>1, <5>1, <5>2, <5>3
      <4> QED  BY <4>2, <4>6, <4>7
    <3>3. Fresh'
      BY <1>1, <3>1, <3>2 DEF Fresh
    <3> QED  BY <1>1, <3>1, <3>3 DEF Close
  <2> QED  BY <2>2, <2>3
<1> QED  BY <1>2, <1>3

(* The same of the history the frame in hand is compared with: it is       *)
(* tight, or the frame is newer than all of it.                            *)
LEMMA CloseHistory ==
    ASSUME RingInv, Close, Accept
    PROVE  LET h == History
           IN  \/ \A i \in 1..Len(h) : pos[h[i].link] - h[i].num <= Slack(Len(h) - i)
               \/ /\ rx.forward /\ rx.frame.num = pos[rx.frame.link]
                  /\ \A i \in 1..Len(h) :
                       /\ h[i].num < pos[h[i].link]
                       /\ pos[h[i].link] - h[i].num <= Slack(Len(h) - i + 1)
<1>1. CASE rx.gen # linkGen
  <2>1. Len(History) = 0
    BY <1>1 DEF History
  <2> QED  BY <2>1
<1>2. CASE rx.gen = linkGen
  <2>1. History = hist /\ rx \in Busy
    BY <1>2, Turn DEF History, RingInv
  <2> QED  BY <1>2, <2>1 DEF Close, Tight, Fresh
<1> QED  BY <1>1, <1>2

(* An entry of the history and the frame in hand are less than a whole     *)
(* range of sequence numbers apart.                                        *)
LEMMA WithinRange ==
    ASSUME ShortLosses, RingInv, Close, Accept, rx.forward, NEW i \in 1..Len(History)
    PROVE  /\ History[i].num - rx.frame.num < SeqRange
           /\ rx.frame.num - History[i].num < SeqRange
           /\ pos[rx.frame.link] - History[i].num <= Slack(Len(History) - i + 1)
<1> DEFINE h == History
           p == pos[rx.frame.link]
           f == rx.frame
<1>1. h \in Seq(Frames) /\ Len(h) <= HistLen /\ f.num \in Nat /\ f.link \in LinkSet
  BY Turn DEF RingInv
<1>2. /\ h[i].num \in Nat /\ h[i].num <= p /\ h[i].link = f.link
      /\ f.num <= p /\ f.num >= p - CopyWindow
  BY HistoryFacts
<1>3. p - h[i].num <= Slack(Len(h) - i) \/ p - h[i].num <= Slack(Len(h) - i + 1)
  BY <1>2, CloseHistory
<1>4. pos \in [LinkSet -> 0..MaxFrame]
  BY DEF RingInv, RxInv, Shape, RxTypeOK
<1>5. p \in Int
  BY <1>1, <1>4
<1> HIDE DEF h, p, f
<1>6. i \in 1..Len(h) /\ Len(h) \in Nat
  BY <1>1 DEF h
<1>7. /\ Len(h) - i \in Nat /\ Len(h) - i + 1 \in Nat /\ HistLen \in Nat
      /\ Len(h) - i <= Len(h) - i + 1 /\ Len(h) - i + 1 <= HistLen
  BY <1>1, <1>6, RxAssumption
<1>8. /\ Slack(Len(h) - i) \in Nat /\ Slack(Len(h) - i + 1) \in Nat /\ Slack(HistLen) \in Nat
      /\ Slack(Len(h) - i) <= Slack(Len(h) - i + 1) /\ Slack(Len(h) - i + 1) <= Slack(HistLen)
  BY <1>7, SlackGrows
<1>9. Slack(HistLen) < SeqRange /\ CopyWindow <= Slack(HistLen)
  <2>1. Slack(0) = CopyWindow /\ Slack(0) <= Slack(HistLen)
    BY <1>7, SlackGrows
  <2> QED  BY <2>1 DEF Slack, ShortLosses
<1>10. p - h[i].num <= Slack(Len(h) - i + 1)
  BY <1>2, <1>3, <1>5, <1>8
<1>11. h[i].num - f.num < SeqRange /\ f.num - h[i].num < SeqRange
  <2>1. CopyWindow \in Int /\ SeqRange \in Int
    BY RxAssumption
  <2>2. h[i].num - f.num <= CopyWindow /\ f.num - h[i].num <= Slack(Len(h) - i + 1)
    <3>1. \A a, b, q, c, t \in Int :
             a <= q /\ b <= q /\ b >= q - c /\ q - a <= t => a - b <= c /\ b - a <= t
      OBVIOUS
    <3>2. h[i].num \in Int /\ f.num \in Int /\ Slack(Len(h) - i + 1) \in Int
      BY <1>1, <1>2, <1>8
    <3> QED  BY <1>2, <1>5, <1>10, <2>1, <3>1, <3>2
  <2>3. CopyWindow < SeqRange /\ Slack(Len(h) - i + 1) < SeqRange
    BY <1>8, <1>9, <2>1
  <2>4. \A a, b, c \in Int : a - b <= c /\ c < SeqRange => a - b < SeqRange
    BY <2>1
  <2>5. h[i].num \in Int /\ f.num \in Int /\ Slack(Len(h) - i + 1) \in Int
    BY <1>1, <1>2, <1>8
  <2> QED  BY <2>1, <2>2, <2>3, <2>4, <2>5, Zenon
<1> QED  BY <1>10, <1>11 DEF h, p, f

(* So equal sequence numbers mean equal frames.                            *)
LEMMA SameNumber ==
    ASSUME ShortLosses, RingInv, Close, Accept, rx.forward, NEW i \in 1..Len(History),
           Seq8(History[i]) = Seq8(rx.frame)
    PROVE  History[i].num = rx.frame.num /\ rx.frame \in Known
<1>1. History[i].num \in Nat /\ rx.frame.num \in Nat /\ History[i].link = rx.frame.link
      /\ History[i] \in Known
  BY HistoryFacts, Turn DEF RingInv
<1>2. History[i].num % SeqRange = rx.frame.num % SeqRange
  BY DEF Seq8
<1>3. History[i].num = rx.frame.num
  <2>1. /\ History[i].num - rx.frame.num < SeqRange
        /\ rx.frame.num - History[i].num < SeqRange
    BY WithinRange
  <2>2. /\ ~(History[i].num < rx.frame.num)
        /\ ~(rx.frame.num < History[i].num)
    BY <1>1, <1>2, <2>1, NearNumbersDiffer, Zenon
  <2> QED  BY <1>1, <2>2
<1>4. History[i] \in Frames /\ rx.frame \in Frames
  BY Turn, EntryParts DEF RingInv
<1>5. History[i] = rx.frame
  BY <1>1, <1>3, <1>4 DEF Frames
<1> QED  BY <1>1, <1>3, <1>5

LEMMA CloseAccept ==
    ASSUME ShortLosses, RingInv, Close, Accept
    PROVE  Close'
<1> DEFINE f == rx.frame
           h == History
<1> SUFFICES Tight'
  BY Turn DEF Close, RingInv
<1>1. h \in Seq(Frames) /\ Len(h) <= HistLen /\ f \in Frames /\ pos' = pos
  BY Turn DEF RingInv
<1>2. CASE ~Keep
  <2>1. hist' = h
    BY <1>2, Turn DEF RingInv
  <2>2. \A i \in 1..Len(h) : pos[h[i].link] - h[i].num <= Slack(Len(h) - i)
    <3> SUFFICES ASSUME rx.forward, f.num = pos[f.link],
                        \A i \in 1..Len(h) : h[i].num < pos[h[i].link]
                 PROVE  FALSE
      BY CloseHistory
    <3>1. PICK i \in 1..Len(h) : Seq8(h[i]) = Seq8(f)
      BY <1>2 DEF Keep, duplicate
    <3>2. h[i].num = f.num /\ h[i].link = f.link
      BY <3>1, SameNumber, HistoryFacts
    <3>3. h[i].num \in Nat
      BY HistoryFacts
    <3> QED  BY <3>2, <3>3
  <2> QED  BY <1>1, <2>1, <2>2 DEF Tight
<1>3. CASE Keep
  <2> DEFINE s == Gone(h)
  <2>1. rx.forward /\ hist' = Remember(h, f)
    BY <1>3, Turn DEF RingInv, Keep
  <2>2. \A i \in 1..Len(h) : pos[h[i].link] - h[i].num <= Slack(Len(h) - i + 1)
    BY <2>1, WithinRange, HistoryFacts
  <2>3. f.num >= pos[f.link] - CopyWindow /\ f.num \in Nat /\ f.link \in LinkSet
    BY HistoryFacts, Turn DEF RingInv
  <2>4. pos[f.link] \in Int
    <3>1. pos \in [LinkSet -> 0..MaxFrame]
      BY DEF RingInv, RxInv, Shape, RxTypeOK
    <3> QED  BY <2>3, <3>1
  <2>5. /\ hist' \in Seq(Frames) /\ Len(hist') = Len(h) + 1 - s /\ s \in 0..1
        /\ hist'[Len(hist')] = f
        /\ \A i \in 1..(Len(hist') - 1) : i + s \in 1..Len(h) /\ hist'[i] = h[i + s]
    BY <1>3, KeptRing, Zenon DEF RingInv
  <2> HIDE DEF f, h, s
  <2>6. ASSUME NEW i \in 1..Len(hist')
        PROVE  pos[hist'[i].link] - hist'[i].num <= Slack(Len(hist') - i)
    <3>1. CASE i = Len(hist')
      <4>1. Len(hist') - i = 0 /\ hist'[i] = f
        BY <3>1, <2>5
      <4>2. Slack(Len(hist') - i) = CopyWindow
        BY <4>1, SlackGrows
      <4> QED  BY <4>1, <4>2, <2>3, <2>4, RxAssumption
    <3>2. CASE i # Len(hist')
      <4>1. i \in 1..(Len(hist') - 1)
        BY <3>2, <2>5
      <4>2. i + s \in 1..Len(h) /\ hist'[i] = h[i + s]
        BY <4>1, <2>5
      <4>3. Len(h) - (i + s) + 1 = Len(hist') - i
        BY <1>1, <2>5
      <4>4. pos[h[i + s].link] - h[i + s].num <= Slack(Len(h) - (i + s) + 1)
        BY <2>2, <4>2
      <4> QED  BY <4>2, <4>3, <4>4
    <3> QED  BY <3>1, <3>2
  <2> QED  BY <1>1, <2>6 DEF Tight
<1> QED  BY <1>2, <1>3

LEMMA DropInit == RxInit => RingInv /\ Close /\ DropsOnlyCopies
<1> SUFFICES ASSUME RxInit PROVE Close /\ DropsOnlyCopies
  BY RingInit
<1>1. Len(hist) = 0 /\ rx = NoFrame /\ fate.forward = FALSE
  BY DEF RxInit
<1> QED  BY <1>1, FreeIsNotBusy DEF Close, Tight, DropsOnlyCopies

LEMMA DropNext ==
    ASSUME ShortLosses, RingInv /\ Close /\ DropsOnlyCopies, [RxNext]_rxVars
    PROVE  (RingInv /\ Close /\ DropsOnlyCopies)'
<1>1. RingInv'
  BY RingNext
<1>2. CASE Accept
  <2>1. Close'
    BY <1>2, CloseAccept
  <2>2. DropsOnlyCopies'
    BY <1>2, TurnFate, SameNumber DEF DropsOnlyCopies, RingInv, duplicate
  <2> QED  BY <1>1, <2>1, <2>2
<1>3. CASE \E l \in LinkSet, n \in 1..MaxFrame : Receive(l, n)
  <2>1. Close'
    BY <1>3, CloseReceive
  <2>2. DropsOnlyCopies'
    BY <1>3 DEF DropsOnlyCopies, Receive
  <2> QED  BY <1>1, <2>1, <2>2
<1>4. ASSUME gen + 1 < Gens, NEW l \in LinkSet, Switch(l),
             UNCHANGED <<pos, rx, linkGen, hist, passed, fate>>
      PROVE  (Close /\ DropsOnlyCopies)'
  <2>1. Close'
    BY <1>4, CloseSwitch
  <2>2. DropsOnlyCopies'
    BY <1>4 DEF DropsOnlyCopies
  <2> QED  BY <2>1, <2>2
<1>5. CASE UNCHANGED rxVars
  BY <1>1, <1>5 DEF rxVars, Close, Tight, Fresh, DropsOnlyCopies
<1> QED  BY <1>1, <1>2, <1>3, <1>4, <1>5 DEF RxNext

(* A frame is dropped only if the same frame was passed on before, as long *)
(* as HistLen runs of losses and a late copy fit into the range of the     *)
(* sequence numbers: a number that comes round again has left the ring.    *)
THEOREM OnlyCopiesDropped ==
    ASSUME ShortLosses
    PROVE  RxSpec => []DropsOnlyCopies
<1>1. RxInit => RingInv /\ Close /\ DropsOnlyCopies
  BY DropInit
<1>2. (RingInv /\ Close /\ DropsOnlyCopies) /\ [RxNext]_rxVars
        => (RingInv /\ Close /\ DropsOnlyCopies)'
  BY DropNext
<1> QED  BY <1>1, <1>2, PTL DEF RxSpec

-----------------------------------------------------------------------------
(* At the end of a turn on the active link, the ring and a memory of all   *)
(* frames agree.                                                           *)
LEMMA RingIsMemory ==
    ASSUME ShortLosses, RingInv, Remembered, Close, Accept, rx.forward
    PROVE  duplicate(History, rx.frame) <=> rx.frame \in Known
BY CopyIsDuplicate, SameNumber DEF duplicate

LEMMA AcceptIsJudge ==
    ASSUME ShortLosses, RingInv, Remembered, Close, Accept
    PROVE  Filter!Judge
<1> USE DEF Filter!Judge, Filter!Empty
<1>1. rx # [busy |-> FALSE] /\ rx' = [busy |-> FALSE] /\ linkGen' = rx.gen
  BY DEF Accept, NoFrame
<1>2. Known = IF rx.gen = linkGen THEN passed ELSE {}
  BY DEF Known
<1>3. CASE rx.forward
  <2>1. passed' = Known \cup {rx.frame}
    BY <1>3, Turn, RingIsMemory DEF Keep, RingInv
  <2>2. fate'.forward /\ (fate'.dropped <=> rx.frame \in Known)
    BY <1>3, TurnFate, RingIsMemory DEF RingInv
  <2>3. Verdict' = IF rx.frame \in Known THEN "drop" ELSE "pass"
    BY <2>2 DEF Verdict
  <2>4. Verdict' = CASE ~rx.forward -> "skip"
                     [] rx.forward /\ rx.frame \in Known -> "drop"
                     [] rx.forward /\ rx.frame \notin Known -> "pass"
    BY <1>3, <2>3
  <2> QED  BY <1>1, <1>2, <1>3, <2>1, <2>4
<1>4. CASE ~rx.forward
  <2>1. passed' = Known /\ ~fate'.forward
    BY <1>4, Turn, TurnFate DEF Keep, RingInv
  <2>2. Verdict' = "skip"
    BY <2>1 DEF Verdict
  <2>3. Verdict' = CASE ~rx.forward -> "skip"
                     [] rx.forward /\ rx.frame \in Known -> "drop"
                     [] rx.forward /\ rx.frame \notin Known -> "pass"
    BY <1>4, <2>2
  <2> QED  BY <1>1, <1>2, <1>4, <2>1, <2>3
<1> QED  BY <1>3, <1>4

LEMMA ReceiveIsTake ==
    ASSUME RingInv, NEW l \in LinkSet, NEW n \in 1..MaxFrame, Receive(l, n)
    PROVE  Filter!Take
<1>1. rx' \in Busy
  BY Incoming DEF RingInv
<1> QED  BY <1>1 DEF Receive, NoFrame, Busy, Verdict, Filter!Take, Filter!Empty

(* The duplicate filter with its ring of sequence numbers implements a     *)
(* filter that remembers every frame: within the tolerances, a user of     *)
(* receiveAndForward cannot tell the two apart, whatever the supervisor    *)
(* does meanwhile.                                                         *)
THEOREM RingImplementsFilter ==
    ASSUME ShortLosses, RecentCopies
    PROVE  RxSpec => ImplementsFilter
<1> DEFINE Inv == RingInv /\ Remembered /\ Close /\ PassesNoCopy /\ DropsOnlyCopies
<1>1. RxInit => Inv
  BY CopyInit, DropInit
<1>2. Inv /\ [RxNext]_rxVars => Inv'
  BY CopyNext, DropNext
<1>3. RxInit => Filter!FilterInit
  BY DEF RxInit, NoFrame, Verdict, Filter!FilterInit, Filter!Empty
<1>4. Inv /\ [RxNext]_rxVars => [Filter!FilterNext]_(Filter!filterVars)
  <2> SUFFICES ASSUME Inv, [RxNext]_rxVars
               PROVE  Filter!FilterNext \/ UNCHANGED Filter!filterVars
    OBVIOUS
  <2>1. CASE Accept
    BY <2>1, AcceptIsJudge DEF Filter!FilterNext
  <2>2. CASE \E l \in LinkSet, n \in 1..MaxFrame : Receive(l, n)
    BY <2>2, ReceiveIsTake DEF Filter!FilterNext
  <2>3. CASE UNCHANGED <<rx, linkGen, passed, fate>>
    BY <2>3 DEF Filter!filterVars, Verdict
  <2> QED  BY <2>1, <2>2, <2>3 DEF RxNext, rxVars
<1> QED  BY <1>1, <1>2, <1>3, <1>4, PTL DEF RxSpec, ImplementsFilter, Filter!FilterSpec

(* The receiver's state keeps its shape, and the ring its length.          *)
THEOREM RxTypeCorrect == RxSpec => []RxTypeOK
<1>1. RxInv => RxTypeOK
  BY DEF RxInv, Shape
<1> QED  BY RxInvariance, <1>1, PTL

(* Whenever the supervisor changes the link in the middle of a turn of     *)
(* receiveAndForward, no frame is compared with the sequence numbers of    *)
(* another link.                                                           *)
THEOREM OneLinkAlways == RxSpec => []HistoryOfOneLink
<1>1. RxInv => HistoryOfOneLink
  BY DEF RxInv
<1> QED  BY RxInvariance, <1>1, PTL
=============================================================================
