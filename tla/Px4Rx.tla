------------------------------- MODULE Px4Rx ---------------------------------
(***************************************************************************)
(* The head of receiveAndForward (forwarder/forwarder.go): a frame from a  *)
(* PX4 link is matched with the active link, and a frame that was seen     *)
(* before is dropped by its sequence number (seqHist).  The receiver runs  *)
(* beside the supervisor, which may change the active link between any two *)
(* of its steps: the arbiter is taken as LinkChoice.                       *)
(*                                                                         *)
(* One (system, component) pair is modelled; the others have histories of  *)
(* their own that are cleared together with this one.  Frames of system    *)
(* 255 leave before the history and are left out.                          *)
(***************************************************************************)
EXTENDS LinkChoice, Sequences, SequencesExt

CONSTANTS
    SeqRange,    \* sequence numbers are mod SeqRange (256)
    HistLen,     \* seqHistLen (32)
    MaxLost,     \* at most this many frames of a link are lost in a row
    CopyWindow,  \* a copy comes at most this many frames late
    MaxFrame     \* bound: frames PX4 sends on a link

ASSUME RxAssumption ==
    /\ SeqRange \in Nat \ {0} /\ HistLen \in Nat \ {0}
    /\ MaxLost \in Nat /\ CopyWindow \in Nat /\ MaxFrame \in Nat

(* How much disorder the ring stands.  For seqHistLen = 32 and 256 numbers, *)
(* up to 6 frames may be lost in a row while a copy comes at most 15 late. *)
ShortLosses == HistLen * (MaxLost + 1) + CopyWindow < SeqRange
RecentCopies == 2 * CopyWindow < HistLen

VARIABLES
    pos,      \* pos[l]: number of the newest frame that came in on l
    rx,       \* the frame in the receiver's hands and what observe returned
    linkGen,  \* the receiver's copy of the generation
    hist,     \* seqHist, oldest entry first: the frames accepted last
    passed,   \* history: the frames passed on since the last change of link
    fate      \* history: what happened to the last frame

rxVars == <<active, gen, sending, pos, rx, linkGen, hist, passed, fate>>

NoFrame == [busy |-> FALSE]
Frames == [link : LinkSet, num : 0..MaxFrame]

\* Faulty: the sequence number loses its top bit.
Seq7(f) == f.num % (SeqRange \div 2)

Seq8(f) == f.num % SeqRange

RxInit ==
    /\ ChoiceInit
    /\ pos = [l \in LinkSet |-> 0]
    /\ rx = NoFrame
    /\ linkGen = 0
    /\ hist = <<>>
    /\ passed = {}
    /\ fate = [forward |-> FALSE, dropped |-> FALSE, copy |-> FALSE]

(* The next event of the listener is a frame: a new one, after up to       *)
(* MaxLost lost ones, or a copy of a recent one or a late one.  observe    *)
(* reads the active link and the generation in one critical section.       *)
Receive(l, n) ==
    /\ rx = NoFrame
    /\ n \in (pos[l] - CopyWindow)..(pos[l] + MaxLost + 1)
    /\ pos' = [pos EXCEPT ![l] = IF n > @ THEN n ELSE @]
    /\ rx' = [busy |-> TRUE, frame |-> [link |-> l, num |-> n],
              forward |-> (l = active), gen |-> gen]
    /\ UNCHANGED <<active, gen, sending, linkGen, hist, passed, fate>>

\* Faulty: only the newest entry is compared.
duplicateOfLast(h, f) == h # <<>> /\ Seq8(Last(h)) = Seq8(f)

(* duplicate: the ring holds the sequence numbers of the last HistLen      *)
(* frames that were not duplicates.                                        *)
duplicate(h, f) == \E i \in 1..Len(h) : Seq8(h[i]) = Seq8(f)

Remember(h, f) == Append(IF Len(h) = HistLen THEN Tail(h) ELSE h, f)

\* Faulty: a new generation is noted, but the old link's history is kept.
HistoryKept == hist

(* A new generation clears the history.                                    *)
History == IF rx.gen # linkGen THEN <<>> ELSE hist

\* Faulty: the new generation is not noted, and the history is cleared for every frame.
AcceptUnnoted ==
    /\ rx # NoFrame
    /\ LET f == rx.frame
           known == IF rx.gen # linkGen THEN {} ELSE passed
           dropped == duplicate(History, f)
       IN  /\ hist' = IF rx.forward /\ ~dropped THEN Remember(History, f) ELSE History
           /\ passed' = IF rx.forward /\ ~dropped THEN known \cup {f} ELSE known
           /\ fate' = [forward |-> rx.forward, dropped |-> dropped, copy |-> f \in known]
    /\ rx' = NoFrame
    /\ UNCHANGED <<active, gen, sending, pos, linkGen>>

(* The rest of the turn, up to the point where the frame is passed on.     *)
Accept ==
    /\ rx # NoFrame
    /\ LET f == rx.frame
           h == History
           known == IF rx.gen # linkGen THEN {} ELSE passed
           dropped == duplicate(h, f)
       IN  /\ linkGen' = rx.gen
           /\ hist' = IF rx.forward /\ ~dropped THEN Remember(h, f) ELSE h
           /\ passed' = IF rx.forward /\ ~dropped THEN known \cup {f} ELSE known
           /\ fate' = [forward |-> rx.forward, dropped |-> dropped, copy |-> f \in known]
    /\ rx' = NoFrame
    /\ UNCHANGED <<active, gen, sending, pos>>

(* The generation is 64 bits wide and does not wrap in the life of the     *)
(* process: Gens bounds the number of changes.                             *)
RxNext ==
    \/ /\ gen + 1 < Gens
       /\ \E l \in LinkSet : Switch(l)
       /\ UNCHANGED <<pos, rx, linkGen, hist, passed, fate>>
    \/ \E l \in LinkSet, n \in 1..MaxFrame : Receive(l, n)
    \/ Accept

RxSpec == RxInit /\ [][RxNext]_rxVars

-----------------------------------------------------------------------------
(* The shape of the state; the ring never holds more than HistLen entries. *)
RxTypeOK ==
    /\ active \in LinkSet /\ gen \in 0..(Gens - 1) /\ sending = "none"
    /\ pos \in [LinkSet -> 0..MaxFrame]
    /\ rx \in {NoFrame} \cup
         [busy : {TRUE}, frame : Frames, forward : BOOLEAN, gen : 0..(Gens - 1)]
    /\ linkGen \in 0..(Gens - 1)
    /\ Len(hist) <= HistLen /\ Range(hist) \subseteq Frames
    /\ passed \subseteq Frames
    /\ fate \in [forward : BOOLEAN, dropped : BOOLEAN, copy : BOOLEAN]

(* The history never mixes two links, although the active link may change  *)
(* between observe and the end of the turn: a frame of the new link is not *)
(* compared with the sequence numbers of the old one.                      *)
HistoryOfOneLink == \A i, j \in 1..Len(hist) : hist[i].link = hist[j].link

(* A frame that is dropped is a copy of one that was passed on ("new       *)
(* sequences dropped", px4_link_test.go), while the losses are short       *)
(* (ShortLosses).                                                          *)
DropsOnlyCopies == fate.forward /\ fate.dropped => fate.copy

(* "a unicast copy and a broadcast copy of the same frame, arriving a few  *)
(* messages apart, are not both forwarded" (seqHist): not while the copies *)
(* are recent (RecentCopies), and not since the last change of link.       *)
PassesNoCopy == fate.forward /\ fate.copy => fate.dropped

(* What became of the last frame.                                          *)
Verdict == CASE ~fate.forward -> "skip"
             [] fate.forward /\ fate.dropped -> "drop"
             [] fate.forward /\ ~fate.dropped -> "pass"

Filter == INSTANCE RxFilter WITH FrameSet <- Frames, GenSet <- 0..(Gens - 1),
              hand <- rx, curGen <- linkGen, seen <- passed, verdict <- Verdict

(* The ring of 8-bit sequence numbers does what a memory of all frames     *)
(* passed on since the last change of link would do: receiveAndForward     *)
(* implements RxFilter, step by step.                                      *)
ImplementsFilter == Filter!FilterSpec
=============================================================================
