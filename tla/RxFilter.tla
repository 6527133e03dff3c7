------------------------------ MODULE RxFilter -------------------------------
(***************************************************************************)
(* What the head of receiveAndForward promises the rest of it, without     *)
(* rings or sequence numbers: of the frames of the active link, one is     *)
(* dropped exactly if it was passed on before in its generation.           *)
(***************************************************************************)
CONSTANTS
    FrameSet,  \* the frames
    GenSet     \* the generations

VARIABLES
    hand,     \* the frame in hand, with what observe returned
    curGen,   \* the generation of the last frame
    seen,     \* the frames passed on in that generation
    verdict   \* what became of the last frame

filterVars == <<hand, curGen, seen, verdict>>

Empty == [busy |-> FALSE]

FilterInit ==
    /\ hand = Empty
    /\ curGen = 0
    /\ seen = {}
    /\ verdict = "skip"

Take ==
    /\ hand = Empty
    /\ hand' \in [busy : {TRUE}, frame : FrameSet, forward : BOOLEAN, gen : GenSet]
    /\ UNCHANGED <<curGen, seen, verdict>>

Judge ==
    /\ hand # Empty
    /\ LET known == IF hand.gen = curGen THEN seen ELSE {}
       IN  /\ seen' = IF hand.forward THEN known \cup {hand.frame} ELSE known
           /\ verdict' = CASE ~hand.forward -> "skip"
                           [] hand.forward /\ hand.frame \in known -> "drop"
                           [] hand.forward /\ hand.frame \notin known -> "pass"
    /\ curGen' = hand.gen
    /\ hand' = Empty

FilterNext == Take \/ Judge

FilterSpec == FilterInit /\ [][FilterNext]_filterVars
=============================================================================
