----------------------------- MODULE LinkChoice ------------------------------
(***************************************************************************)
(* What the PX4 link arbiter promises its users, without saying when it    *)
(* changes the link: there is one active link, it changes only while       *)
(* nobody transmits, a transmission goes to the link that is active, and   *)
(* every change is a new generation.                                       *)
(***************************************************************************)
EXTENDS Integers

CONSTANTS
    LinkSet,  \* the links
    First,    \* the link that is active at the start
    Gens      \* the width of the generation

ASSUME ChoiceAssumption == First \in LinkSet /\ Gens \in Nat \ {0}

VARIABLES
    active,   \* snap.active
    gen,      \* the generation
    sending   \* the link that is being transmitted on, or "none"

choiceVars == <<active, gen, sending>>

ChoiceInit == active = First /\ gen = 0 /\ sending = "none"

Switch(l) ==
    /\ sending = "none"
    /\ l # active
    /\ active' = l
    /\ gen' = (gen + 1) % Gens
    /\ UNCHANGED sending

BeginSend ==
    /\ sending = "none"
    /\ sending' = active
    /\ UNCHANGED <<active, gen>>

EndSend ==
    /\ sending # "none"
    /\ sending' = "none"
    /\ UNCHANGED <<active, gen>>

ChoiceNext == (\E l \in LinkSet : Switch(l)) \/ BeginSend \/ EndSend

ChoiceSpec == ChoiceInit /\ [][ChoiceNext]_choiceVars
=============================================================================
