-------------------------------- MODULE Timecode --------------------------------
(***************************************************************************)
(* The label of a frame in an exported marker list.  With drop-frame       *)
(* labels the first numbers of a minute are left out, except in every      *)
(* tenth minute, so that labels keep up with the clock on the wall; no     *)
(* frame is left out.                                                      *)
(*                                                                         *)
(* The code computes labels from frames and back with two formulas.  Here  *)
(* a counter runs through a day frame by frame beside them.                *)
(***************************************************************************)
EXTENDS Integers, FiniteSets

CONSTANTS
    Rates,   \* [nominal, drop]: numbers in a second, numbers left out of a minute
    Blocks   \* [rate -> ten-minute blocks of the day that are counted through]

VARIABLES
    rate,
    frame,  \* frames since midnight
    label   \* hours, minutes, seconds, frames, as counted

vars == <<rate, frame, label>>

Midnight == [h |-> 0, m |-> 0, s |-> 0, f |-> 0]

TypeOK ==
    /\ rate \in Rates /\ frame \in Nat
    /\ label \in [h : 0 .. 23, m : 0 .. 59, s : 0 .. 59, f : 0 .. rate.nominal - 1]

Init == rate \in Rates /\ frame = 0 /\ label = Midnight

-----------------------------------------------------------------------------
dayFrames == rate.nominal * 86400 - rate.drop * (1440 - 144)

\* parseNleOptions: the frame that has a label.
originFrames(l) ==
    LET totalMinutes == l.h * 60 + l.m IN
    (l.h * 3600 + l.m * 60 + l.s) * rate.nominal + l.f
      - rate.drop * (totalMinutes - totalMinutes \div 10)

\* ... and the labels it accepts.
validOrigin(l) == ~(rate.drop > 0 /\ l.m % 10 # 0 /\ l.s = 0 /\ l.f < rate.drop)

\* Mutation: the first minute of ten is taken for as long as the others.
nleTimecodeEvenMinutes(n) ==
    LET tenMinutes == rate.nominal * 600 - rate.drop * 9
        minute == rate.nominal * 60 - rate.drop
        number == n + (IF rate.drop = 0 THEN 0 ELSE
                        rate.drop * 9 * (n \div tenMinutes)
                        + rate.drop * ((n % tenMinutes) \div minute))
        seconds == number \div rate.nominal
    IN [h |-> seconds \div 3600, m |-> (seconds \div 60) % 60, s |-> seconds % 60,
        f |-> number % rate.nominal]

\* nleTimecode: the label a frame has.
nleTimecode(n) ==
    LET tenMinutes == rate.nominal * 600 - rate.drop * 9
        minute == rate.nominal * 60 - rate.drop
        past == ((n % tenMinutes) - rate.drop) \div minute
        number == n + (IF rate.drop = 0 THEN 0 ELSE
                        rate.drop * 9 * (n \div tenMinutes)
                        + rate.drop * (IF past > 0 THEN past ELSE 0))
        seconds == number \div rate.nominal
    IN [h |-> seconds \div 3600, m |-> (seconds \div 60) % 60, s |-> seconds % 60,
        f |-> number % rate.nominal]

-----------------------------------------------------------------------------
(***************************************************************************)
(* The counter.                                                            *)
(***************************************************************************)

After(l) ==
    IF l.f + 1 < rate.nominal THEN [l EXCEPT !.f = @ + 1]
    ELSE IF l.s < 59 THEN [l EXCEPT !.f = 0, !.s = @ + 1]
    ELSE LET m == (l.m + 1) % 60 IN
         [h |-> IF m = 0 THEN l.h + 1 ELSE l.h, m |-> m, s |-> 0,
          f |-> IF m % 10 = 0 THEN 0 ELSE rate.drop]

Block == label.h * 6 + label.m \div 10
AtBlock == label.m % 10 = 0 /\ label.s = 0 /\ label.f = 0

Frame ==
    /\ Block \in Blocks[rate]
    /\ frame + 1 < dayFrames
    /\ frame' = frame + 1 /\ label' = After(label)
    /\ UNCHANGED rate

\* A block is passed over: numbers are left out in nine of its ten minutes.
Leap ==
    /\ AtBlock /\ Block \notin Blocks[rate] /\ Block < 143
    /\ frame' = frame + 600 * rate.nominal - 9 * rate.drop
    /\ label' = [label EXCEPT !.h = (Block + 1) \div 6, !.m = 10 * ((Block + 1) % 6)]
    /\ UNCHANGED rate

Next == Frame \/ Leap

Spec == Init /\ [][Next]_vars

-----------------------------------------------------------------------------
\* A frame's label is the one counting gives it, the label leads back to the frame and
\* may be an origin, and the last frame of the day has the last label of the day:
\* exported markers stand where the comments are, at midnight, at the minutes where
\* numbers are left out and at the tenth minutes where they are not.
EveryFrameHasItsLabel ==
    /\ nleTimecode(frame) = label
    /\ originFrames(label) = frame
    /\ validOrigin(label)
    /\ frame + 1 = dayFrames <=> label = [h |-> 23, m |-> 59, s |-> 59, f |-> rate.nominal - 1]
===============================================================================
