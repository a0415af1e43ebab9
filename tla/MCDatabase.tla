----------------------------- MODULE MCDatabase -----------------------------
(***************************************************************************)
(* Database with a bridge and two accessories, the properties of a         *)
(* characteristic, what others make of written values, and a symmetry.     *)
(***************************************************************************)
EXTENDS Database, TLC

CONSTANTS
  InfoOfBridge, InfoOfX, InfoOfY,   \* services
  X, Y,                             \* accessories
  Over, Most, Bad                   \* a value above the limit, the limit, no value

MCInfo == [acc \in {Bridge, X, Y} |->
             CASE acc = Bridge -> InfoOfBridge [] acc = X -> InfoOfX [] acc = Y -> InfoOfY]

\* No two characteristics have the same type.
MCTypeOf == [c \in Chars |-> c]

\* A step that does not divide the limits, and valid values.  The numbers 2 and 6
\* become 1 and 5 with the first, 2 and (refused) 3 with the second.
MCConfigs == { [min |-> 1, max |-> 5, step |-> 4, valid |-> {}],
               [min |-> 0, max |-> 3, step |-> 0, valid |-> {0, 2}] }

\* One value is clamped, one refused.
MCTaken == [c \in WrittenChars |-> [v \in Values |->
              IF v = Over THEN Most ELSE IF v = Bad THEN Invalid ELSE v]]

\* The two accessories with their services are interchangeable.
Symmetry ==
  { [v \in {X, Y, InfoOfX, InfoOfY} |->
       CASE v = X -> Y [] v = Y -> X [] v = InfoOfX -> InfoOfY [] v = InfoOfY -> InfoOfX] }
=============================================================================
