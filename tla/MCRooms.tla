------------------------------ MODULE MCRooms ------------------------------
(* The small instances of Rooms that TLC checks. *)
EXTENDS RoomsClaims

CONSTANTS a, b, x, y, s1, s2, c1

(* One message for each member, in different tasks; the card, left in the  *)
(* first message's task, is the second member's.                           *)
AsksOf == [o \in {s1, s2, c1} |-> IF o = s1 THEN <<a>> ELSE <<b>>]
TaskOfEach == [o \in {s1, s2, c1} |-> IF o = s2 THEN y ELSE x]
============================================================================
