-------------------------------- MODULE MCBus ---------------------------------
(* Two adjacent memories, one of them half hidden by the overlay, a hole, the *)
(* clock, the display, a device that overlaps the clock, and ROM at the top.  *)
EXTENDS Bus

SmallSpan ==
    [r \in Region |->
        CASE r = "chip" -> 0 .. 3
          [] r = "fast" -> 4 .. 4
          [] r = "rtc" -> 8 .. 13
          [] r = "spare" -> 13 .. 15
          [] r = "video" -> 16 .. 21
          [] r = "rom" -> 30 .. 31]

SmallImage == [x \in 0 .. 1 |-> 2 - x]
Edges == {0, 1, 2, 3, 4, 6, 14, 28, 30, 31}
Values == {<<1>>, <<0, 1>>, <<1, 0, 0, 1>>}
Images == {<<1>>, <<0, 1, 1>>}

Registers == {8, 10, 16, 18, 20}
Stores == {<<1>>, <<0, 3>>, <<1, 2, 3, 2>>}
Lines == {<<1, 2, 1>>}

=============================================================================
