------------------------------ MODULE Palette ------------------------------
(***************************************************************************)
(* The palette of the graphics windows, the keys that change it and the    *)
(* image of a tile made with it.  A colour is what the code puts in an     *)
(* rgb: "red" and "black" for the clipped value, otherwise the kind of     *)
(* palette and its 8-bit level (the grey or the hue, set_hsv being         *)
(* external).                                                              *)
(***************************************************************************)
EXTENDS Integers, Sequences

CONSTANT Bits      \* the code's size is 2^8

Size == 2 ^ Bits

Clamp(x, lo, hi) == IF x < lo THEN lo ELSE IF x > hi THEN hi ELSE x

\* The remainder of C++ has the sign of the dividend
Rem(a, b) == IF a < 0 THEN -((-a) % b) ELSE a % b

Level(p, i) == LET j == IF p.frequency_log2 < 0 THEN i \div 2 ^ (-p.frequency_log2)
                                                ELSE i * 2 ^ p.frequency_log2
               IN (j + p.phase) % Size
Colour(p, i) == IF i = p.clip THEN <<IF p.k = "gray" THEN "red" ELSE "black">>
                              ELSE <<p.k, Level(p, i)>>

\* gray_palette and rainbow_palette
color_mapping(p) == [i \in 0 .. Size - 1 |-> Colour(p, i)]

\* palette::update; the colours are color_mapping of the result
WrapClip(c) == CASE c < -1 -> Size - 1 [] c >= Size -> -1 [] OTHER -> c

update(p) == [p EXCEPT !.clip = WrapClip(@),
                       !.frequency_log2 = Clamp(@, -Bits, Bits - 1),
                       !.phase = Rem(@, Size)]

set(k, phase, frequency_log2, clip) ==
  update([k |-> k, phase |-> phase, clip |-> clip, frequency_log2 |-> frequency_log2])

\* The functions the keys call
change_clip(p, by)      == update([p EXCEPT !.clip = @ + by])
change_frequency(p, by) == update([p EXCEPT !.frequency_log2 = @ + by])
change_phase(p, by)     == update([p EXCEPT !.phase = @ + by])

Keys == {"0", "1", "-", "+", "h", "H", "j", "k", "l", "L"}

\* palette::handle_key_press_event for a key without modifiers
handle_key_press_event(p, key) ==
  CASE key = "0" -> update([p EXCEPT !.k = "gray"])
    [] key = "1" -> update([p EXCEPT !.k = "rainbow"])
    [] key = "-" -> change_frequency(p, -1)
    [] key = "+" -> change_frequency(p, 1)
    [] key = "h" -> change_phase(p, 1)
    [] key = "H" -> change_clip(change_phase(p, 1), -1)
    [] key = "j" -> change_clip(p, -1)
    [] key = "k" -> change_clip(p, 1)
    [] key = "l" -> change_phase(p, -1)
    [] key = "L" -> change_clip(change_phase(p, -1), 1)

\* palette::palettize, the index in the colours of a datum of the range
palettize(data, min_value, max_value) == ((data - min_value) * (Size - 1)) \div (max_value - min_value)

\* update_tile_data_image: the pixels written and the datum of each
Pixels(rows, columns, image_y, image_x) ==
  {<<j, i>> \in (0 .. rows - 1) \X (0 .. columns - 1) : j < image_y /\ i < image_x}
MirrorRow(j, image_y) == image_y - 1 - j
Offset(px, image_y, image_x) == MirrorRow(px[1], image_y) * image_x + px[2]

\* frame_grid: the frame of a tile, and the row of the grid it is attached to
get_frame(x, y, nx) == x + nx * y
=============================================================================
