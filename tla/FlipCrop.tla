------------------------------ MODULE FlipCrop ------------------------------
(***************************************************************************)
(* The steps of libv4lconvert that move the pixels of a converted picture: *)
(* turned, mirrored, cut, reduced or given a border                        *)
(* (src/libvideo/libv4lconvert/flip.c and crop.c).                         *)
(*                                                                         *)
(* A format f has a width w, a height h and the bytes of a line, bpl; the  *)
(* lines of the chroma planes have half as many.                           *)
(***************************************************************************)
EXTENDS PixelBuffers

IsRgb(fmt) == fmt \in {"RGB24", "BGR24"}

(* A picture's byte of plane n (0 is Y) at x, y. *)
PlaneByte(src, f, n, x, y) ==
    IF n = 0 THEN src[y * f.bpl + x]
    ELSE src[f.h * f.bpl + (n - 1) * ((f.h * f.bpl) \div 4) + y * (f.bpl \div 2) + x]

(* The w x h picture whose pixel x, y is From's pixel Col(x), Row(y); in   *)
(* the chroma planes, ColC(x), RowC(y).                                    *)
MovedRgb(src, f, w, h, Col(_), Row(_)) ==
    [i \in 0 .. 3 * w * h - 1 |->
        src[Row(i \div (3 * w)) * f.bpl + 3 * Col((i \div 3) % w) + (i % 3)]]

MovedYuv(src, f, w, h, Col(_), Row(_), ColC(_), RowC(_)) ==
    LET Y(x, y) == PlaneByte(src, f, 0, Col(x), Row(y))
        U(x, y) == PlaneByte(src, f, 1, ColC(x), RowC(y))
        V(x, y) == PlaneByte(src, f, 2, ColC(x), RowC(y))
    IN  Yuv420(w, h, FALSE, Y, U, V)

Same(i) == i

-----------------------------------------------------------------------------
v4lconvert_vflip_rgbbgr24(src, f) ==
    LET Up(y) == f.h - 1 - y IN MovedRgb(src, f, f.w, f.h, Same, Up)

v4lconvert_vflip_yuv420(src, f) ==
    LET Up(y) == f.h - 1 - y   UpC(y) == f.h \div 2 - 1 - y
    IN  MovedYuv(src, f, f.w, f.h, Same, Up, Same, UpC)

v4lconvert_hflip_rgbbgr24(src, f) ==
    LET Left(x) == f.w - 1 - x IN MovedRgb(src, f, f.w, f.h, Left, Same)

v4lconvert_hflip_yuv420(src, f) ==
    LET Left(x) == f.w - 1 - x   LeftC(x) == f.w \div 2 - 1 - x
    IN  MovedYuv(src, f, f.w, f.h, Left, Same, LeftC, Same)

(* The half turns and the quarter turns take the lines to have no padding. *)
v4lconvert_rotate180_rgbbgr24(src, w, h) ==
    [i \in 0 .. 3 * w * h - 1 |-> src[3 * (w * h - 1 - i \div 3) + (i % 3)]]

v4lconvert_rotate180_yuv420(src, w, h) ==
    LET size == w * h   quarter == size \div 4
    IN  [i \in 0 .. (size * 3) \div 2 - 1 |->
            CASE i < size           -> src[size - 1 - i]
              [] i \in size .. size + quarter - 1 -> src[size + quarter - 1 - (i - size)]
              [] OTHER -> src[size + 2 * quarter - 1 - (i - size - quarter)]]

(* w and h are the destination's. *)
v4lconvert_rotate90_rgbbgr24(src, w, h) ==
    LET Pixel(x, y) == LET offset == ((w - x - 1) * h + y) * 3
                       IN  <<src[offset], src[offset + 1], src[offset + 2]>>
    IN  Rgb24(w, h, Pixel)

v4lconvert_rotate90_yuv420(src, w, h) ==
    LET w2 == w \div 2   h2 == h \div 2
        Y(x, y) == src[(w - x - 1) * h + y]
        U(x, y) == src[w * h + (w2 - x - 1) * h2 + y]
        V(x, y) == src[w * h + w2 * h2 + (w2 - x - 1) * h2 + y]
    IN  Yuv420(w, h, FALSE, Y, U, V)

v4lconvert_rotate90(src, f) ==
    IF IsRgb(f.fmt) THEN v4lconvert_rotate90_rgbbgr24(src, f.h, f.w)
                    ELSE v4lconvert_rotate90_yuv420(src, f.h, f.w)

v4lconvert_flip(src, f, hflip, vflip) ==
    CASE hflip /\ vflip /\ IsRgb(f.fmt)  -> v4lconvert_rotate180_rgbbgr24(src, f.w, f.h)
      [] hflip /\ vflip /\ ~IsRgb(f.fmt) -> v4lconvert_rotate180_yuv420(src, f.w, f.h)
      [] hflip /\ ~vflip /\ IsRgb(f.fmt)  -> v4lconvert_hflip_rgbbgr24(src, f)
      [] hflip /\ ~vflip /\ ~IsRgb(f.fmt) -> v4lconvert_hflip_yuv420(src, f)
      [] ~hflip /\ vflip /\ IsRgb(f.fmt)  -> v4lconvert_vflip_rgbbgr24(src, f)
      [] ~hflip /\ vflip /\ ~IsRgb(f.fmt) -> v4lconvert_vflip_yuv420(src, f)

-----------------------------------------------------------------------------
(* Cutting: the middle of the picture, d is the destination's format; the  *)
(* chroma planes need the offsets to be even.                              *)
v4lconvert_reduceandcrop_rgbbgr24(src, f, d) ==
    LET Col(x) == f.w \div 2 - d.w + 2 * x   Row(y) == f.h \div 2 - d.h + 2 * y
    IN  MovedRgb(src, f, d.w, d.h, Col, Row)

v4lconvert_reduceandcrop_yuv420(src, f, d) ==
    LET startx == Even(f.w \div 2 - d.w)   starty == Even(f.h \div 2 - d.h)
        Col(x) == startx + 2 * x               Row(y) == starty + 2 * y
        ColC(x) == startx \div 2 + 2 * x       RowC(y) == starty \div 2 + 2 * y
    IN  MovedYuv(src, f, d.w, d.h, Col, Row, ColC, RowC)

v4lconvert_crop_rgbbgr24(src, f, d) ==
    LET Col(x) == (f.w - d.w) \div 2 + x   Row(y) == (f.h - d.h) \div 2 + y
    IN  MovedRgb(src, f, d.w, d.h, Col, Row)

v4lconvert_crop_yuv420(src, f, d) ==
    LET startx == Even((f.w - d.w) \div 2)   starty == Even((f.h - d.h) \div 2)
        Col(x) == startx + x                     Row(y) == starty + y
        ColC(x) == startx \div 2 + x             RowC(y) == starty \div 2 + y
    IN  MovedYuv(src, f, d.w, d.h, Col, Row, ColC, RowC)

(* Borders: what is left over if the border is not even on both sides is   *)
(* not written, and the planes that follow begin too early.                *)
NotWritten == 0

v4lconvert_add_border_rgbbgr24(src, f, d) ==
    LET borderx == (d.w - f.w) \div 2   bordery == (d.h - f.h) \div 2
        Pixel(x, y) ==
            IF x - borderx \in 0 .. f.w - 1 /\ y - bordery \in 0 .. f.h - 1
            THEN [c \in 1 .. 3 |-> src[(y - bordery) * f.bpl + 3 * (x - borderx) + c - 1]]
            ELSE IF /\ x < 2 * borderx + f.w \/ y - bordery \notin 0 .. f.h - 1
                    /\ y < 2 * bordery + f.h
                 THEN <<0, 0, 0>>
            ELSE <<NotWritten, NotWritten, NotWritten>>
    IN  Rgb24(d.w, d.h, Pixel)

v4lconvert_add_border_yuv420(src, f, d) ==
    LET borderx == Even((d.w - f.w) \div 2)   bordery == Even((d.h - f.h) \div 2)
        lines == 2 * bordery + f.h
        ysize == lines * d.w   csize == (lines \div 2) * (d.w \div 2)
        Bordered(n, bx, by, w, h, fill, x, y) ==
            IF x - bx \in 0 .. w - 1 /\ y - by \in 0 .. h - 1
            THEN PlaneByte(src, f, n, x - bx, y - by)
            ELSE IF x < 2 * bx + w \/ y \notin by .. by + h - 1 THEN fill ELSE NotWritten
        Y(i) == Bordered(0, borderx, bordery, f.w, f.h, 16, i % d.w, i \div d.w)
        C(n, i) == Bordered(n, borderx \div 2, bordery \div 2, f.w \div 2, f.h \div 2, 128,
                            i % (d.w \div 2), i \div (d.w \div 2))
    IN  [i \in 0 .. (3 * d.w * d.h) \div 2 - 1 |->
            CASE i < ysize                  -> Y(i)
              [] i \in ysize .. ysize + csize - 1 -> C(1, i - ysize)
              [] i \in ysize + csize .. ysize + 2 * csize - 1 -> C(2, i - ysize - csize)
              [] OTHER -> NotWritten]

v4lconvert_crop(src, f, d) ==
    LET bigger  == f.w <= d.w /\ f.h <= d.h
        halved  == ~bigger /\ f.w >= 2 * d.w /\ f.h >= 2 * d.h
    IN  CASE bigger /\ IsRgb(d.fmt)  -> v4lconvert_add_border_rgbbgr24(src, f, d)
          [] bigger /\ ~IsRgb(d.fmt) -> v4lconvert_add_border_yuv420(src, f, d)
          [] halved /\ IsRgb(d.fmt)  -> v4lconvert_reduceandcrop_rgbbgr24(src, f, d)
          [] halved /\ ~IsRgb(d.fmt) -> v4lconvert_reduceandcrop_yuv420(src, f, d)
          [] OTHER -> IF IsRgb(d.fmt) THEN v4lconvert_crop_rgbbgr24(src, f, d)
                                      ELSE v4lconvert_crop_yuv420(src, f, d)
=============================================================================
