--------------------------- MODULE CompressedFrames -------------------------
(***************************************************************************)
(* The camera's side of compressed Bayer data: encoders, which are not     *)
(* part of this code, for the formats of CompressedBayer.  They use only   *)
(* what a decoder's comments say of the codes, and the simplest choice     *)
(* that exercises them: a pixel like all its neighbours is coded as no     *)
(* difference, other pixels as themselves or as an exact difference.       *)
(***************************************************************************)
EXTENDS CameraJpegs

(* The codes of MR97310A and SN9C2028. *)
MrCodes == {<<0, <<0>>>>, <<-3, <<1, 1, 0>>>>, <<3, <<1, 0, 1>>>>, <<8, <<1, 0, 0, 0>>>>,
            <<-8, <<1, 0, 0, 1>>>>, <<-20, <<1, 1, 1, 1>>>>, <<20, <<1, 1, 1, 0, 0>>>>}
CodeOf(codes, d) == {c[2] : c \in {e \in codes : e[1] = d}}
MrCode(v, from) ==
    LET exact == CodeOf(MrCodes, v - from)
    IN  IF exact # {} THEN CHOOSE c \in exact : TRUE ELSE <<1, 1, 1, 0, 1>> \o BitsOf(v \div 8, 5)
MrAbsolute(v) == <<1, 1, 1, 0, 1>> \o BitsOf(v \div 8, 5)

(* MR97310A: the pixels of the same colour to the left and above.          *)
Mr97310a(s) ==
    LET B(x, y) == Raw(s, "SBGGR8", x, y)
        Near(x, y) == {<<x - 2, y>>, <<x - 2, y - 2>>, <<x, y - 2>>, <<x + 2, y - 2>>}
                      \cap ((0 .. s.w - 1) \X (0 .. s.h - 1))
        Code(x, y) ==
            CASE x < 2 /\ y < 2  -> BitsOf(B(x, y), 8)
              [] x >= 2 /\ y < 2 -> MrCode(B(x, y), B(x - 2, y))
              [] OTHER -> IF \A n \in Near(x, y) : B(n[1], n[2]) = B(x, y) THEN <<0>>
                          ELSE MrAbsolute(B(x, y))
        Row(y) == LET P(x) == Code(x, y) IN Concat(s.w, P)
    IN  Padded(<<>>, 12) \o Packed(Concat(s.h, Row)) \o Padded(<<>>, 12)

Sn9c2028(s) ==
    LET Row(y) == LET P(x) == LET l == RawLine(s, "SBGGR8", y)
                              IN  IF x < 2 THEN BitsOf(l[x + 1], 8) ELSE MrCode(l[x + 1], l[x - 1])
                  IN  Concat(s.w, P)
    IN  Padded(<<>>, 12) \o Packed(Concat(s.h, Row))

-----------------------------------------------------------------------------
(* PAC207: a line like the one two above refers to it; the first two lines *)
(* are raw, the others have the coarsest step that expresses them.         *)
PacCodes == {<<0, <<0, 0>>>>, <<-1, <<0, 1>>>>, <<1, <<1, 0>>>>, <<-2, <<1, 1, 0, 0>>>>,
             <<2, <<1, 1, 0, 1>>>>, <<-3, <<1, 1, 1, 0, 0>>>>, <<3, <<1, 1, 1, 0, 1>>>>,
             <<-4, <<1, 1, 1, 1, 0, 0>>>>, <<4, <<1, 1, 1, 1, 0, 1>>>>}
PacSteps == <<[mark |-> <<60, 195>>, step |-> 17, bits |-> 4],
              [mark |-> <<45, 210>>, step |-> 9, bits |-> 5],
              [mark |-> <<30, 225>>, step |-> 5, bits |-> 6]>>

PacCode(v, from, p) ==
    IF (v - from) % p.step = 0 /\ Trunc(v - from, p.step) \in -4 .. 4
    THEN CodeOf(PacCodes, Trunc(v - from, p.step))
    ELSE IF v % 2^(8 - p.bits) = 0 THEN {<<1, 1, 1, 1, 1>> \o BitsOf(v \div 2^(8 - p.bits), p.bits)}
    ELSE {}

PacRow(l, p) ==
    LET Codes(x) == PacCode(l[x], l[x - 2], p)
        Code(i)  == CHOOSE c \in Codes(i + 3) : TRUE
        bits     == Concat(Len(l) - 2, Code)
        bytes    == 4 + Len(Packed(bits))
    IN  IF \E x \in 3 .. Len(l) : Codes(x) = {} THEN {}
        ELSE {Padded(p.mark \o SubSeq(l, 1, 2) \o Packed(bits), bytes + (bytes % 2))}

Pac207(s) ==
    LET Row(y) ==
            LET l == RawLine(s, "SBGGR8", y)
                from == 1 + (y % 3)                 \* which step is tried first
                tried == <<PacSteps[from], PacSteps[1 + (from % 3)], PacSteps[1 + ((from + 1) % 3)]>>
                coded == SelectSeq([i \in 1 .. 3 |-> PacRow(l, tried[i])], LAMBDA r : r # {})
            IN  IF y < 2 THEN <<15, 240>> \o l
                ELSE IF l = RawLine(s, "SBGGR8", y - 2) /\ y % 4 < 2 THEN <<75, 180>>
                ELSE CHOOSE r \in coded[1] : TRUE
    IN  Concat(s.h, Row)

-----------------------------------------------------------------------------
(* SQ905C: a pixel is predicted from the nearest ones of its colour to the *)
(* left and above, and the difference that comes closest is sent; the      *)
(* camera knows what the decoder makes of it.                              *)
SqDifferences == <<-144, -110, -77, -53, -35, -21, -11, -3, 2, 10, 20, 34, 52, 76, 110, 144>>
SqBits(nibble) ==
    CASE nibble = 8 -> <<0>> [] nibble = 7 -> <<1, 0>> [] nibble = 9 -> <<1, 1, 0>>
      [] nibble = 6 -> <<1, 1, 1, 0>>
      [] nibble \in 10 .. 15 -> BitsOf(230 + nibble, 8)
      [] nibble \in 0 .. 5   -> BitsOf(251 - nibble, 8)

(* sent: what the decoder has so far *)
SqPredicted(w, sent) ==
    LET n == Len(sent)   x == n % w   y == n \div w
        at(dx, dy) == sent[n + 1 + dx + dy * w]
        above == CASE y < 2 /\ (y = 0 \/ x % 2 = y % 2) -> 128
                   [] y >= 2 /\ x % 2 = y % 2           -> at(0, -2)
                   [] y > 0 /\ x % 2 # y % 2            -> at(IF x < w - 1 THEN 1 ELSE -1, -1)
    IN  IF x < 2 THEN above ELSE (above + at(-2, 0)) \div 2

SqBest(p, v) ==
    LET usable  == {k \in 1 .. 16 : p + SqDifferences[k] \in 0 .. 255}
        Off(k)  == IF p + SqDifferences[k] < v THEN v - p - SqDifferences[k]
                                               ELSE p + SqDifferences[k] - v
    IN  CHOOSE k \in usable : \A j \in usable : Off(k) <= Off(j)

RECURSIVE SqSend(_, _, _)
SqSend(s, sent, bits) ==
    LET n == Len(sent)
        p == SqPredicted(s.w, sent)
        k == SqBest(p, Raw(s, "SRGGB8", n % s.w, n \div s.w))
    IN  IF n = s.w * s.h THEN bits
        ELSE SqSend(s, Append(sent, p + SqDifferences[k]), bits \o SqBits(k - 1))

Sq905c(s) == Padded(<<>>, 80) \o Packed(SqSend(s, <<>>, <<>>))

(* JL2005BCD: stripes of 16 columns; what libjpeg makes of a stripe stands *)
(* for the stripe.                                                         *)
Jl2005bcd(s) ==
    LET Stripe(k) ==
            LET B(x, y) == Raw(s, "SRGGB8", 16 * k + x, y)
                Block(b) ==
                    LET Green(i) == <<B(2 * (i % 8) + ((1 + i \div 8) % 2), 16 * b + i \div 8)>>
                        Red(i)   == <<B(2 * (i % 8), 16 * b + 2 * (i \div 8))>>
                        Blue(i)  == <<B(2 * (i % 8) + 1, 16 * b + 2 * (i \div 8) + 1)>>
                    IN  Concat(128, Green) \o Concat(64, Red) \o Concat(64, Blue)
                data == Concat(s.h \div 16, Block) \o <<255, 217>>
            IN  Padded(data, ((Len(data) + 15) \div 16) * 16)
        header == [i \in 1 .. 16 |-> CASE i = 5 -> s.h \div 8 [] i = 6 -> s.w \div 8
                                       [] OTHER -> 0]
    IN  header \o Concat(s.w \div 16, Stripe)
=============================================================================
