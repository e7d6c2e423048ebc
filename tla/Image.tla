-------------------------------- MODULE Image --------------------------------
(***************************************************************************)
(* The two transformations of the Lab-06 image programs and the sequential *)
(* program, part1.cpp, that applies T1 (grayscale) and then T2 (horizontal *)
(* blur).  The arithmetic rounds at every addition, so a colour is kept as *)
(* the term that computed it: two terms are equal only if the same         *)
(* operations were applied to the same pixels in the same order.           *)
(***************************************************************************)
EXTENDS Integers, Sequences

CONSTANTS Height, Width, BlurAmount

ASSUME ImageAssumption ==
  Height \in Nat \ {0} /\ Width \in Nat \ {0} /\ BlurAmount \in Nat \ {0}

Rows  == 0 .. Height - 1
Cols  == 0 .. Width - 1
Pixel == Rows \X Cols

\* The colour read from the input file, and the zero of a fresh matrix.
input == [x \in Pixel |-> <<"input", x>>]
Zero  == <<"zero">>

grey_value(colour) == <<"gray", colour>>

\* The mean of a pixel (half) and of the pixels to its right (the other half);
\* colours[1] is the pixel itself.
blur_value(colours) == <<"blur", colours>>

\* How many pixels T2 reads at column q: the pixel and those to its right.
Window(q) == IF Width - q < BlurAmount THEN Width - q ELSE BlurAmount

Colours(img, p, q) == [k \in 1 .. Window(q) |-> img[<<p, q + k - 1>>]]

Gray(img) == [x \in Pixel |-> grey_value(img[x])]

\* T2 overwrites the image while it reads it, from left to right.
BlurInPlace(img) ==
  LET upto[n \in 0 .. Width] ==
        IF n = 0 THEN img
        ELSE [x \in Pixel |-> IF x[2] = n - 1
                              THEN blur_value(Colours(upto[n - 1], x[1], n - 1))
                              ELSE upto[n - 1][x]]
  IN upto[Width]

\* The image part1.cpp writes.
part1 == BlurInPlace(Gray(input))

\* The blur of an image that is read and never overwritten.
Blurred(img) == [x \in Pixel |-> blur_value(Colours(img, x[1], x[2]))]

IsGray(colour)    == colour[1] = "gray"
IsBlurred(colour) == colour[1] = "blur"
=============================================================================
