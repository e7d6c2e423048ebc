----------------------------- MODULE ImageAtomic -----------------------------
(***************************************************************************)
(* What the locks of the threaded programs promise: T1 converts whole rows *)
(* and T2 blurs whole pixels, each in one atomic step and in the order of  *)
(* its own loop.                                                           *)
(***************************************************************************)
EXTENDS Image

VARIABLES
  pic,   \* the image
  done1, \* rows T1 has converted
  done2  \* pixels T2 has blurred, counted along the rows

avars == <<pic, done1, done2>>

AInit == pic = input /\ done1 = 0 /\ done2 = 0

GrayRow ==
  /\ done1 < Height
  /\ pic' = [x \in Pixel |-> IF x[1] = done1 THEN grey_value(pic[x]) ELSE pic[x]]
  /\ done1' = done1 + 1
  /\ UNCHANGED done2

BlurPixel ==
  LET p == done2 \div Width
      q == done2 % Width
  IN /\ done2 < Height * Width
     /\ pic' = [pic EXCEPT ![<<p, q>>] = blur_value(Colours(pic, p, q))]
     /\ done2' = done2 + 1
     /\ UNCHANGED done1

ANext == GrayRow \/ BlurPixel

ASpec == AInit /\ [][ANext]_avars
=============================================================================
