-------------------------------- MODULE MCVfs --------------------------------
\* VfsCalls for TLC: two threads, a directory tree on /home and a second mount.
EXTENDS VfsCalls, TLC
CONSTANTS t1, t2, home, other, d, e, g, f, pip, b, x, n1, n2
MCKind  == (d :> "dir") @@ (e :> "dir") @@ (g :> "dir") @@ (f :> "reg") @@ (pip :> "fifo")
           @@ (b :> "blk") @@ (x :> "lnk") @@ (n1 :> "reg") @@ (n2 :> "reg")
MCMount == [v \in Vnode |-> IF v = g THEN other ELSE home]
MCEntry == {<<d, e>>, <<d, f>>, <<e, f>>, <<e, pip>>, <<e, b>>, <<d, x>>}
MCFresh == (t1 :> n1) @@ (t2 :> n2)
\* The threads are alike, each with its free vnode.
Symmetry == {(t1 :> t2) @@ (t2 :> t1) @@ (n1 :> n2) @@ (n2 :> n1)}
=============================================================================
