------------------------------ MODULE MCKernel ------------------------------
\* Kernel for TLC: the constants are those of the .cfg.
EXTENDS Kernel
=============================================================================
