----------------------------- MODULE CpuKernels -----------------------------
(* Every kernel on the CPU, under one name.                                *)
EXTENDS ShapeKernels, ElementwiseKernels, NnKernels, SpectralKernels
=============================================================================
