---------------------------- MODULE MCThreadPool ----------------------------
EXTENDS ThreadPool, TLC

\* The workers are interchangeable (safety runs only).
WorkerSymmetry == Permutations(Threads)
=============================================================================
